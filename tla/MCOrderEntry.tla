---------------------------- MODULE MCOrderEntry ----------------------------
(***************************************************************************)
(* Small instances of the order-entry path for TLC: the ring that connects *)
(* a producer to the sequencer, and the sequencer that polls such rings.   *)
(* subject says which of them a behaviour exercises, so that the state     *)
(* spaces add up; each has the fairness of its own specification.          *)
(***************************************************************************)
EXTENDS SPSCRingBuffer, FanInSequencer

VARIABLE subject

MCInit ==
  /\ subject \in {"ring", "sequencer"}
  /\ Init
  /\ FanInInit

MCNext ==
  /\ UNCHANGED subject
  /\ \/ /\ subject = "ring"
        /\ Next
        /\ UNCHANGED fanInVars
     \/ /\ subject = "sequencer"
        /\ FanInNext
        /\ UNCHANGED vars

\* An action of the ring or of the sequencer, where it is the subject.
OfRing(A) == subject = "ring" /\ A

OfSequencer(A) == subject = "sequencer" /\ A

\* The conjuncts of Fairness, and that of FanInSpec.
MCSpec ==
  /\ MCInit
  /\ [][MCNext]_<<subject, vars, fanInVars>>
  /\ WF_vars(OfRing(RefreshTail \/ WriteSlot \/ PublishHead))
  /\ WF_vars(OfRing(Consumer))
  /\ SF_vars(OfRing(RefreshTail /\ tail_cache' = tail))
  /\ SF_vars(OfRing(RefreshHead /\ head_cache' = head))
  /\ WF_fanInVars(OfSequencer(Sequencer))
=============================================================================
