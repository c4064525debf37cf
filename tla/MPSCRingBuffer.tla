--------------------------- MODULE MPSCRingBuffer ---------------------------
(***************************************************************************)
(* The multiple-producer single-consumer ring buffer of                    *)
(* concurrency/mpsc_ring_buffer.hpp and the threads that use it.           *)
(*                                                                         *)
(* A step is one access to shared memory with the thread-local work that   *)
(* goes with it.  A relaxed load of enqueue_pos_ may return an old value,  *)
(* but none older than the last that this producer saw; the compare and    *)
(* exchange may fail without a reason, but succeeds only on the latest     *)
(* value.  Loads of a cell's sequence return its latest value.  Positions  *)
(* are natural numbers: the code's 64 bits do not overflow.                *)
(***************************************************************************)
EXTENDS Integers, Sequences, FiniteSets

CONSTANTS Pushers,     \* the producers
          Items,
          NoData,      \* no item: a cell never written
          NumCells,
          MaxPushes    \* bound: positions claimed

ASSUME CellsAssumption ==
  /\ NoData \notin Items
  /\ NumCells \in Nat /\ NumCells > 1
  /\ MaxPushes \in Nat

VARIABLES
  cells,         \* each with its sequence and its data
  enqueue_pos,
  dequeue_pos,   \* of the consumer alone
  pc, pos,       \* of each producer: where try_push is, its position
  pushing,       \* and its item
  pop_pc,        \* where try_pop is
  popped         \* what it took last

pushVars == <<enqueue_pos, pc, pos, pushing>>
popVars == <<dequeue_pos, pop_pc, popped>>
cellsVars == <<cells, pushVars, popVars>>

Cell(n) == n % NumCells

CellsInit ==
  /\ cells = [i \in 0 .. NumCells - 1 |-> [sequence |-> i, data |-> NoData]]
  /\ enqueue_pos = 0
  /\ dequeue_pos = 0
  /\ pc = [p \in Pushers |-> "idle"]
  /\ pos = [p \in Pushers |-> 0]
  /\ pushing = [p \in Pushers |-> NoData]
  /\ pop_pc = "idle"
  /\ popped = NoData

-----------------------------------------------------------------------------
(* try_push.                                                               *)

\* The producers in a call that has not claimed a position yet.
Undecided == {p \in Pushers : pc[p] \in {"check", "claim", "resample"}}

Loads(p) == pos' \in {[pos EXCEPT ![p] = n] : n \in pos[p] .. enqueue_pos}

LoadPosition(p, v) ==
  /\ pc[p] = "idle"
  /\ enqueue_pos + Cardinality(Undecided) < MaxPushes
  /\ pushing' = [pushing EXCEPT ![p] = v]
  /\ Loads(p)
  /\ pc' = [pc EXCEPT ![p] = "check"]
  /\ UNCHANGED <<cells, enqueue_pos, popVars>>

\* A defect in which a position taken by someone else counts as full.
AfterLoad_stale_is_full(diff) == IF diff = 0 THEN "claim" ELSE "idle"

\* A defect in which a cell of the previous lap may be claimed.
AfterLoad_never_full(diff) == IF diff <= 0 THEN "claim" ELSE "resample"

\* What try_push does next when the cell's sequence is diff ahead of its
\* position: claim the position, give up on a full ring, or look again.
AfterLoad(diff) == IF diff = 0 THEN "claim" ELSE IF diff < 0 THEN "idle" ELSE "resample"

LoadSequence(p) ==
  /\ pc[p] = "check"
  /\ pc' = [pc EXCEPT ![p] = AfterLoad(cells[Cell(pos[p])].sequence - pos[p])]
  /\ UNCHANGED <<cells, enqueue_pos, pos, pushing, popVars>>

Resample(p) ==
  /\ pc[p] = "resample"
  /\ Loads(p)
  /\ pc' = [pc EXCEPT ![p] = "check"]
  /\ UNCHANGED <<cells, enqueue_pos, pushing, popVars>>

\* A defect in which the position is stored without a compare.
Claim_by_store(p) ==
  /\ pc[p] = "claim"
  /\ enqueue_pos' = pos[p] + 1
  /\ pc' = [pc EXCEPT ![p] = "write"]
  /\ UNCHANGED <<cells, pos, pushing, popVars>>

\* compare_exchange_weak succeeds.
Claim(p) ==
  /\ pc[p] = "claim"
  /\ enqueue_pos = pos[p]
  /\ enqueue_pos' = pos[p] + 1
  /\ pc' = [pc EXCEPT ![p] = "write"]
  /\ UNCHANGED <<cells, pos, pushing, popVars>>

\* compare_exchange_weak fails and reloads the position.
LoseRace(p) ==
  /\ pc[p] = "claim"
  /\ Loads(p)
  /\ pc' = [pc EXCEPT ![p] = "check"]
  /\ UNCHANGED <<cells, enqueue_pos, pushing, popVars>>

WriteCell(p) ==
  /\ pc[p] = "write"
  /\ cells' = [cells EXCEPT ![Cell(pos[p])].data = pushing[p]]
  /\ pc' = [pc EXCEPT ![p] = "publish"]
  /\ UNCHANGED <<enqueue_pos, pos, pushing, popVars>>

\* A defect in which the cell's sequence stays that of a free cell.
Publish_unmarked(p) ==
  /\ pc[p] = "publish"
  /\ cells' = [cells EXCEPT ![Cell(pos[p])].sequence = pos[p]]
  /\ pos' = [pos EXCEPT ![p] = @ + 1]
  /\ pc' = [pc EXCEPT ![p] = "idle"]
  /\ UNCHANGED <<enqueue_pos, pushing, popVars>>

\* The cell is published; the producer has seen enqueue_pos_ one beyond the
\* position that it claimed.
Publish(p) ==
  /\ pc[p] = "publish"
  /\ cells' = [cells EXCEPT ![Cell(pos[p])].sequence = pos[p] + 1]
  /\ pos' = [pos EXCEPT ![p] = @ + 1]
  /\ pc' = [pc EXCEPT ![p] = "idle"]
  /\ UNCHANGED <<enqueue_pos, pushing, popVars>>

-----------------------------------------------------------------------------
(* try_pop.                                                                *)

Published == cells[Cell(dequeue_pos)].sequence = dequeue_pos + 1

\* A call that finds nothing published returns false and changes nothing.
LoadFront ==
  /\ pop_pc = "idle"
  /\ pop_pc' = IF Published THEN "copy" ELSE "idle"
  /\ UNCHANGED <<cells, pushVars, dequeue_pos, popped>>

CopyCell ==
  /\ pop_pc = "copy"
  /\ popped' = cells[Cell(dequeue_pos)].data
  /\ pop_pc' = "free"
  /\ UNCHANGED <<cells, pushVars, dequeue_pos>>

\* The cell is ready for the next lap; dequeue_pos_ is the consumer's own.
FreeCell ==
  /\ pop_pc = "free"
  /\ cells' = [cells EXCEPT ![Cell(dequeue_pos)].sequence = dequeue_pos + NumCells]
  /\ dequeue_pos' = dequeue_pos + 1
  /\ pop_pc' = "idle"
  /\ UNCHANGED <<pushVars, popped>>

PushThread(p) ==
  \/ \E v \in Items : LoadPosition(p, v)
  \/ LoadSequence(p) \/ Resample(p) \/ Claim(p) \/ LoseRace(p)
  \/ WriteCell(p) \/ Publish(p)

PopThread == LoadFront \/ CopyCell \/ FreeCell

CellsNext == (\E p \in Pushers : PushThread(p)) \/ PopThread

\* A producer that has claimed a position goes on to publish it, and the
\* consumer polls for ever.
CellsFairness ==
  /\ \A p \in Pushers : WF_cellsVars(WriteCell(p) \/ Publish(p))
  /\ WF_cellsVars(PopThread)

CellsSpec == CellsInit /\ [][CellsNext]_cellsVars /\ CellsFairness

-----------------------------------------------------------------------------
(* Properties.                                                             *)

\* No two threads touch the data of one cell at the same time: between its
\* claim and its publication a cell belongs to one producer, and while it is
\* copied to the consumer.
NoCellRace ==
  \A p \in Pushers :
    pc[p] = "write" =>
      /\ \A q \in Pushers \ {p} : pc[q] = "write" => Cell(pos[q]) # Cell(pos[p])
      /\ pop_pc = "copy" => Cell(dequeue_pos) # Cell(pos[p])

Claimant(n) == {p \in Pushers : pc[p] \in {"write", "publish"} /\ pos[p] = n}

\* The items of the positions that were claimed and not copied yet, the ones
\* that their producer has not stored yet included.
Claimed ==
  LET first == IF pop_pc = "free" THEN dequeue_pos + 1 ELSE dequeue_pos
      At(n) == IF Claimant(n) = {} THEN cells[Cell(n)].data
               ELSE pushing[CHOOSE p \in Claimant(n) : TRUE]
  IN  [k \in 1 .. enqueue_pos - first |-> At(first + k - 1)]

ClaimQueue == INSTANCE BoundedFifo WITH Values <- Items, Capacity <- NumCells, Nothing <- NoData,
                                        queue <- Claimed, out <- popped

\* Seen from outside the ring is an atomic bounded queue, in the order in
\* which the producers claimed their positions.
ClaimsAreFifo == ClaimQueue!Spec

\* try_push gives up only when as many items as there are cells have been
\* claimed and not been taken out: losing a race, or a position that is out
\* of date, never passes for a full ring.
PushFailsOnlyWhenFull ==
  [][\A p \in Pushers :
       pc[p] = "check" /\ pc'[p] = "idle" => enqueue_pos - dequeue_pos >= NumCells]_cellsVars

\* An item whose position is claimed does not wait for ever for a consumer
\* that polls, however many other producers overtake its own.
ClaimsAreTaken == Claimed # << >> ~> pop_pc = "free"
=============================================================================
