--------------------------- MODULE FanInSequencer ---------------------------
(***************************************************************************)
(* The order-entry path of concurrency/fan_in_sequencer.hpp: one queue per *)
(* producer, polled in turn by the sequencer thread.                       *)
(*                                                                         *)
(* Each queue is the atomic bounded queue that SPSCRingBuffer implements   *)
(* (its loads returning the latest index), and only its length matters     *)
(* here.  A step of the sequencer is one attempt of try_drain_one, so      *)
(* producers push in the middle of a sweep.                                *)
(***************************************************************************)
EXTENDS Integers, FiniteSets

CONSTANTS NumProducers, QueueCapacity

ASSUME FanInAssumption == NumProducers \in Nat \ {0} /\ QueueCapacity \in Nat \ {0}

Producers == 0 .. NumProducers - 1

\* What try_drain_one returned, when it is not a source_producer.
Nowhere == NumProducers       \* false
Sweeping == NumProducers + 1  \* nothing yet

VARIABLES
  queues,      \* how many items wait in each queue
  next_queue,
  attempt,     \* attempts of the sweep under way
  returned,    \* the source of the item drained last, Nowhere or Sweeping
  arrived,     \* history: the producers that pushed since the sweep began
  overtaken    \* history: since an item is first in the queue of a producer,
               \* how many items of each other producer were drained

fanInVars == <<queues, next_queue, attempt, returned, arrived, overtaken>>

FanInInit ==
  /\ queues = [p \in Producers |-> 0]
  /\ next_queue = 0
  /\ attempt = 0
  /\ returned = Nowhere
  /\ arrived = {}
  /\ overtaken = [p \in Producers |-> [q \in Producers |-> 0]]

push_from(p) ==
  /\ queues[p] < QueueCapacity
  /\ queues' = [queues EXCEPT ![p] = @ + 1]
  /\ arrived' = arrived \cup {p}
  /\ UNCHANGED <<next_queue, attempt, returned, overtaken>>

\* The sequencer calls try_drain_one, again and again.
DrainCall ==
  /\ returned # Sweeping
  /\ returned' = Sweeping
  /\ attempt' = 0
  /\ arrived' = {}
  /\ UNCHANGED <<queues, next_queue, overtaken>>

\* Defects in which the sweep starts over at the first queue once an item was
\* found, in which it leaves one queue out, and in which it never leaves the
\* queue it is at.
Following_restart(i) == IF queues[i] > 0 THEN 0 ELSE (i + 1) % NumProducers
SweepLength_one_short == NumProducers - 1
Following_same(i) == i

Following(i) == (i + 1) % NumProducers

SweepLength == NumProducers

\* One attempt: the queue whose turn it is has an item or has none.
DrainAttempt ==
  LET idx == next_queue
  IN  /\ returned = Sweeping
      /\ attempt < SweepLength
      /\ next_queue' = Following(idx)
      /\ attempt' = attempt + 1
      /\ IF queues[idx] > 0
         THEN /\ queues' = [queues EXCEPT ![idx] = @ - 1]
              /\ returned' = idx
              /\ overtaken' = [p \in Producers |->
                                 IF p = idx \/ queues[p] = 0
                                 THEN [q \in Producers |-> 0]
                                 ELSE [overtaken[p] EXCEPT ![idx] = @ + 1]]
         ELSE UNCHANGED <<queues, returned, overtaken>>
      /\ UNCHANGED arrived

DrainNothing ==
  /\ returned = Sweeping
  /\ attempt = SweepLength
  /\ returned' = Nowhere
  /\ UNCHANGED <<queues, next_queue, attempt, arrived, overtaken>>

Sequencer == DrainCall \/ DrainAttempt \/ DrainNothing

FanInNext == Sequencer \/ \E p \in Producers : push_from(p)

\* The sequencer thread does nothing but drain; producers owe nothing.
FanInSpec == FanInInit /\ [][FanInNext]_fanInVars /\ WF_fanInVars(Sequencer)

-----------------------------------------------------------------------------
\* When try_drain_one returns false, whatever waits in a queue arrived after
\* the call began: no sweep misses an item that was already there.
NothingMissed ==
  returned = Nowhere => \A p \in Producers : queues[p] > 0 => p \in arrived

\* While an item is first in its queue, each other producer gets at most one
\* item through before it: a busy client cannot hold up the others.
BoundedOvertaking == \A p, q \in Producers : overtaken[p][q] <= 1

\* An item that waits is drained eventually, however fast the other clients
\* push.
NoStarvation == \A p \in Producers : queues[p] > 0 ~> returned = p
=============================================================================
