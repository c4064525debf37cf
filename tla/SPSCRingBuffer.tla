--------------------------- MODULE SPSCRingBuffer ---------------------------
(***************************************************************************)
(* The single-producer single-consumer ring buffer of                      *)
(* concurrency/spsc_ring_buffer.hpp, with the two threads that use it.     *)
(*                                                                         *)
(* A step is one access to shared memory with the thread-local work that   *)
(* goes with it.  An acquire load of the other side's index may return an  *)
(* old value, but none older than the one this thread saw last, which is   *)
(* its cached copy.  Indices wrap around at Wrap (2^64 in the code), so    *)
(* that the state space is finite without a bound on the number of calls.  *)
(***************************************************************************)
EXTENDS Integers, Sequences

CONSTANTS Values,     \* the items
          Nothing,    \* no item: a slot never written
          Capacity,   \* number of slots
          Wrap        \* where the indices wrap around

ASSUME RingAssumption ==
  /\ Nothing \notin Values
  /\ Capacity \in Nat /\ Capacity > 1
  /\ Wrap \in Nat /\ Wrap > Capacity /\ Wrap % Capacity = 0

VARIABLES
  buffer,
  head, tail_cache,   \* of the producer
  tail, head_cache,   \* of the consumer
  ppc, item,          \* where try_push is, and what it pushes
  cpc, out            \* where try_pop is, and what it took last

producerVars == <<head, tail_cache, ppc, item>>
consumerVars == <<tail, head_cache, cpc, out>>
vars == <<buffer, producerVars, consumerVars>>

Slot(i) == i % Capacity
Successor(i) == (i + 1) % Wrap

\* The unsigned difference j - i.
Distance(i, j) == (j - i) % Wrap

\* What a load of an index that is now at last may return to a thread that
\* has seen it at seen.
Loadable(seen, last) == {(seen + k) % Wrap : k \in 0 .. Distance(seen, last)}

Init ==
  /\ buffer = [s \in 0 .. Capacity - 1 |-> Nothing]
  /\ head = 0 /\ tail_cache = 0
  /\ tail = 0 /\ head_cache = 0
  /\ ppc = "idle" /\ item = Nothing
  /\ cpc = "idle" /\ out = Nothing

-----------------------------------------------------------------------------
(* try_push.                                                               *)

\* A defect in which the producer goes one item too far.
Full_off_by_one(t) == Distance(t, head) > Capacity

Full(t) == Distance(t, head) >= Capacity

PushCall(v) ==
  /\ ppc = "idle"
  /\ item' = v
  /\ ppc' = IF Full(tail_cache) THEN "refresh" ELSE "write"
  /\ UNCHANGED <<buffer, head, tail_cache, consumerVars>>

\* A defect in which the producer does not keep the index it loaded.
RefreshTail_forgetting ==
  /\ ppc = "refresh"
  /\ ppc' = "idle"
  /\ UNCHANGED <<buffer, head, tail_cache, item, consumerVars>>

\* The cached index says full: look again before giving up.
RefreshTail ==
  /\ ppc = "refresh"
  /\ tail_cache' \in Loadable(tail_cache, tail)
  /\ ppc' = IF Full(tail_cache') THEN "idle" ELSE "write"
  /\ UNCHANGED <<buffer, head, item, consumerVars>>

WriteSlot ==
  /\ ppc = "write"
  /\ buffer' = [buffer EXCEPT ![Slot(head)] = item]
  /\ ppc' = "publish"
  /\ UNCHANGED <<head, tail_cache, item, consumerVars>>

PublishHead ==
  /\ ppc = "publish"
  /\ head' = Successor(head)
  /\ ppc' = "idle"
  /\ UNCHANGED <<buffer, tail_cache, item, consumerVars>>

-----------------------------------------------------------------------------
(* try_pop.                                                                *)

PopCall ==
  /\ cpc = "idle"
  /\ cpc' = IF tail = head_cache THEN "refresh" ELSE "copy"
  /\ UNCHANGED <<buffer, producerVars, tail, head_cache, out>>

\* A defect in which the consumer does not keep the index it loaded.
RefreshHead_forgetting ==
  /\ cpc = "refresh"
  /\ cpc' = "idle"
  /\ UNCHANGED <<buffer, producerVars, tail, head_cache, out>>

\* The cached index says empty: look again before giving up.
RefreshHead ==
  /\ cpc = "refresh"
  /\ head_cache' \in Loadable(head_cache, head)
  /\ cpc' = IF tail = head_cache' THEN "idle" ELSE "copy"
  /\ UNCHANGED <<buffer, producerVars, tail, out>>

CopyOut ==
  /\ cpc = "copy"
  /\ out' = buffer[Slot(tail)]
  /\ cpc' = "release"
  /\ UNCHANGED <<buffer, producerVars, tail, head_cache>>

ReleaseTail ==
  /\ cpc = "release"
  /\ tail' = Successor(tail)
  /\ cpc' = "idle"
  /\ UNCHANGED <<buffer, producerVars, head_cache, out>>

Producer == (\E v \in Values : PushCall(v)) \/ RefreshTail \/ WriteSlot \/ PublishHead
Consumer == PopCall \/ RefreshHead \/ CopyOut \/ ReleaseTail

Next == Producer \/ Consumer

\* A call that has begun goes on, the consumer polls for ever (the sequencer
\* thread does nothing else), and a store becomes visible in finite time:
\* a thread that loads an index again and again gets its latest value.
Fairness ==
  /\ WF_vars(RefreshTail \/ WriteSlot \/ PublishHead)
  /\ WF_vars(Consumer)
  /\ SF_vars(RefreshTail /\ tail_cache' = tail)
  /\ SF_vars(RefreshHead /\ head_cache' = head)

Spec == Init /\ [][Next]_vars /\ Fairness

-----------------------------------------------------------------------------
(* Properties.                                                             *)

\* Going round from what the producer knows of the consumer's progress, the
\* indices come in the order tail_cache, tail, head_cache, head and take up
\* no more than the ring: neither thread's stale copy ever lets it pass the
\* other one, wrap-around included.
IndexOrder ==
  Distance(tail_cache, tail) + Distance(tail, head_cache) + Distance(head_cache, head)
    <= Capacity

\* The producer never writes the slot that the consumer is reading: the
\* plain accesses to buffer_ do not race.
NoSlotRace == ~(ppc = "write" /\ cpc = "copy" /\ Slot(head) = Slot(tail))

\* The items that were published and not copied yet.
Contents ==
  LET first == IF cpc = "release" THEN Successor(tail) ELSE tail
  IN  [k \in 1 .. Distance(first, head) |-> buffer[Slot(first + k - 1)]]

Fifo == INSTANCE BoundedFifo WITH queue <- Contents

\* Seen from outside the ring is an atomic bounded queue: a push takes effect
\* when head is stored, a pop when the item is copied.
ImplementsFifo == Fifo!Spec

\* A published item does not wait for ever for a consumer that polls.
ItemsAreTaken == Contents # << >> ~> cpc = "release"

\* A producer that finds the ring full again and again gets through again and
\* again: its cached index does not keep it out of a ring that is drained.
RetriesGetThrough == []<>(ppc = "refresh") => []<>(ppc = "write")

=============================================================================
