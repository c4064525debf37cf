----------------------------- MODULE BoundedFifo -----------------------------
(***************************************************************************)
(* What the lock-free ring buffers of concurrency/ promise: a bounded      *)
(* first-in first-out queue with atomic operations.  What goes in comes    *)
(* out once, in order, and never more than Capacity items are inside.      *)
(***************************************************************************)
EXTENDS Naturals, Sequences

CONSTANTS Values, Capacity, Nothing

VARIABLES queue,
          out     \* what the consumer took last, Nothing at first

Init == queue = << >> /\ out = Nothing

Enqueue(v) ==
  /\ Len(queue) < Capacity
  /\ queue' = Append(queue, v)
  /\ UNCHANGED out

Dequeue ==
  /\ queue # << >>
  /\ out' = Head(queue)
  /\ queue' = Tail(queue)

Next == (\E v \in Values : Enqueue(v)) \/ Dequeue

Spec == Init /\ [][Next]_<<queue, out>>
=============================================================================
