------------------------------ MODULE SlabPool ------------------------------
(***************************************************************************)
(* The fixed-capacity pool of memory/slab_pool.hpp: a free list of slot    *)
(* numbers threaded through an array.  A pointer is the number of its      *)
(* slot, and nullptr is kNone.                                             *)
(***************************************************************************)
EXTENDS Integers

CONSTANT Capacity

ASSUME PoolAssumption == Capacity \in Nat \ {0}

kNone == -1

Slots == 0 .. Capacity - 1

PoolType == [next_free : [Slots -> Slots \cup {kNone}],
             free_head : Slots \cup {kNone},
             live_count : Int]

NewPool == [next_free |-> [i \in Slots |-> IF i + 1 < Capacity THEN i + 1 ELSE kNone],
            free_head |-> 0,
            live_count |-> 0]

\* The slot handed out, kNone when there is none, and the pool afterwards.
allocate(p) ==
  IF p.free_head = kNone
  THEN [slot |-> kNone, pool |-> p]
  ELSE [slot |-> p.free_head,
        pool |-> [next_free |-> p.next_free,
                  free_head |-> p.next_free[p.free_head],
                  live_count |-> p.live_count + 1]]

\* A defect in which the returned slot does not point to the rest of the list.
deallocate_without_link(p, idx) ==
  [p EXCEPT !.free_head = idx, !.live_count = @ - 1]

deallocate(p, idx) ==
  [next_free |-> [p.next_free EXCEPT ![idx] = p.free_head],
   free_head |-> idx,
   live_count |-> p.live_count - 1]
=============================================================================
