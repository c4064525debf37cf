--------------------------- MODULE SlabPoolSession ---------------------------
(***************************************************************************)
(* Any sequence of calls on a SlabPool by callers that keep its contract:  *)
(* they return only what they hold, and return it once.                    *)
(***************************************************************************)
EXTENDS SlabPool, Sequences, FiniteSets, Functions

VARIABLES pool,
          live,   \* the slots that callers hold
          free    \* history: the other slots, in the order they will be given

poolVars == <<pool, live, free>>

PoolInit ==
  /\ pool = NewPool
  /\ live = {}
  /\ free = [k \in 1 .. Capacity |-> k - 1]

Allocate ==
  LET a == allocate(pool)
  IN  /\ pool' = a.pool
      /\ live' = IF a.slot = kNone THEN live ELSE live \cup {a.slot}
      /\ free' = IF free = << >> THEN free ELSE Tail(free)

Deallocate(idx) ==
  /\ idx \in live
  /\ pool' = deallocate(pool, idx)
  /\ live' = live \ {idx}
  /\ free' = <<idx>> \o free

PoolNext == Allocate \/ \E idx \in Slots : Deallocate(idx)

PoolSpec == PoolInit /\ [][PoolNext]_poolVars

-----------------------------------------------------------------------------
\* The list that starts at free_head runs through the slots of s in their
\* order and ends there.
Threaded(p, s) ==
  /\ p.free_head = IF s = << >> THEN kNone ELSE s[1]
  /\ \A k \in 1 .. Len(s) :
       p.next_free[s[k]] = IF k = Len(s) THEN kNone ELSE s[k + 1]

\* However allocate and deallocate follow one another, the free list visits
\* every slot that no caller holds, once, and no slot that a caller holds:
\* nothing is lost and nothing is given out twice.
FreeListIntact ==
  /\ Threaded(pool, free)
  /\ IsInjective(free)
  /\ Range(free) = Slots \ live
  /\ pool.live_count = Cardinality(live)
=============================================================================
