--------------------------- MODULE Queues_proofs ---------------------------
(***************************************************************************)
(* The ring of one producer, the sequencer that polls such rings, and the  *)
(* ring of many producers.                                                 *)
(*                                                                         *)
(* For every capacity and wherever the indices wrap around, the producer   *)
(* and the consumer keep out of each other's slot, and the ring is a       *)
(* bounded queue.  For any number of producers, a sweep of the sequencer   *)
(* misses nothing that waited when it began, and serves every other        *)
(* producer at most once before the one that waits.  In the ring of many   *)
(* producers no two threads touch the data of one cell at the same time, a *)
(* push fails only on a full ring, and the ring is a bounded queue.        *)
(***************************************************************************)
EXTENDS SPSCRingBuffer, FanInSequencer, MPSCRingBuffer, TLAPS

USE SMT, Zenon, SMTT(20), ZenonT(30)

-----------------------------------------------------------------------------
(* The ring: arithmetic of indices.                                        *)

Index == 0 .. Wrap - 1

LEMMA RingTypes ==
  /\ Capacity \in Nat \ {0} /\ Capacity \in Int /\ Capacity > 1
  /\ Wrap \in Nat \ {0} /\ Wrap \in Int /\ Wrap > Capacity
  BY RingAssumption

\* % with numbers less than one divisor away from the range of its results.
LEMMA SmallMod ==
  ASSUME NEW c \in Nat \ {0}, NEW n \in Int, -c <= n, n < c + c
  PROVE  n % c = IF n < 0 THEN n + c ELSE IF n < c THEN n ELSE n - c
  OBVIOUS

\* The difference of two indices, without %.
LEMMA DistanceOf ==
  ASSUME NEW i \in Index, NEW j \in Index
  PROVE  /\ Distance(i, j) = IF i <= j THEN j - i ELSE j - i + Wrap
         /\ Distance(i, j) \in Index
<1> DEFINE n == j - i
<1>1. n \in Int /\ -Wrap <= n /\ n < Wrap /\ n < Wrap + Wrap
  BY RingTypes DEF Index
<1> HIDE DEF n
<1>2. n % Wrap = IF n < 0 THEN n + Wrap ELSE n
  BY Zenon, <1>1, RingTypes, SmallMod
<1> QED BY <1>1, <1>2, RingTypes DEF n, Distance, Index

\* The index k places after i, on the way to j.
LEMMA MovingOn ==
  ASSUME NEW i \in Index, NEW j \in Index, NEW k \in 0 .. Distance(i, j)
  PROVE  LET m == (i + k) % Wrap
         IN  /\ m \in Index
             /\ Distance(m, j) = Distance(i, j) - k
             /\ \A l \in Index : Distance(l, i) + k < Wrap =>
                                   Distance(l, m) = Distance(l, i) + k
<1> DEFINE n == i + k
           m == n % Wrap
<1>1. k \in 0 .. Wrap - 1 /\ n \in Int /\ 0 <= n /\ n < Wrap + Wrap /\ -Wrap <= n
  <2> DEFINE d == Distance(i, j)
  <2>1. d \in Index
    BY DistanceOf
  <2> HIDE DEF d
  <2>2. k \in 0 .. d
    BY DEF d
  <2> QED BY <2>1, <2>2, RingTypes DEF Index
<1>2. m = IF n < Wrap THEN n ELSE n - Wrap
  <2> HIDE DEF n
  <2>1. n % Wrap = IF n < 0 THEN n + Wrap ELSE IF n < Wrap THEN n ELSE n - Wrap
    BY Zenon, <1>1, RingTypes, SmallMod
  <2> QED BY <1>1, <2>1
<1>3. m \in Index
  BY <1>1, <1>2, RingTypes DEF Index
<1>4. Distance(m, j) = Distance(i, j) - k
  <2> HIDE DEF m
  <2>1. Distance(i, j) = IF i <= j THEN j - i ELSE j - i + Wrap
    BY DistanceOf
  <2>2. Distance(m, j) = IF m <= j THEN j - m ELSE j - m + Wrap
    BY <1>3, DistanceOf
  <2> QED BY <1>1, <1>2, <1>3, <2>1, <2>2, RingTypes DEF Index
<1>5. ASSUME NEW l \in Index, Distance(l, i) + k < Wrap
      PROVE  Distance(l, m) = Distance(l, i) + k
  <2> HIDE DEF m
  <2>1. Distance(l, i) = IF l <= i THEN i - l ELSE i - l + Wrap
    BY DistanceOf
  <2>2. Distance(l, m) = IF l <= m THEN m - l ELSE m - l + Wrap
    BY <1>3, DistanceOf
  <2> QED BY <1>1, <1>2, <1>3, <1>5, <2>1, <2>2, RingTypes DEF Index
<1> QED BY <1>3, <1>4, <1>5

\* Distances add up as long as they do not go all the way round.
LEMMA DistancesAddUp ==
  ASSUME NEW i \in Index, NEW j \in Index, NEW k \in Index,
         Distance(i, j) + Distance(j, k) < Wrap
  PROVE  Distance(i, k) = Distance(i, j) + Distance(j, k)
<1>1. /\ Distance(i, j) = IF i <= j THEN j - i ELSE j - i + Wrap
      /\ Distance(j, k) = IF j <= k THEN k - j ELSE k - j + Wrap
      /\ Distance(i, k) = IF i <= k THEN k - i ELSE k - i + Wrap
  BY DistanceOf
<1> QED BY <1>1, RingTypes DEF Index

-----------------------------------------------------------------------------
(* Slots of indices.                                                       *)

\* Multiples of the capacity are at least one lap apart.
LEMMA LapsApart ==
  ASSUME NEW x \in Int, NEW y \in Int, x < y
  PROVE  Capacity * y >= Capacity * x + Capacity
<1>1. Capacity \in Nat
  BY RingTypes
<1>2. Capacity * (y - x - 1) >= 0
  BY <1>1
<1>3. Capacity * (y - x - 1) = Capacity * y - Capacity * x - Capacity
  BY <1>1
<1> QED BY <1>1, <1>2, <1>3

\* An index is a number of laps and a slot.
LEMMA LapsAndSlot ==
  ASSUME NEW n \in Nat
  PROVE  /\ Slot(n) \in 0 .. Capacity - 1 /\ n \div Capacity \in Int
         /\ n = Capacity * (n \div Capacity) + Slot(n)
         /\ Capacity * (n \div Capacity) \in Int
  BY RingTypes DEF Slot

\* Numbers less than a lap apart have different slots.
LEMMA SlotsDiffer ==
  ASSUME NEW m \in Nat, NEW n \in Nat, m <= n, n < m + Capacity, Slot(m) = Slot(n)
  PROVE  m = n
<1> DEFINE x == m \div Capacity
           y == n \div Capacity
           u == Capacity * x
           v == Capacity * y
<1>1. /\ x \in Int /\ y \in Int /\ u \in Int /\ v \in Int
      /\ m = u + Slot(m) /\ n = v + Slot(m) /\ Slot(m) \in Int
  BY LapsAndSlot
<1>2. /\ x < y => v >= u + Capacity
      /\ y < x => u >= v + Capacity
  <2> HIDE DEF x, y
  <2> QED BY <1>1, LapsApart
<1>3. x = y => u = v
  OBVIOUS
<1> HIDE DEF x, y, u, v
<1> QED BY <1>1, <1>2, <1>3, RingTypes

\* Indices wrap around where slot 0 follows the last slot.
LEMMA WrapsAtSlotZero ==
  ASSUME NEW n \in Nat
  PROVE  Slot(n + Wrap) = Slot(n)
<1> DEFINE m == n + Wrap
           x == n \div Capacity
           y == m \div Capacity
           z == Wrap \div Capacity
           u == Capacity * x
           v == Capacity * y
           w == Capacity * (x + z)
           r == Slot(n)
           s == Slot(m)
<1>1. x \in Int /\ u \in Int /\ n = u + r /\ r \in 0 .. Capacity - 1
  BY LapsAndSlot
<1>2. m \in Nat
  BY RingTypes
<1>3. y \in Int /\ v \in Int /\ m = v + s /\ s \in 0 .. Capacity - 1
  <2> HIDE DEF m
  <2> QED BY <1>2, LapsAndSlot
<1>4. z \in Int /\ Wrap = Capacity * z + Slot(Wrap) /\ Slot(Wrap) = 0
      /\ Capacity * z \in Int
  <2>1. Wrap \in Nat
    BY RingTypes
  <2>2. Slot(Wrap) = 0
    BY RingAssumption DEF Slot
  <2> QED BY <2>1, <2>2, LapsAndSlot
<1> HIDE DEF x, y, z, r, s, m
<1>5. w = u + Capacity * z /\ w \in Int
  BY <1>1, <1>4, RingTypes
<1>6. w = u + Wrap
  BY <1>1, <1>4, <1>5, RingTypes
<1>7. /\ x + z < y => v >= w + Capacity
      /\ y < x + z => w >= v + Capacity
      /\ y = x + z => v = w
  <2>1. x + z \in Int
    BY <1>1, <1>4
  <2> QED BY <1>3, <2>1, LapsApart
<1>8. w + r = v + s
  BY <1>1, <1>3, <1>6, RingTypes DEF m
<1> HIDE DEF u, v, w
<1>9. x + z \in Int
  BY <1>1, <1>4
<1> QED BY <1>1, <1>3, <1>5, <1>7, <1>8, <1>9, RingTypes DEF r, s, m

-----------------------------------------------------------------------------
(* The inductive invariant.                                                *)

\* The slots between the oldest the producer may overwrite and its own.
Span == Distance(tail_cache, tail) + Distance(tail, head_cache) + Distance(head_cache, head)

\* A producer that goes on to write has a slot left, a consumer that goes on
\* to copy an item.
RingInv ==
  /\ head \in Index /\ tail \in Index /\ head_cache \in Index /\ tail_cache \in Index
  /\ IndexOrder
  /\ ppc \in {"write", "publish"} => Span < Capacity
  /\ cpc \in {"copy", "release"} => tail # head_cache

LEMMA DistanceTypes ==
  ASSUME RingInv
  PROVE  /\ Distance(tail_cache, tail) \in Nat /\ Distance(tail, head_cache) \in Nat
         /\ Distance(head_cache, head) \in Nat /\ Span \in Nat /\ Span <= Capacity
<1>1. \A i, j \in Index : Distance(i, j) \in Nat
  BY DistanceOf, RingTypes DEF Index
<1> QED BY <1>1, RingTypes DEF RingInv, Span, IndexOrder

\* The span is what the producer computes from its cached index.
LEMMA SpanIsDistance ==
  ASSUME RingInv
  PROVE  /\ Distance(tail_cache, head) = Span
         /\ Distance(tail, head) = Distance(tail, head_cache) + Distance(head_cache, head)
<1>1. Distance(tail, head) = Distance(tail, head_cache) + Distance(head_cache, head)
  BY DistanceTypes, DistancesAddUp, RingTypes DEF RingInv, Span
<1>2. Distance(tail_cache, tail) + Distance(tail, head) = Span
  BY <1>1, DistanceTypes DEF Span
<1> QED BY <1>1, <1>2, DistanceTypes, DistancesAddUp, RingTypes DEF RingInv

\* The invariant excludes that both threads are at one slot.
LEMMA InvExcludesRaces == RingInv => NoSlotRace
<1> SUFFICES ASSUME RingInv, ppc = "write", cpc = "copy", Slot(head) = Slot(tail)
             PROVE  FALSE
  BY DEF NoSlotRace
<1>1. head \in Nat /\ tail \in Nat /\ head \in Index /\ tail \in Index
  BY RingTypes DEF RingInv, Index
<1>2. Distance(tail, head) < Capacity /\ Distance(tail, head) > 0
  <2>1. Span < Capacity /\ tail # head_cache
    BY DEF RingInv
  <2>2. Distance(tail, head_cache) > 0
    <3>1. tail \in Index /\ head_cache \in Index
      BY DEF RingInv
    <3>2. Distance(tail, head_cache) =
            IF tail <= head_cache THEN head_cache - tail ELSE head_cache - tail + Wrap
      BY <3>1, DistanceOf
    <3> QED BY <2>1, <3>1, <3>2, RingTypes DEF Index
  <2> QED BY <2>1, <2>2, SpanIsDistance, DistanceTypes, RingTypes DEF Span
<1>3. CASE tail <= head
  <2>1. Distance(tail, head) = head - tail
    BY <1>1, <1>3, DistanceOf
  <2>2. head < tail + Capacity /\ head # tail
    BY <1>1, <1>2, <2>1, RingTypes
  <2> QED BY <1>1, <1>3, <2>2, SlotsDiffer
<1>4. CASE ~(tail <= head)
  <2> DEFINE m == head + Wrap
  <2>1. Distance(tail, head) = head - tail + Wrap
    BY <1>1, <1>4, DistanceOf
  <2>2. m \in Nat /\ tail <= m /\ m < tail + Capacity /\ m # tail
    BY <1>1, <1>2, <2>1, RingTypes
  <2>3. Slot(m) = Slot(tail)
    BY <1>1, WrapsAtSlotZero
  <2> HIDE DEF m
  <2> QED BY <1>1, <2>2, <2>3, SlotsDiffer
<1> QED BY <1>3, <1>4

-----------------------------------------------------------------------------
(* The steps.                                                              *)

\* A load moves the index a thread has seen towards the latest one.
LEMMA LoadsBetween ==
  ASSUME NEW seen \in Index, NEW last \in Index, NEW n \in Loadable(seen, last)
  PROVE  \E k \in 0 .. Distance(seen, last) :
           /\ n \in Index /\ Distance(n, last) = Distance(seen, last) - k
           /\ \A l \in Index : Distance(l, seen) + k < Wrap =>
                                 Distance(l, n) = Distance(l, seen) + k
<1>1. PICK k \in 0 .. Distance(seen, last) : n = (seen + k) % Wrap
  BY DEF Loadable
<1> QED BY <1>1, MovingOn

\* The successor of an index is one further from every index before it.
LEMMA SuccessorOf ==
  ASSUME NEW i \in Index
  PROVE  /\ Successor(i) \in Index
         /\ \A l \in Index : Distance(l, i) + 1 < Wrap =>
                               Distance(l, Successor(i)) = Distance(l, i) + 1
         /\ \A j \in Index : i # j => Distance(Successor(i), j) = Distance(i, j) - 1
<1>1. Successor(i) = IF i + 1 < Wrap THEN i + 1 ELSE 0
  <2> DEFINE n == i + 1
  <2>1. n \in Int /\ 0 <= n /\ n <= Wrap /\ -Wrap <= n /\ n < Wrap + Wrap
    BY RingTypes DEF Index
  <2> HIDE DEF n
  <2>2. n % Wrap = IF n < 0 THEN n + Wrap ELSE IF n < Wrap THEN n ELSE n - Wrap
    BY Zenon, <2>1, RingTypes, SmallMod
  <2>3. n % Wrap = IF n < Wrap THEN n ELSE 0
    BY <2>1, <2>2, RingTypes
  <2> QED BY <2>3 DEF n, Successor
<1> DEFINE s == Successor(i)
<1>2. s \in Index
  BY <1>1, RingTypes DEF Index
<1> HIDE DEF s
<1>3. s = IF i + 1 < Wrap THEN i + 1 ELSE 0
  BY <1>1 DEF s
<1>4. ASSUME NEW l \in Index, Distance(l, i) + 1 < Wrap
      PROVE  Distance(l, s) = Distance(l, i) + 1
  <2>1. /\ Distance(l, i) = IF l <= i THEN i - l ELSE i - l + Wrap
        /\ Distance(l, s) = IF l <= s THEN s - l ELSE s - l + Wrap
    BY <1>2, DistanceOf
  <2> QED BY <1>2, <1>3, <1>4, <2>1, RingTypes DEF Index
<1>5. ASSUME NEW j \in Index, i # j
      PROVE  Distance(s, j) = Distance(i, j) - 1
  <2>1. /\ Distance(i, j) = IF i <= j THEN j - i ELSE j - i + Wrap
        /\ Distance(s, j) = IF s <= j THEN j - s ELSE j - s + Wrap
    BY <1>2, DistanceOf
  <2> QED BY <1>2, <1>3, <1>5, <2>1, RingTypes DEF Index
<1> QED BY <1>2, <1>4, <1>5 DEF s

\* A producer that does not find the ring full has a slot left.
LEMMA PushCallKeepsInv ==
  ASSUME RingInv, NEW v \in Values, PushCall(v)
  PROVE  RingInv'
<1>1. /\ ppc' = IF Full(tail_cache) THEN "refresh" ELSE "write"
      /\ head' = head /\ tail' = tail /\ head_cache' = head_cache
      /\ tail_cache' = tail_cache /\ cpc' = cpc
  BY DEF PushCall, consumerVars
<1>2. ~Full(tail_cache) => Span < Capacity
  BY SpanIsDistance, DistanceTypes, RingTypes DEF Full
<1> QED BY <1>1, <1>2 DEF RingInv, IndexOrder, Span

\* Nor has one that looked again.
LEMMA RefreshTailKeepsInv ==
  ASSUME RingInv, RefreshTail
  PROVE  RingInv'
<1>1. /\ tail_cache' \in Loadable(tail_cache, tail)
      /\ ppc' = IF Full(tail_cache') THEN "idle" ELSE "write"
      /\ head' = head /\ tail' = tail /\ head_cache' = head_cache /\ cpc' = cpc
  BY DEF RefreshTail, consumerVars
<1>2. PICK k \in 0 .. Distance(tail_cache, tail) :
        tail_cache' \in Index
        /\ Distance(tail_cache', tail) = Distance(tail_cache, tail) - k
  BY <1>1, LoadsBetween DEF RingInv
<1>3. /\ Distance(tail_cache', tail) \in Nat
      /\ Distance(tail_cache', tail) + Distance(tail, head) = Span'
      /\ Span' \in Nat /\ Span' <= Capacity
  BY <1>1, <1>2, DistanceTypes, SpanIsDistance, RingTypes DEF Span
<1>4. Distance(tail_cache', head) = Span'
  BY <1>2, <1>3, DistancesAddUp, RingTypes DEF RingInv
<1>5. ~Full(tail_cache') => Span' < Capacity
  <2>1. Full(tail_cache') <=> Distance(tail_cache', head) >= Capacity
    BY DEF Full
  <2> QED BY <1>3, <1>4, <2>1, RingTypes
<1>6. IndexOrder'
  BY <1>3 DEF IndexOrder, Span
<1> QED BY <1>1, <1>2, <1>5, <1>6 DEF RingInv

\* Storing head takes the slot that was left.
LEMMA PublishHeadKeepsInv ==
  ASSUME RingInv, PublishHead
  PROVE  RingInv'
<1>1. /\ ppc = "publish" /\ head' = Successor(head) /\ ppc' = "idle"
      /\ tail' = tail /\ head_cache' = head_cache /\ tail_cache' = tail_cache
      /\ cpc' = cpc
  BY DEF PublishHead, consumerVars
<1>2. Span < Capacity
  BY <1>1 DEF RingInv
<1>3. Distance(head_cache, head) + 1 < Wrap
  BY <1>2, DistanceTypes, RingTypes DEF Span
<1>4. head' \in Index /\ Distance(head_cache, head') = Distance(head_cache, head) + 1
  BY <1>1, <1>3, SuccessorOf DEF RingInv
<1>5. Span' = Span + 1
  BY <1>1, <1>4, DistanceTypes DEF Span
<1>6. IndexOrder'
  <2>1. Span' <= Capacity
    BY <1>2, <1>5, DistanceTypes, RingTypes
  <2> QED BY <2>1 DEF IndexOrder, Span
<1> QED BY <1>1, <1>4, <1>6 DEF RingInv

\* The consumer loads head: its cached copy moves within the span.
LEMMA RefreshHeadKeepsInv ==
  ASSUME RingInv, RefreshHead
  PROVE  RingInv'
<1>1. /\ head_cache' \in Loadable(head_cache, head)
      /\ cpc' = IF tail = head_cache' THEN "idle" ELSE "copy"
      /\ head' = head /\ tail' = tail /\ tail_cache' = tail_cache /\ ppc' = ppc
  BY DEF RefreshHead, producerVars
<1>2. PICK k \in 0 .. Distance(head_cache, head) :
        /\ head_cache' \in Index
        /\ Distance(head_cache', head) = Distance(head_cache, head) - k
        /\ \A l \in Index : Distance(l, head_cache) + k < Wrap =>
                              Distance(l, head_cache') = Distance(l, head_cache) + k
  BY <1>1, LoadsBetween DEF RingInv
<1>3. Distance(tail, head_cache) + k < Wrap
  BY DistanceTypes, RingTypes DEF Span
<1>4. Distance(tail, head_cache') = Distance(tail, head_cache) + k
  BY <1>2, <1>3 DEF RingInv
<1>5. Span' = Span
  BY <1>1, <1>2, <1>4, DistanceTypes DEF Span
<1>6. IndexOrder'
  BY <1>5 DEF RingInv, IndexOrder, Span
<1> QED BY <1>1, <1>2, <1>5, <1>6 DEF RingInv

\* Storing tail leaves the span as the producer knows it.
LEMMA ReleaseTailKeepsInv ==
  ASSUME RingInv, ReleaseTail
  PROVE  RingInv'
<1>1. /\ cpc = "release" /\ tail' = Successor(tail) /\ cpc' = "idle"
      /\ head' = head /\ head_cache' = head_cache /\ tail_cache' = tail_cache
      /\ ppc' = ppc
  BY DEF ReleaseTail, producerVars
<1>2. tail # head_cache
  BY <1>1 DEF RingInv
<1>3. Distance(tail', head_cache) = Distance(tail, head_cache) - 1 /\ tail' \in Index
  BY <1>1, <1>2, SuccessorOf DEF RingInv
<1>4. Distance(tail_cache, tail) + 1 < Wrap
  <2>1. Distance(tail', head_cache) \in Nat
    BY <1>3, DistanceOf, RingTypes DEF RingInv, Index
  <2> QED BY <1>3, <2>1, DistanceTypes, RingTypes DEF Span
<1>5. Distance(tail_cache, tail') = Distance(tail_cache, tail) + 1
  BY <1>1, <1>4, SuccessorOf DEF RingInv
<1>6. Span' = Span
  BY <1>1, <1>3, <1>5, DistanceTypes DEF Span
<1>7. IndexOrder'
  BY <1>6 DEF RingInv, IndexOrder, Span
<1> QED BY <1>1, <1>3, <1>6, <1>7 DEF RingInv

-----------------------------------------------------------------------------
(* The theorems.                                                           *)

\* At first all indices are 0.
LEMMA RingStarts == Init => RingInv
<1> SUFFICES ASSUME Init PROVE RingInv
  OBVIOUS
<1>1. 0 \in Index
  BY RingTypes DEF Index
<1>2. Distance(0, 0) = 0
  BY <1>1, DistanceOf
<1> QED BY <1>1, <1>2, RingTypes DEF Init, RingInv, IndexOrder

\* The inductive invariant of the ring.
LEMMA RingInvariant == Spec => []RingInv
<1>1. RingInv /\ [Next]_vars => RingInv'
  <2> SUFFICES ASSUME RingInv, [Next]_vars PROVE RingInv'
    OBVIOUS
  <2>1. ASSUME NEW v \in Values, PushCall(v) PROVE RingInv'
    BY <2>1, PushCallKeepsInv
  <2>2. CASE WriteSlot
    BY <2>2 DEF WriteSlot, RingInv, IndexOrder, Span, consumerVars
  <2>3. CASE PopCall
    BY <2>3 DEF PopCall, RingInv, IndexOrder, Span, producerVars
  <2>4. CASE CopyOut
    BY <2>4 DEF CopyOut, RingInv, IndexOrder, Span, producerVars
  <2>5. CASE UNCHANGED vars
    BY <2>5 DEF vars, producerVars, consumerVars, RingInv, IndexOrder, Span
  <2> QED
    BY <2>1, <2>2, <2>3, <2>4, <2>5, RefreshTailKeepsInv, PublishHeadKeepsInv,
       RefreshHeadKeepsInv, ReleaseTailKeepsInv DEF Next, Producer, Consumer
<1> QED BY <1>1, RingStarts, PTL DEF Spec

\* Neither thread passes the other one, however old its copy of the other's
\* index and wherever the indices wrap around (try_push, try_pop).
THEOREM IndicesStayInOrder == Spec => []IndexOrder
<1>1. RingInv => IndexOrder
  BY DEF RingInv
<1> QED BY <1>1, RingInvariant, PTL

\* The plain accesses to buffer_ never race (try_push, try_pop).
THEOREM SlotsNeverShared == Spec => []NoSlotRace
  BY RingInvariant, InvExcludesRaces, PTL
-----------------------------------------------------------------------------
(* The ring implements the queue.                                          *)

\* Where the oldest item is that was not copied yet, and how many there are.
First == IF cpc = "release" THEN Successor(tail) ELSE tail
Count == Distance(First, head)

\* The slot d places after i is the slot of the index reached.
LEMMA SlotReached ==
  ASSUME NEW i \in Index, NEW j \in Index
  PROVE  Slot(i + Distance(i, j)) = Slot(j)
<1>1. i \in Nat /\ j \in Nat
  BY RingTypes DEF Index
<1>2. Distance(i, j) = IF i <= j THEN j - i ELSE j - i + Wrap
  BY DistanceOf
<1>3. CASE i <= j
  <2>1. i + Distance(i, j) = j
    BY <1>1, <1>2, <1>3
  <2> QED BY <2>1
<1>4. CASE ~(i <= j)
  <2>1. i + Distance(i, j) = j + Wrap
    BY <1>1, <1>2, <1>4, RingTypes
  <2> QED BY <1>1, <2>1, WrapsAtSlotZero
<1> QED BY <1>3, <1>4

\* One place after the successor of i is two places after i.
LEMMA SlotAfterSuccessor ==
  ASSUME NEW i \in Index, NEW k \in Nat
  PROVE  Slot(Successor(i) + k) = Slot(i + k + 1)
<1>1. i \in Nat /\ Wrap \in Nat
  BY RingTypes DEF Index
<1>2. Successor(i) = IF i + 1 < Wrap THEN i + 1 ELSE 0
  <2> DEFINE n == i + 1
  <2>1. n \in Int /\ 0 <= n /\ n <= Wrap /\ -Wrap <= n /\ n < Wrap + Wrap
    BY RingTypes DEF Index
  <2> HIDE DEF n
  <2>2. n % Wrap = IF n < 0 THEN n + Wrap ELSE IF n < Wrap THEN n ELSE n - Wrap
    BY Zenon, <2>1, RingTypes, SmallMod
  <2>3. n % Wrap = IF n < Wrap THEN n ELSE 0
    BY <2>1, <2>2, RingTypes
  <2> QED BY <2>3 DEF n, Successor
<1>3. CASE i + 1 < Wrap
  <2>1. Successor(i) + k = i + k + 1
    BY <1>1, <1>2, <1>3
  <2> QED BY <2>1
<1>4. CASE ~(i + 1 < Wrap)
  <2>1. i + k + 1 = k + Wrap /\ Successor(i) + k = k
    BY <1>1, <1>2, <1>4, RingTypes DEF Index
  <2> QED BY <2>1, WrapsAtSlotZero
<1> QED BY <1>3, <1>4

\* The places of the items are less than a lap apart from the next free slot.
LEMMA ItemsAreElsewhere ==
  ASSUME NEW i \in Index, NEW j \in Index, Distance(i, j) < Capacity,
         NEW k \in 1 .. Distance(i, j)
  PROVE  Slot(i + k - 1) # Slot(j)
<1> DEFINE d == Distance(i, j)
           m == i + k - 1
           n == i + d
<1>1. i \in Nat /\ d \in Nat
  BY DistanceOf, RingTypes DEF Index
<1>2. Slot(n) = Slot(j) /\ d < Capacity /\ k \in 1 .. d
  BY SlotReached
<1> HIDE DEF d
<1>3. m \in Nat /\ n \in Nat /\ m <= n /\ n < m + Capacity /\ m # n
  BY <1>1, <1>2, RingTypes
<1> HIDE DEF m, n
<1>4. Slot(m) # Slot(n)
  BY <1>3, SlotsDiffer
<1> QED BY <1>2, <1>4 DEF m

\* The slot that is about to be published has the item, and items are values.
DataInv ==
  /\ RingInv
  /\ buffer \in [0 .. Capacity - 1 -> Values \cup {Nothing}]
  /\ ppc \in {"refresh", "write", "publish"} => item \in Values
  /\ ppc = "publish" => buffer[Slot(head)] = item

\* Sequences with the same entries are the same.
LEMMA SameEntries ==
  ASSUME NEW S, NEW q \in Seq(S), NEW r \in Seq(S),
         Len(q) = Len(r), \A k \in 1 .. Len(q) : q[k] = r[k]
  PROVE  q = r
  OBVIOUS

\* Append and Tail, entry by entry.
LEMMA AppendIs ==
  ASSUME NEW S, NEW q \in Seq(S), NEW v \in S
  PROVE  Append(q, v) = [k \in 1 .. Len(q) + 1 |-> IF k <= Len(q) THEN q[k] ELSE v]
<1> DEFINE r == [k \in 1 .. Len(q) + 1 |-> IF k <= Len(q) THEN q[k] ELSE v]
<1>1. Len(q) \in Nat /\ \A k \in 1 .. Len(q) : q[k] \in S
  OBVIOUS
<1>2. r \in Seq(S) /\ Len(r) = Len(q) + 1
  BY <1>1
<1>3. \A k \in 1 .. Len(r) : r[k] = Append(q, v)[k]
  BY <1>1, <1>2
<1> HIDE DEF r
<1>4. r = Append(q, v)
  BY <1>2, <1>3, SameEntries
<1> QED BY <1>4 DEF r

LEMMA TailIs ==
  ASSUME NEW S, NEW q \in Seq(S), q # << >>
  PROVE  Tail(q) = [k \in 1 .. Len(q) - 1 |-> q[k + 1]]
<1> DEFINE r == [k \in 1 .. Len(q) - 1 |-> q[k + 1]]
<1>1. Len(q) \in Nat \ {0} /\ \A k \in 1 .. Len(q) : q[k] \in S
  OBVIOUS
<1>2. r \in Seq(S) /\ Len(r) = Len(q) - 1
  BY <1>1
<1>3. \A k \in 1 .. Len(r) : r[k] = Tail(q)[k]
  BY <1>1, <1>2
<1> HIDE DEF r
<1>4. r = Tail(q)
  BY <1>2, <1>3, SameEntries
<1> QED BY <1>4 DEF r

\* The items, counted from the first.
LEMMA CountType ==
  ASSUME RingInv
  PROVE  /\ First \in Index /\ Count \in Nat
         /\ Count = IF cpc = "release" THEN Distance(tail, head) - 1
                    ELSE Distance(tail, head)
         /\ cpc \in {"copy", "release"} => Distance(tail, head) > 0
         /\ Count <= Span
<1>1. tail \in Index /\ head \in Index /\ head_cache \in Index
  BY DEF RingInv
<1>2. /\ Distance(tail, head) = Distance(tail, head_cache) + Distance(head_cache, head)
      /\ Distance(tail, head) <= Span /\ Distance(tail, head) \in Nat
  BY SpanIsDistance, DistanceTypes DEF Span
<1>3. cpc \in {"copy", "release"} => Distance(tail, head) > 0
  <2> SUFFICES ASSUME cpc \in {"copy", "release"} PROVE Distance(tail, head) > 0
    OBVIOUS
  <2>1. tail # head_cache
    BY DEF RingInv
  <2>2. Distance(tail, head_cache) =
          IF tail <= head_cache THEN head_cache - tail ELSE head_cache - tail + Wrap
    BY <1>1, DistanceOf
  <2>3. Distance(tail, head_cache) > 0
    BY <1>1, <2>1, <2>2, RingTypes DEF Index
  <2> QED BY <1>2, <2>3, DistanceTypes
<1>4. First \in Index /\ Count \in Nat
  <2>1. First \in Index
    BY <1>1, SuccessorOf DEF First
  <2> QED BY <1>1, <2>1, DistanceOf, RingTypes DEF Count, Index
<1>5. cpc = "release" => tail # head
  <2>1. Distance(head, head) = 0
    BY <1>1, DistanceOf, RingTypes DEF Index
  <2> QED BY <1>3, <2>1
<1>6. Count = IF cpc = "release" THEN Distance(tail, head) - 1 ELSE Distance(tail, head)
  BY <1>1, <1>5, SuccessorOf DEF First, Count
<1>7. Count <= Span
  BY <1>2, <1>6, DistanceTypes
<1> QED BY <1>3, <1>4, <1>6, <1>7

LEMMA ContentsType ==
  ASSUME DataInv
  PROVE  /\ Contents \in Seq(Values \cup {Nothing}) /\ Len(Contents) = Count
         /\ \A k \in 1 .. Count : Contents[k] = buffer[Slot(First + k - 1)]
<1>1. Contents = [k \in 1 .. Count |-> buffer[Slot(First + k - 1)]]
  BY DEF Contents, Count, First
<1>2. Count \in Nat /\ First \in Nat
  BY CountType, RingTypes DEF DataInv, Index
<1>3. \A k \in 1 .. Count : buffer[Slot(First + k - 1)] \in Values \cup {Nothing}
  <2> TAKE k \in 1 .. Count
  <2> DEFINE n == First + k - 1
  <2>1. n \in Nat
    BY <1>2
  <2> HIDE DEF n
  <2>2. Slot(n) \in 0 .. Capacity - 1
    BY <2>1, LapsAndSlot
  <2> QED BY <2>2 DEF n, DataInv
<1> QED BY <1>1, <1>2, <1>3

\* A step that leaves the indices and the slots of the items alone, and
\* neither begins nor ends a copy, leaves the queue as it is.
LEMMA ContentsKept ==
  ASSUME First' = First, head' = head, buffer' = buffer
  PROVE  Contents' = Contents
  BY DEF Contents, First

\* Writing the next free slot changes no item.
LEMMA WriteSlotKeepsContents ==
  ASSUME DataInv, WriteSlot
  PROVE  Contents' = Contents
<1>1. /\ ppc = "write" /\ buffer' = [buffer EXCEPT ![Slot(head)] = item]
      /\ head' = head /\ tail' = tail /\ cpc' = cpc
  BY DEF WriteSlot, consumerVars
<1>2. /\ First \in Index /\ head \in Index /\ Count < Capacity /\ Count \in Nat
      /\ Span < Capacity
  <2>1. RingInv /\ Span < Capacity /\ head \in Index
    BY <1>1 DEF DataInv, RingInv
  <2> QED BY <2>1, CountType, DistanceTypes, RingTypes
<1>3. First' = First /\ Count' = Count
  BY <1>1 DEF First, Count
<1>4. ASSUME NEW k \in 1 .. Count
      PROVE  buffer'[Slot(First + k - 1)] = buffer[Slot(First + k - 1)]
  <2> DEFINE n == First + k - 1
  <2>1. n \in Nat
    BY <1>2, RingTypes DEF Index
  <2>2. Slot(n) # Slot(head)
    BY <1>2, ItemsAreElsewhere DEF Count
  <2> HIDE DEF n
  <2>3. Slot(n) \in 0 .. Capacity - 1
    BY <2>1, LapsAndSlot
  <2> QED BY <1>1, <2>2, <2>3 DEF n, DataInv
<1> QED BY <1>3, <1>4 DEF Contents, First, Count

\* Storing head appends the item.
LEMMA PublishEnqueues ==
  ASSUME DataInv, PublishHead
  PROVE  Fifo!Enqueue(item) /\ item \in Values
<1>1. /\ ppc = "publish" /\ buffer' = buffer /\ head' = Successor(head)
      /\ tail' = tail /\ cpc' = cpc /\ out' = out
  BY DEF PublishHead, consumerVars
<1>2. /\ item \in Values /\ buffer[Slot(head)] = item
      /\ First \in Index /\ head \in Index /\ Count \in Nat /\ Span < Capacity
      /\ Count < Capacity
  <2>1. RingInv /\ Span < Capacity /\ head \in Index
    BY <1>1 DEF DataInv, RingInv
  <2>2. item \in Values /\ buffer[Slot(head)] = item
    BY <1>1 DEF DataInv
  <2> QED BY <2>1, <2>2, CountType, DistanceTypes, RingTypes
<1>3. First' = First /\ Count' = Count + 1
  <2>1. Distance(First, Successor(head)) = Distance(First, head) + 1
    BY <1>2, SuccessorOf, RingTypes DEF Count
  <2> QED BY <1>1, <2>1 DEF First, Count
<1>4. buffer[Slot(First + Count)] = item
  BY <1>2, SlotReached DEF Count
<1>5. Contents' = [k \in 1 .. Count + 1 |-> buffer[Slot(First + k - 1)]]
  BY <1>1, <1>3 DEF Contents, First, Count
<1>6. Contents' = Append(Contents, item)
  <2>1. /\ Contents \in Seq(Values \cup {Nothing}) /\ Len(Contents) = Count
        /\ \A k \in 1 .. Count : Contents[k] = buffer[Slot(First + k - 1)]
    BY ContentsType
  <2>2. First + (Count + 1) - 1 = First + Count
    BY <1>2, RingTypes DEF Index
  <2>3. \A k \in 1 .. Count + 1 : Contents'[k] = IF k <= Count THEN Contents[k] ELSE item
    <3> TAKE k \in 1 .. Count + 1
    <3>1. CASE k <= Count
      BY <1>2, <1>5, <2>1, <3>1
    <3>2. CASE k = Count + 1
      BY <1>2, <1>4, <1>5, <2>2, <3>2
    <3> QED BY <1>2, <3>1, <3>2
  <2>4. Contents' = [k \in 1 .. Count + 1 |-> IF k <= Count THEN Contents[k] ELSE item]
    BY <1>5, <2>3
  <2>5. /\ Contents \in Seq(Values \cup {Nothing}) /\ item \in Values \cup {Nothing}
        /\ Len(Contents) = Count
    BY <1>2, <2>1
  <2>6. Append(Contents, item) =
          [k \in 1 .. Len(Contents) + 1 |-> IF k <= Len(Contents) THEN Contents[k] ELSE item]
    BY <2>5, AppendIs
  <2> QED BY <2>4, <2>5, <2>6, Zenon
<1>7. Len(Contents) < Capacity
  BY <1>2, ContentsType
<1> QED BY <1>1, <1>2, <1>6, <1>7 DEF Fifo!Enqueue

\* Copying an item takes it from the queue.
LEMMA CopyDequeues ==
  ASSUME DataInv, CopyOut
  PROVE  Fifo!Dequeue
<1>1. /\ cpc = "copy" /\ out' = buffer[Slot(tail)] /\ cpc' = "release"
      /\ buffer' = buffer /\ head' = head /\ tail' = tail
  BY DEF CopyOut, producerVars
<1>2. /\ tail \in Index /\ head \in Index /\ First = tail /\ Count \in Nat /\ Count > 0
      /\ tail # head
  <2>1. Count \in Nat /\ Count > 0 /\ First = tail
    BY <1>1, CountType DEF DataInv, First
  <2>2. tail \in Index /\ head \in Index
    BY DEF DataInv, RingInv
  <2>3. Distance(head, head) = 0
    BY <2>2, DistanceOf, RingTypes DEF Index
  <2> QED BY <2>1, <2>2, <2>3 DEF Count
<1>3. First' = Successor(tail) /\ Count' = Count - 1
  BY <1>1, <1>2, SuccessorOf DEF First, Count
<1>4. /\ Contents \in Seq(Values \cup {Nothing}) /\ Len(Contents) = Count
      /\ \A k \in 1 .. Count : Contents[k] = buffer[Slot(tail + k - 1)]
  BY <1>2, ContentsType
<1>5. out' = Head(Contents) /\ Contents # << >>
  <2>1. tail + 1 - 1 = tail
    BY <1>2, RingTypes DEF Index
  <2> QED BY <1>1, <1>2, <1>4, <2>1
<1>6. Contents' = [k \in 1 .. Count - 1 |-> buffer[Slot(Successor(tail) + k - 1)]]
  BY <1>1, <1>3 DEF Contents, First, Count
<1>7. ASSUME NEW k \in 1 .. Count - 1
      PROVE  buffer[Slot(Successor(tail) + k - 1)] = Contents[k + 1]
  <2>1. /\ k - 1 \in Nat /\ k + 1 \in 1 .. Count /\ tail \in Int
        /\ Successor(tail) + k - 1 = Successor(tail) + (k - 1)
        /\ tail + (k - 1) + 1 = tail + (k + 1) - 1
    BY <1>2, SuccessorOf, RingTypes DEF Index
  <2>2. Slot(Successor(tail) + (k - 1)) = Slot(tail + (k - 1) + 1)
    BY <1>2, <2>1, SlotAfterSuccessor
  <2> QED BY <1>4, <2>1, <2>2
<1>8. Contents' = Tail(Contents)
  <2>1. Tail(Contents) = [k \in 1 .. Count - 1 |-> Contents[k + 1]]
    BY <1>4, <1>5, TailIs
  <2> QED BY <1>6, <1>7, <2>1
<1> QED BY <1>5, <1>8 DEF Fifo!Dequeue

\* Storing tail changes nothing: the item is gone since it was copied.
LEMMA ReleaseKeepsContents ==
  ASSUME ReleaseTail
  PROVE  Contents' = Contents /\ out' = out
<1>1. First' = First /\ head' = head /\ buffer' = buffer /\ out' = out
  BY DEF ReleaseTail, First, producerVars
<1> QED BY <1>1, ContentsKept

\* Every step is one of the queue or leaves it as it is.
LEMMA StepRefines ==
  ASSUME DataInv, [Next]_vars
  PROVE  [Fifo!Next]_<<Contents, out>>
<1>1. ASSUME (\E v \in Values : PushCall(v)) \/ RefreshTail \/ PopCall \/ RefreshHead
             \/ UNCHANGED vars
      PROVE  UNCHANGED <<Contents, out>>
  <2>1. First' = First /\ head' = head /\ buffer' = buffer /\ out' = out
    BY <1>1 DEF PushCall, RefreshTail, PopCall, RefreshHead, First, vars, producerVars,
       consumerVars
  <2> QED BY <2>1, ContentsKept
<1>2. CASE WriteSlot
  BY <1>2, WriteSlotKeepsContents DEF WriteSlot, consumerVars
<1>3. CASE PublishHead
  BY <1>3, PublishEnqueues DEF Fifo!Next
<1>4. CASE CopyOut
  BY <1>4, CopyDequeues DEF Fifo!Next
<1>5. CASE ReleaseTail
  BY <1>5, ReleaseKeepsContents
<1> QED BY <1>1, <1>2, <1>3, <1>4, <1>5 DEF Next, Producer, Consumer

\* The slot that is to be published is still the producer's own.
LEMMA DataKept ==
  ASSUME DataInv, RingInv', [Next]_vars
  PROVE  DataInv'
<1>1. /\ buffer \in [0 .. Capacity - 1 -> Values \cup {Nothing}]
      /\ ppc \in {"refresh", "write", "publish"} => item \in Values
      /\ ppc = "publish" => buffer[Slot(head)] = item
      /\ Slot(head) \in 0 .. Capacity - 1
  <2>1. head \in Nat
    BY RingTypes DEF DataInv, RingInv, Index
  <2>2. Slot(head) \in 0 .. Capacity - 1
    BY <2>1, LapsAndSlot
  <2> QED BY <2>2 DEF DataInv
<1>2. ASSUME NEW v \in Values, PushCall(v) PROVE DataInv'
  BY <1>1, <1>2 DEF DataInv, PushCall, consumerVars
<1>3. CASE RefreshTail
  BY <1>1, <1>3 DEF DataInv, RefreshTail, consumerVars
<1>4. CASE WriteSlot
  BY <1>1, <1>4 DEF DataInv, WriteSlot, consumerVars
<1>5. CASE PublishHead
  BY <1>1, <1>5 DEF DataInv, PublishHead, consumerVars
<1>6. CASE Consumer \/ UNCHANGED vars
  <2>1. buffer' = buffer /\ head' = head /\ ppc' = ppc /\ item' = item
    BY <1>6 DEF Consumer, PopCall, RefreshHead, CopyOut, ReleaseTail, producerVars, vars
  <2> QED BY <1>1, <2>1 DEF DataInv
<1> QED BY <1>2, <1>3, <1>4, <1>5, <1>6 DEF Next, Producer

\* Seen from outside the ring is an atomic bounded queue: what try_push puts
\* in, try_pop takes out, once and in order, for every capacity and wherever
\* the indices wrap around.
THEOREM RingImplementsFifo == Spec => ImplementsFifo
<1>1. Init => DataInv
  <2> SUFFICES ASSUME Init PROVE DataInv
    OBVIOUS
  <2>1. RingInv
    BY RingStarts
  <2> QED BY <2>1 DEF Init, DataInv
<1>2. Init => Fifo!Init
  <2> SUFFICES ASSUME Init PROVE Fifo!Init
    OBVIOUS
  <2>1. DataInv
    BY <1>1
  <2>2. Count = 0
    <3>1. 0 \in Index
      BY RingTypes DEF Index
    <3>2. Distance(0, 0) = 0
      BY <3>1, DistanceOf
    <3> QED BY <3>2 DEF Init, Count, First
  <2>3. Contents = << >>
    BY <2>1, <2>2, ContentsType
  <2> QED BY <2>3 DEF Init, Fifo!Init
<1>3. DataInv /\ RingInv' /\ [Next]_vars => DataInv'
  BY DataKept
<1>4. DataInv /\ [Next]_vars => [Fifo!Next]_<<Contents, out>>
  BY StepRefines
<1> QED BY <1>1, <1>2, <1>3, <1>4, RingInvariant, PTL DEF Spec, ImplementsFifo, Fifo!Spec

-----------------------------------------------------------------------------
(* The sequencer.                                                         *)

\* How many attempts ago queue p had its turn, if the rotation has always
\* been what it is: the queue that comes next had it longest ago.
Behind(p) == IF p < next_queue THEN next_queue - p
             ELSE next_queue - p + NumProducers

Types ==
  /\ queues \in [Producers -> 0 .. QueueCapacity]
  /\ next_queue \in Producers
  /\ attempt \in 0 .. NumProducers
  /\ returned \in Producers \cup {Nowhere, Sweeping}
  /\ overtaken \in [Producers -> [Producers -> Nat]]

\* In the queues that the sweep under way has polled, and in all queues when
\* it found nothing, there is only what came after it began.
PolledAreEmpty ==
  \A p \in Producers :
    /\ queues[p] > 0
    /\ (returned = Sweeping /\ Behind(p) <= attempt) \/ returned = Nowhere
    => p \in arrived

\* Only a producer that had its turn later overtakes p, by one item, and
\* nobody overtakes a producer that does not wait.
TurnsPassed ==
  \A p, q \in Producers :
    /\ overtaken[p][q] <= IF Behind(q) < Behind(p) THEN 1 ELSE 0
    /\ queues[p] = 0 => overtaken[p][q] = 0

\* The inductive invariant.
FanInInv == Types /\ PolledAreEmpty /\ TurnsPassed

\* The last attempt was between one and NumProducers turns ago.
LEMMA BehindRange ==
  ASSUME Types
  PROVE  \A p \in Producers : Behind(p) \in 1 .. NumProducers
  BY FanInAssumption DEF Types, Behind, Producers

\* The rotation goes from the last queue back to the first.
LEMMA FollowingIs ==
  ASSUME NEW i \in Producers
  PROVE  /\ Following(i) = IF i = NumProducers - 1 THEN 0 ELSE i + 1
         /\ Following(i) \in Producers
<1>1. CASE i = NumProducers - 1
  <2>1. (i + 1) % NumProducers = 0
    BY <1>1, FanInAssumption DEF Producers
  <2> QED BY <1>1, <2>1, FanInAssumption DEF Following, Producers
<1>2. CASE i # NumProducers - 1
  <2>1. i + 1 \in 0 .. NumProducers - 1
    BY <1>2, FanInAssumption DEF Producers
  <2>2. (i + 1) % NumProducers = i + 1
    BY <2>1, FanInAssumption
  <2> QED BY <1>2, <2>1, <2>2 DEF Following, Producers
<1> QED BY <1>1, <1>2

\* An attempt is the latest turn of the queue it polls, and all other turns
\* are one attempt further back.
LEMMA AttemptTurns ==
  ASSUME Types, DrainAttempt
  PROVE  \A p \in Producers :
           Behind(p)' = IF p = next_queue THEN 1 ELSE Behind(p) + 1
<1>1. next_queue \in Producers /\ next_queue' = Following(next_queue)
  BY DEF Types, DrainAttempt
<1>2. next_queue' = IF next_queue = NumProducers - 1 THEN 0 ELSE next_queue + 1
  BY <1>1, FollowingIs
<1> QED BY <1>1, <1>2, FanInAssumption DEF Behind, Producers

\* The queue that comes next had its turn before all others.
LEMMA NextIsLast ==
  ASSUME Types
  PROVE  \A p \in Producers : ~(Behind(next_queue) < Behind(p))
<1>1. next_queue \in Producers /\ Behind(next_queue) = NumProducers
  BY FanInAssumption DEF Types, Behind, Producers
<1> QED BY <1>1, BehindRange, FanInAssumption

LEMMA FanInStarts == FanInInit => FanInInv
<1> SUFFICES ASSUME FanInInit PROVE FanInInv
  OBVIOUS
<1>1. Types
  BY FanInAssumption DEF FanInInit, Types, Producers
<1>2. PolledAreEmpty
  BY DEF FanInInit, PolledAreEmpty
<1>3. TurnsPassed
  BY <1>1, BehindRange DEF FanInInit, TurnsPassed
<1> QED BY <1>1, <1>2, <1>3 DEF FanInInv

\* A push is remembered as having come in the middle of the sweep.
LEMMA PushKeepsInv ==
  ASSUME FanInInv, NEW p \in Producers, push_from(p)
  PROVE  FanInInv'
<1>1. /\ queues[p] < QueueCapacity /\ queues' = [queues EXCEPT ![p] = queues[p] + 1]
      /\ arrived' = arrived \cup {p}
      /\ next_queue' = next_queue /\ attempt' = attempt /\ returned' = returned
      /\ overtaken' = overtaken
  BY DEF push_from
<1>2. Types'
  BY <1>1, FanInAssumption DEF FanInInv, Types
<1>3. \A q \in Producers : /\ Behind(q)' = Behind(q)
                           /\ q # p => queues'[q] = queues[q]
  BY <1>1 DEF Behind, FanInInv, Types
<1>4. queues'[p] > 0
  BY <1>1 DEF FanInInv, Types
<1>5. PolledAreEmpty'
  BY <1>1, <1>3 DEF FanInInv, PolledAreEmpty
<1>6. TurnsPassed'
  BY <1>1, <1>3, <1>4 DEF FanInInv, TurnsPassed
<1> QED BY <1>2, <1>5, <1>6 DEF FanInInv

\* A new sweep has polled nothing yet.
LEMMA CallKeepsInv ==
  ASSUME FanInInv, DrainCall
  PROVE  FanInInv'
<1>1. /\ returned' = Sweeping /\ attempt' = 0
      /\ queues' = queues /\ next_queue' = next_queue /\ overtaken' = overtaken
  BY DEF DrainCall
<1>2. Types'
  BY <1>1, FanInAssumption DEF FanInInv, Types
<1>3. \A p \in Producers : Behind(p)' \in 1 .. NumProducers /\ Behind(p)' = Behind(p)
  BY <1>1, BehindRange DEF Behind, FanInInv
<1>4. Sweeping # Nowhere
  BY FanInAssumption DEF Sweeping, Nowhere
<1>5. PolledAreEmpty'
  BY <1>1, <1>3, <1>4, FanInAssumption DEF PolledAreEmpty
<1>6. TurnsPassed'
  BY <1>1, <1>3 DEF FanInInv, TurnsPassed
<1> QED BY <1>2, <1>5, <1>6 DEF FanInInv

\* An attempt empties its queue by one, or has found it empty.
LEMMA AttemptKeepsInv ==
  ASSUME FanInInv, DrainAttempt
  PROVE  FanInInv'
<1> DEFINE idx == next_queue
<1>1. /\ returned = Sweeping /\ attempt < NumProducers /\ attempt' = attempt + 1
      /\ next_queue' = Following(idx) /\ arrived' = arrived
  BY DEF DrainAttempt, SweepLength
<1>2. idx \in Producers /\ Following(idx) \in Producers /\ Types
  BY FollowingIs DEF FanInInv, Types
<1>3. \A p \in Producers : /\ Behind(p)' = IF p = idx THEN 1 ELSE Behind(p) + 1
                           /\ Behind(p) \in 1 .. NumProducers
  BY <1>2, AttemptTurns, BehindRange
<1>4. idx # Nowhere /\ idx # Sweeping /\ Sweeping # Nowhere
  BY <1>2, FanInAssumption DEF Sweeping, Nowhere, Producers
<1>5. CASE queues[idx] > 0
  <2>1. /\ queues' = [queues EXCEPT ![idx] = queues[idx] - 1] /\ returned' = idx
        /\ overtaken' = [p \in Producers |->
                           IF p = idx \/ queues[p] = 0 THEN [q \in Producers |-> 0]
                           ELSE [overtaken[p] EXCEPT ![idx] = overtaken[p][idx] + 1]]
    BY <1>5 DEF DrainAttempt
  <2>2. Types'
    BY <1>1, <1>2, <1>5, <2>1, FanInAssumption DEF Types
  <2>3. PolledAreEmpty'
    BY <1>4, <2>1 DEF PolledAreEmpty
  <2>4. ASSUME NEW p \in Producers, NEW q \in Producers
        PROVE  /\ overtaken'[p][q] <= IF Behind(q)' < Behind(p)' THEN 1 ELSE 0
               /\ queues'[p] = 0 => overtaken'[p][q] = 0
    <3>1. CASE p = idx \/ queues[p] = 0
      <4>1. overtaken'[p][q] = 0
        BY <2>1, <3>1
      <4> QED BY <4>1
    <3>2. CASE p # idx /\ queues[p] # 0 /\ q = idx
      <4>1. overtaken'[p][idx] = overtaken[p][idx] + 1
        BY <1>2, <2>1, <3>2 DEF Types
      <4>2. overtaken[p][idx] <= 0 /\ overtaken[p][idx] \in Nat
        BY <1>2, NextIsLast DEF FanInInv, TurnsPassed, Types
      <4>3. Behind(q)' < Behind(p)'
        <5>1. Behind(q)' = 1 /\ Behind(p)' = Behind(p) + 1 /\ Behind(p) \in 1 .. NumProducers
          BY <1>3, <3>2
        <5> QED BY <5>1, FanInAssumption
      <4>4. queues'[p] # 0
        BY <1>2, <2>1, <3>2 DEF Types
      <4>5. overtaken'[p][q] = 1
        BY <3>2, <4>1, <4>2
      <4> QED BY <4>3, <4>4, <4>5
    <3>3. CASE p # idx /\ queues[p] # 0 /\ q # idx
      <4>1. overtaken'[p][q] = overtaken[p][q] /\ queues'[p] = queues[p]
        BY <1>2, <2>1, <3>3 DEF Types
      <4>2. Behind(q)' < Behind(p)' <=> Behind(q) < Behind(p)
        BY <1>3, <3>3
      <4> QED BY <3>3, <4>1, <4>2 DEF FanInInv, TurnsPassed
    <3> QED BY <3>1, <3>2, <3>3
  <2> QED BY <2>2, <2>3, <2>4 DEF FanInInv, TurnsPassed
<1>6. CASE ~(queues[idx] > 0)
  <2>1. queues' = queues /\ returned' = returned /\ overtaken' = overtaken
    BY <1>6 DEF DrainAttempt
  <2>2. queues[idx] = 0
    BY <1>2, <1>6 DEF Types
  <2>3. Types'
    BY <1>1, <1>2, <2>1, FanInAssumption DEF Types
  <2>4. ASSUME NEW p \in Producers, queues'[p] > 0, Behind(p)' <= attempt'
        PROVE  p \in arrived'
    <3>1. p # idx
      BY <2>1, <2>2, <2>4
    <3>2. Behind(p) <= attempt
      BY <1>1, <1>2, <1>3, <2>4, <3>1 DEF Types
    <3> QED BY <1>1, <2>1, <2>4, <3>2 DEF FanInInv, PolledAreEmpty
  <2>5. PolledAreEmpty'
    BY <1>1, <1>4, <2>1, <2>4 DEF PolledAreEmpty
  <2>6. ASSUME NEW p \in Producers, NEW q \in Producers
        PROVE  overtaken[p][q] <= IF Behind(q)' < Behind(p)' THEN 1 ELSE 0
    <3>1. CASE p = idx
      <4>1. overtaken[p][q] = 0
        BY <2>2, <3>1 DEF FanInInv, TurnsPassed
      <4> QED BY <4>1
    <3>2. CASE q = idx
      <4>1. overtaken[p][q] <= 0
        BY <1>2, <3>2, NextIsLast DEF FanInInv, TurnsPassed
      <4> QED BY <1>2, <4>1 DEF Types
    <3>3. CASE p # idx /\ q # idx
      <4>1. Behind(q)' < Behind(p)' <=> Behind(q) < Behind(p)
        BY <1>3, <3>3
      <4> QED BY <4>1 DEF FanInInv, TurnsPassed
    <3> QED BY <3>1, <3>2, <3>3
  <2>7. TurnsPassed'
    BY <2>1, <2>6 DEF FanInInv, TurnsPassed
  <2> QED BY <2>3, <2>5, <2>7 DEF FanInInv
<1> QED BY <1>5, <1>6

\* After as many attempts as there are queues, each was polled.
LEMMA NothingKeepsInv ==
  ASSUME FanInInv, DrainNothing
  PROVE  FanInInv'
<1>1. /\ returned = Sweeping /\ attempt = NumProducers /\ returned' = Nowhere
      /\ queues' = queues /\ next_queue' = next_queue /\ attempt' = attempt
      /\ arrived' = arrived /\ overtaken' = overtaken
  BY DEF DrainNothing, SweepLength
<1>2. Types'
  BY <1>1 DEF FanInInv, Types
<1>3. \A p \in Producers : /\ Behind(p)' = Behind(p)
                           /\ Behind(p) <= attempt
  BY <1>1, BehindRange, FanInAssumption DEF Behind, FanInInv
<1>4. PolledAreEmpty'
  BY <1>1, <1>3 DEF FanInInv, PolledAreEmpty
<1>5. TurnsPassed'
  BY <1>1, <1>3 DEF FanInInv, TurnsPassed
<1> QED BY <1>2, <1>4, <1>5 DEF FanInInv

LEMMA FanInInvariant == FanInSpec => []FanInInv
<1>1. FanInInv /\ [FanInNext]_fanInVars => FanInInv'
  <2> SUFFICES ASSUME FanInInv, [FanInNext]_fanInVars PROVE FanInInv'
    OBVIOUS
  <2>1. CASE UNCHANGED fanInVars
    BY <2>1 DEF fanInVars, FanInInv, Types, PolledAreEmpty, TurnsPassed, Behind
  <2> QED BY <2>1, PushKeepsInv, CallKeepsInv, AttemptKeepsInv, NothingKeepsInv
          DEF FanInNext, Sequencer
<1> QED BY <1>1, FanInStarts, PTL DEF FanInSpec

\* For every number of producers: when try_drain_one returns false, nothing
\* waits that was there when it began.
THEOREM SweepMissesNothing == FanInSpec => []NothingMissed
<1>1. FanInInv => NothingMissed
  BY DEF FanInInv, PolledAreEmpty, NothingMissed
<1> QED BY <1>1, FanInInvariant, PTL

\* For every number of producers: while an item is first in its queue, at
\* most one item of each other producer is drained.
THEOREM OvertakingIsBounded == FanInSpec => []BoundedOvertaking
<1>1. FanInInv => BoundedOvertaking
  <2> SUFFICES ASSUME FanInInv, NEW p \in Producers, NEW q \in Producers
               PROVE  overtaken[p][q] <= 1
    BY DEF BoundedOvertaking
  <2>1. /\ overtaken[p][q] <= IF Behind(q) < Behind(p) THEN 1 ELSE 0
        /\ overtaken[p][q] \in Nat
    BY DEF FanInInv, TurnsPassed, Types
  <2> QED BY <2>1
<1> QED BY <1>1, FanInInvariant, PTL

-----------------------------------------------------------------------------
(* The ring of many producers: cells and positions.                        *)

LEMMA NumCellsType == NumCells \in Nat \ {0} /\ NumCells \in Int /\ NumCells > 1
  BY CellsAssumption

\* Multiples of the capacity are at least one lap apart.
LEMMA CellLapsApart ==
  ASSUME NEW x \in Int, NEW y \in Int, x < y
  PROVE  NumCells * y >= NumCells * x + NumCells
<1>1. NumCells \in Nat
  BY NumCellsType
<1>2. NumCells * (y - x - 1) >= 0
  BY <1>1
<1>3. NumCells * (y - x - 1) = NumCells * y - NumCells * x - NumCells
  BY <1>1
<1> QED BY <1>1, <1>2, <1>3

\* A position is a number of laps and a cell.
LEMMA LapsAndCell ==
  ASSUME NEW n \in Nat
  PROVE  /\ Cell(n) \in 0 .. NumCells - 1 /\ n \div NumCells \in Int
         /\ n = NumCells * (n \div NumCells) + Cell(n)
         /\ NumCells * (n \div NumCells) \in Int
  BY NumCellsType DEF Cell

\* Positions less than a lap apart have different cells.
LEMMA CellsDiffer ==
  ASSUME NEW m \in Nat, NEW n \in Nat, m <= n, n < m + NumCells, Cell(m) = Cell(n)
  PROVE  m = n
<1> DEFINE x == m \div NumCells
           y == n \div NumCells
           u == NumCells * x
           v == NumCells * y
<1>1. /\ x \in Int /\ y \in Int /\ u \in Int /\ v \in Int
      /\ m = u + Cell(m) /\ n = v + Cell(m) /\ Cell(m) \in Int
  BY LapsAndCell
<1>2. /\ x < y => v >= u + NumCells
      /\ y < x => u >= v + NumCells
  <2> HIDE DEF x, y
  <2> QED BY <1>1, CellLapsApart
<1>3. x = y => u = v
  OBVIOUS
<1> HIDE DEF x, y, u, v
<1> QED BY <1>1, <1>2, <1>3, NumCellsType

\* A lap later the cell is the same.
LEMMA NextLap ==
  ASSUME NEW n \in Nat
  PROVE  Cell(n + NumCells) = Cell(n)
<1> DEFINE m == n + NumCells
           x == n \div NumCells
           y == m \div NumCells
           u == NumCells * x
           v == NumCells * y
           w == NumCells * (x + 1)
           r == Cell(n)
           s == Cell(m)
<1>1. m \in Nat
  BY NumCellsType
<1>2. /\ x \in Int /\ y \in Int /\ u \in Int /\ v \in Int /\ r \in Int /\ s \in Int
      /\ n = u + r /\ m = v + s
      /\ 0 <= r /\ r < NumCells /\ 0 <= s /\ s < NumCells
  <2>1. x \in Int /\ u \in Int /\ n = u + r /\ r \in 0 .. NumCells - 1
    BY LapsAndCell
  <2>2. y \in Int /\ v \in Int /\ m = v + s /\ s \in 0 .. NumCells - 1
    <3> HIDE DEF m
    <3> QED BY <1>1, LapsAndCell
  <2> HIDE DEF x, y, u, v, r, s
  <2> QED BY <2>1, <2>2, NumCellsType
<1>3. w = u + NumCells /\ w \in Int
  BY <1>2, NumCellsType
<1>4. /\ x + 1 < y => v >= w + NumCells
      /\ y < x + 1 => w >= v + NumCells
      /\ y = x + 1 => v = w
  <2>1. x + 1 \in Int
    BY <1>2
  <2> HIDE DEF x, y
  <2> QED BY <1>2, <2>1, CellLapsApart
<1>5. u + r + NumCells = v + s
  BY <1>2
<1> HIDE DEF x, y, u, v, w, r, s, m
<1> QED BY <1>2, <1>3, <1>4, <1>5, NumCellsType DEF r, s, m

-----------------------------------------------------------------------------
(* The inductive invariant of the ring.                                    *)

Sequence(n) == cells[Cell(n)].sequence

CellTypes ==
  /\ cells \in [0 .. NumCells - 1 -> [sequence : Int, data : Items \cup {NoData}]]
  /\ enqueue_pos \in Nat /\ dequeue_pos \in Nat
  /\ pc \in [Pushers -> {"idle", "check", "claim", "resample", "write", "publish"}]
  /\ pos \in [Pushers -> Nat]
  /\ pushing \in [Pushers -> Items \cup {NoData}]
  /\ pop_pc \in {"idle", "copy", "free"}

OwnsCell(p) == pc[p] \in {"write", "publish"}

\* The claimed positions span at most one lap.
OneLap == dequeue_pos <= enqueue_pos /\ enqueue_pos <= dequeue_pos + NumCells

\* In the lap that starts at dequeue_pos a cell is free or claimed (its
\* sequence is its position), or published (one more).
CellsInStep ==
  \A n \in dequeue_pos .. dequeue_pos + NumCells - 1 :
    \/ Sequence(n) = n
    \/ n < enqueue_pos /\ Sequence(n) = n + 1

\* A producer that claimed a position is alone with it until it publishes.
ClaimsExclusive ==
  \A p \in Pushers : OwnsCell(p) =>
    /\ dequeue_pos <= pos[p] /\ pos[p] < enqueue_pos
    /\ Sequence(pos[p]) = pos[p]
    /\ \A q \in Pushers : OwnsCell(q) /\ pos[q] = pos[p] => q = p

\* A producer has seen no position beyond the next one, and when it is about
\* to claim that one it found its cell free.
ClaimsFree ==
  \A p \in Pushers :
    /\ pos[p] <= enqueue_pos
    /\ pc[p] = "claim" /\ pos[p] = enqueue_pos => enqueue_pos < dequeue_pos + NumCells

\* The consumer reads a published cell.
ReadsPublished == pop_pc # "idle" => Sequence(dequeue_pos) = dequeue_pos + 1

CellsInv ==
  /\ CellTypes
  /\ OneLap
  /\ CellsInStep
  /\ ClaimsExclusive
  /\ ClaimsFree
  /\ ReadsPublished

\* The invariant implies what it is for.
LEMMA CellsExcludeRaces == CellsInv => NoCellRace
<1> SUFFICES ASSUME CellsInv, NEW p \in Pushers, pc[p] = "write"
             PROVE  /\ \A q \in Pushers \ {p} :
                         pc[q] = "write" => Cell(pos[q]) # Cell(pos[p])
                    /\ pop_pc = "copy" => Cell(dequeue_pos) # Cell(pos[p])
  BY DEF NoCellRace
<1>1. /\ pos[p] \in Nat /\ dequeue_pos \in Nat /\ enqueue_pos \in Nat
      /\ OwnsCell(p) /\ dequeue_pos <= pos[p] /\ pos[p] < enqueue_pos
      /\ Sequence(pos[p]) = pos[p] /\ OneLap
  BY DEF CellsInv, CellTypes, ClaimsExclusive, OwnsCell
<1>2. ASSUME NEW q \in Pushers \ {p}, pc[q] = "write", Cell(pos[q]) = Cell(pos[p])
      PROVE  FALSE
  <2> DEFINE a == pos[p]
             b == pos[q]
  <2>1. /\ b \in Nat /\ dequeue_pos <= b /\ b < enqueue_pos /\ a # b
    BY <1>1, <1>2 DEF CellsInv, CellTypes, ClaimsExclusive, OwnsCell
  <2>2. a < b + NumCells /\ b < a + NumCells /\ a \in Nat /\ Cell(a) = Cell(b)
    BY <1>1, <1>2, <2>1, NumCellsType DEF OneLap
  <2> HIDE DEF a, b
  <2> QED BY <2>1, <2>2, CellsDiffer
<1>3. ASSUME pop_pc = "copy", Cell(dequeue_pos) = Cell(pos[p]) PROVE FALSE
  <2>1. pos[p] < dequeue_pos + NumCells
    BY <1>1, NumCellsType DEF OneLap
  <2>2. Sequence(dequeue_pos) = dequeue_pos + 1
    BY <1>3 DEF CellsInv, ReadsPublished
  <2> QED BY <1>1, <1>3, <2>1, <2>2, CellsDiffer DEF Sequence
<1> QED BY <1>2, <1>3

-----------------------------------------------------------------------------
(* The steps of a producer.                                                *)

\* A step in which p, which holds no position before or after it, only moves
\* or loads enqueue_pos keeps the invariant, unless it is about to claim.
LEMMA LookingAround ==
  ASSUME CellsInv, NEW p \in Pushers, ~OwnsCell(p),
         NEW l \in {"idle", "check", "resample"},
         pc' = [pc EXCEPT ![p] = l],
         NEW n \in Nat, n <= enqueue_pos, pos' = [pos EXCEPT ![p] = n],
         pushing' \in [Pushers -> Items \cup {NoData}],
         UNCHANGED <<cells, enqueue_pos, dequeue_pos, pop_pc>>
  PROVE  CellsInv'
<1>1. CellTypes'
  BY Zenon DEF CellsInv, CellTypes
<1>2. \A q \in Pushers : /\ OwnsCell(q)' => OwnsCell(q) /\ pos'[q] = pos[q]
                         /\ pc'[q] = "claim" => pc[q] = "claim" /\ pos'[q] = pos[q]
  BY DEF CellsInv, CellTypes, OwnsCell
<1>3. OneLap' /\ CellsInStep' /\ ReadsPublished'
  BY DEF CellsInv, OneLap, CellsInStep, ReadsPublished, Sequence
<1>4. ClaimsExclusive'
  BY <1>2 DEF CellsInv, ClaimsExclusive, Sequence
<1>5. ClaimsFree'
  BY <1>2 DEF CellsInv, ClaimsFree, CellTypes
<1> QED BY <1>1, <1>3, <1>4, <1>5 DEF CellsInv

\* What a load of enqueue_pos leaves in pos.
LEMMA LoadsPosition ==
  ASSUME CellTypes, NEW p \in Pushers, Loads(p)
  PROVE  \E n \in Nat : n <= enqueue_pos /\ pos' = [pos EXCEPT ![p] = n]
  BY DEF CellTypes, Loads

LEMMA LoadPositionKeepsInv ==
  ASSUME CellsInv, NEW p \in Pushers, NEW v \in Items, LoadPosition(p, v)
  PROVE  CellsInv'
<1>1. ~OwnsCell(p)
  BY DEF LoadPosition, OwnsCell
<1>2. PICK n \in Nat : n <= enqueue_pos /\ pos' = [pos EXCEPT ![p] = n]
  BY LoadsPosition DEF LoadPosition, CellsInv
<1>3. pushing' \in [Pushers -> Items \cup {NoData}]
  BY DEF LoadPosition, CellsInv, CellTypes
<1> QED BY Zenon, <1>1, <1>2, <1>3, LookingAround DEF LoadPosition, popVars

LEMMA ResampleKeepsInv ==
  ASSUME CellsInv, NEW p \in Pushers, Resample(p) \/ LoseRace(p)
  PROVE  CellsInv'
<1>1. ~OwnsCell(p)
  BY DEF Resample, LoseRace, OwnsCell
<1>2. PICK n \in Nat : n <= enqueue_pos /\ pos' = [pos EXCEPT ![p] = n]
  BY LoadsPosition DEF Resample, LoseRace, CellsInv
<1>3. pushing' \in [Pushers -> Items \cup {NoData}]
  BY DEF Resample, LoseRace, CellsInv, CellTypes
<1> QED BY Zenon, <1>1, <1>2, <1>3, LookingAround DEF Resample, LoseRace, popVars

\* A producer goes on to claim the next position only when the ring is not
\* full: a full ring has the cell one lap behind.
LEMMA LoadSequenceKeepsInv ==
  ASSUME CellsInv, NEW p \in Pushers, LoadSequence(p)
  PROVE  CellsInv'
<1> DEFINE diff == cells[Cell(pos[p])].sequence - pos[p]
<1>1. /\ pc[p] = "check" /\ ~OwnsCell(p)
      /\ pc' = [pc EXCEPT ![p] = AfterLoad(diff)]
      /\ cells' = cells /\ enqueue_pos' = enqueue_pos /\ pos' = pos /\ pushing' = pushing
      /\ dequeue_pos' = dequeue_pos /\ pop_pc' = pop_pc
  BY DEF LoadSequence, OwnsCell, popVars
<1>2. pos[p] \in Nat /\ pos[p] <= enqueue_pos /\ pos' = [pos EXCEPT ![p] = pos[p]]
      /\ pushing' \in [Pushers -> Items \cup {NoData}]
  BY <1>1 DEF CellsInv, CellTypes, ClaimsFree
<1>3. CASE diff # 0
  <2>1. AfterLoad(diff) \in {"idle", "check", "resample"}
    BY <1>3 DEF AfterLoad
  <2> HIDE DEF diff
  <2> QED BY Zenon, <1>1, <1>2, <2>1, LookingAround
<1>4. CASE diff = 0
  <2>1. pc' = [pc EXCEPT ![p] = "claim"]
    BY <1>1, <1>4 DEF AfterLoad
  <2> HIDE DEF diff
  <2>2. \A q \in Pushers : OwnsCell(q)' => OwnsCell(q)
    BY <2>1 DEF CellsInv, CellTypes, OwnsCell
  <2>3. CellTypes'
    BY <1>1, <2>1 DEF CellsInv, CellTypes
  <2>4. OneLap' /\ CellsInStep' /\ ReadsPublished'
    BY <1>1 DEF CellsInv, OneLap, CellsInStep, ReadsPublished, Sequence
  <2>5. ClaimsExclusive'
    BY <1>1, <2>2 DEF CellsInv, ClaimsExclusive, Sequence
  <2>6. pos[p] = enqueue_pos => enqueue_pos < dequeue_pos + NumCells
    <3> SUFFICES ASSUME pos[p] = enqueue_pos, enqueue_pos = dequeue_pos + NumCells
                 PROVE  FALSE
      BY NumCellsType DEF CellsInv, CellTypes, OneLap
    <3>1. dequeue_pos \in Nat /\ enqueue_pos \in Nat
      BY DEF CellsInv, CellTypes
    <3>2. Cell(enqueue_pos) = Cell(dequeue_pos) /\ Cell(enqueue_pos) \in 0 .. NumCells - 1
      BY <3>1, NextLap, LapsAndCell
    <3>3. cells[Cell(enqueue_pos)].sequence \in Int
      BY <3>2 DEF CellsInv, CellTypes
    <3>4. Sequence(dequeue_pos) = dequeue_pos \/ Sequence(dequeue_pos) = dequeue_pos + 1
      BY <3>1, NumCellsType DEF CellsInv, CellsInStep
    <3>5. Sequence(dequeue_pos) = enqueue_pos
      BY <1>4, <3>1, <3>2, <3>3 DEF diff, Sequence
    <3> QED BY <3>1, <3>4, <3>5, NumCellsType
  <2>7. ClaimsFree'
    BY <1>1, <2>1, <2>6 DEF CellsInv, CellTypes, ClaimsFree
  <2> QED BY <2>3, <2>4, <2>5, <2>7 DEF CellsInv
<1> QED BY <1>3, <1>4

\* The compare and exchange gives a position to one producer.
LEMMA ClaimKeepsInv ==
  ASSUME CellsInv, NEW p \in Pushers, Claim(p)
  PROVE  CellsInv'
<1>1. /\ pc[p] = "claim" /\ pos[p] = enqueue_pos /\ enqueue_pos' = enqueue_pos + 1
      /\ pc' = [pc EXCEPT ![p] = "write"]
      /\ cells' = cells /\ pos' = pos /\ pushing' = pushing
      /\ dequeue_pos' = dequeue_pos /\ pop_pc' = pop_pc
  BY DEF Claim, popVars
<1>2. enqueue_pos \in Nat /\ dequeue_pos \in Nat /\ OneLap
  BY DEF CellsInv, CellTypes
<1>3. enqueue_pos < dequeue_pos + NumCells
  BY <1>1 DEF CellsInv, ClaimsFree
<1>4. CellTypes'
  BY <1>1, <1>2 DEF CellsInv, CellTypes
<1>5. OneLap'
  BY <1>1, <1>2, <1>3, NumCellsType DEF OneLap
<1>6. CellsInStep'
  BY <1>1, <1>2, NumCellsType DEF CellsInv, CellsInStep, Sequence
<1>7. ReadsPublished'
  BY <1>1 DEF CellsInv, ReadsPublished, Sequence
<1>8. Sequence(enqueue_pos) = enqueue_pos
  BY <1>2, <1>3, NumCellsType DEF CellsInv, CellsInStep, OneLap
<1>9. \A q \in Pushers : OwnsCell(q)' => q = p \/ OwnsCell(q)
  BY <1>1 DEF CellsInv, CellTypes, OwnsCell
<1>10. ASSUME NEW q \in Pushers, OwnsCell(q)
       PROVE  /\ dequeue_pos <= pos[q] /\ pos[q] < enqueue_pos
              /\ Sequence(pos[q]) = pos[q] /\ pos[q] \in Nat
              /\ \A r \in Pushers : OwnsCell(r) /\ pos[r] = pos[q] => r = q
  BY <1>10 DEF CellsInv, CellTypes, ClaimsExclusive
<1>11. ClaimsExclusive'
  <2> SUFFICES ASSUME NEW q \in Pushers, OwnsCell(q)'
               PROVE  /\ dequeue_pos <= pos[q] /\ pos[q] < enqueue_pos + 1
                      /\ Sequence(pos[q]) = pos[q]
                      /\ \A r \in Pushers : OwnsCell(r)' /\ pos[r] = pos[q] => r = q
    BY <1>1 DEF ClaimsExclusive, Sequence
  <2>1. CASE q = p
    BY <1>1, <1>2, <1>8, <1>9, <1>10, <2>1 DEF OneLap
  <2>2. CASE q # p
    BY <1>1, <1>2, <1>9, <1>10, <2>2
  <2> QED BY <2>1, <2>2
<1>12. ClaimsFree'
  BY <1>1, <1>2 DEF CellsInv, CellTypes, ClaimsFree
<1> QED BY <1>4, <1>5, <1>6, <1>7, <1>11, <1>12 DEF CellsInv

\* The producer that holds a position writes its data.
LEMMA WriteCellKeepsInv ==
  ASSUME CellsInv, NEW p \in Pushers, WriteCell(p)
  PROVE  CellsInv'
<1>1. /\ pc[p] = "write"
      /\ cells' = [cells EXCEPT ![Cell(pos[p])].data = pushing[p]]
      /\ pc' = [pc EXCEPT ![p] = "publish"]
      /\ enqueue_pos' = enqueue_pos /\ pos' = pos /\ pushing' = pushing
      /\ dequeue_pos' = dequeue_pos /\ pop_pc' = pop_pc
  BY DEF WriteCell, popVars
<1>2. pos[p] \in Nat /\ Cell(pos[p]) \in 0 .. NumCells - 1
  BY LapsAndCell DEF CellsInv, CellTypes
<1>3. CellTypes'
  BY Zenon, <1>1, <1>2 DEF CellsInv, CellTypes
<1>4. \A i \in 0 .. NumCells - 1 : cells'[i].sequence = cells[i].sequence
  BY <1>1, <1>2 DEF CellsInv, CellTypes
<1>5. \A n \in Nat : Sequence(n)' = Sequence(n)
  BY <1>4, LapsAndCell DEF Sequence
<1>6. \A q \in Pushers : /\ OwnsCell(q)' <=> OwnsCell(q)
                         /\ pc'[q] = "claim" => pc[q] = "claim"
  BY <1>1 DEF CellsInv, CellTypes, OwnsCell
<1>7. OneLap' /\ ClaimsFree'
  BY <1>1, <1>6 DEF CellsInv, OneLap, ClaimsFree
<1>8. CellsInStep'
  <2> SUFFICES ASSUME NEW n \in dequeue_pos .. dequeue_pos + NumCells - 1
               PROVE  \/ Sequence(n)' = n
                      \/ n < enqueue_pos /\ Sequence(n)' = n + 1
    BY <1>1 DEF CellsInStep
  <2>1. n \in Nat
    BY NumCellsType DEF CellsInv, CellTypes
  <2> QED BY <1>5, <2>1 DEF CellsInv, CellsInStep
<1>9. ReadsPublished'
  BY <1>1, <1>5 DEF CellsInv, ReadsPublished, CellTypes
<1>10. ClaimsExclusive'
  <2> SUFFICES ASSUME NEW q \in Pushers, OwnsCell(q)
               PROVE  /\ dequeue_pos <= pos[q] /\ pos[q] < enqueue_pos
                      /\ Sequence(pos[q])' = pos[q]
                      /\ \A r \in Pushers : OwnsCell(r) /\ pos[r] = pos[q] => r = q
    BY <1>1, <1>6 DEF ClaimsExclusive
  <2>1. pos[q] \in Nat
    BY DEF CellsInv, CellTypes
  <2>2. Sequence(pos[q])' = Sequence(pos[q])
    <3> DEFINE n == pos[q]
    <3>1. n \in Nat /\ pos'[q] = n
      BY <1>1, <2>1
    <3>2. cells'[Cell(n)].sequence = cells[Cell(n)].sequence
      <4> HIDE DEF n
      <4> QED BY <1>4, <3>1, LapsAndCell
    <3> QED BY <3>1, <3>2 DEF Sequence
  <2> QED BY <2>2 DEF CellsInv, ClaimsExclusive
<1> QED BY <1>3, <1>7, <1>8, <1>9, <1>10 DEF CellsInv

\* The cells of the lap whose position is not n keep their sequence when the
\* cell of n gets another one.
LEMMA OthersKeepSequence ==
  ASSUME CellTypes, NEW n \in Nat, NEW x \in Int,
         cells' = [cells EXCEPT ![Cell(n)].sequence = x]
  PROVE  /\ cells' \in [0 .. NumCells - 1 ->
                          [sequence : Int, data : Items \cup {NoData}]]
         /\ cells'[Cell(n)].sequence = x
         /\ \A m \in Nat : /\ m # n /\ m < n + NumCells /\ n < m + NumCells
                           => cells'[Cell(m)].sequence = cells[Cell(m)].sequence
<1>1. Cell(n) \in 0 .. NumCells - 1
  BY LapsAndCell
<1>2. ASSUME NEW m \in Nat, m # n, m < n + NumCells, n < m + NumCells
      PROVE  cells'[Cell(m)].sequence = cells[Cell(m)].sequence
  <2>1. Cell(m) \in 0 .. NumCells - 1 /\ Cell(m) # Cell(n)
    BY <1>2, LapsAndCell, CellsDiffer
  <2> QED BY <1>1, <2>1 DEF CellTypes
<1> QED BY <1>1, <1>2 DEF CellTypes

\* Publishing a cell concerns no other claimed position.
LEMMA PublishKeepsInv ==
  ASSUME CellsInv, NEW p \in Pushers, Publish(p)
  PROVE  CellsInv'
<1> DEFINE n == pos[p]
<1>1. /\ pc[p] = "publish"
      /\ cells' = [cells EXCEPT ![Cell(n)].sequence = n + 1]
      /\ pos' = [pos EXCEPT ![p] = n + 1]
      /\ pc' = [pc EXCEPT ![p] = "idle"]
      /\ enqueue_pos' = enqueue_pos /\ pushing' = pushing
      /\ dequeue_pos' = dequeue_pos /\ pop_pc' = pop_pc
  BY DEF Publish, popVars
<1>2. /\ n \in Nat /\ dequeue_pos \in Nat /\ enqueue_pos \in Nat /\ OneLap
      /\ dequeue_pos <= n /\ n < enqueue_pos /\ Sequence(n) = n
      /\ \A q \in Pushers : OwnsCell(q) /\ pos[q] = n => q = p
  BY <1>1 DEF CellsInv, CellTypes, ClaimsExclusive, OwnsCell
<1>3. /\ cells' \in [0 .. NumCells - 1 ->
                       [sequence : Int, data : Items \cup {NoData}]]
      /\ cells'[Cell(n)].sequence = n + 1
      /\ \A m \in Nat : /\ m # n /\ m < n + NumCells /\ n < m + NumCells
                        => cells'[Cell(m)].sequence = cells[Cell(m)].sequence
  <2>1. n + 1 \in Int /\ CellTypes
    BY <1>2 DEF CellsInv
  <2> HIDE DEF n
  <2> QED BY Zenon, <1>1, <1>2, <2>1, OthersKeepSequence
<1>4. CellTypes'
  BY <1>1, <1>2, <1>3 DEF CellsInv, CellTypes
<1>5. \A q \in Pushers : /\ OwnsCell(q)' => q # p /\ OwnsCell(q) /\ pos'[q] = pos[q]
                         /\ pc'[q] = "claim" => q # p /\ pc[q] = "claim"
                         /\ q # p => pos'[q] = pos[q]
  BY <1>1 DEF CellsInv, CellTypes, OwnsCell
<1>6. pos'[p] = n + 1
  BY <1>1 DEF CellsInv, CellTypes
<1> HIDE DEF n
<1>7. OneLap' /\ ClaimsFree'
  BY <1>1, <1>2, <1>5, <1>6 DEF CellsInv, OneLap, ClaimsFree
<1>8. CellsInStep'
  <2> SUFFICES ASSUME NEW m \in dequeue_pos .. dequeue_pos + NumCells - 1
               PROVE  \/ cells'[Cell(m)].sequence = m
                      \/ m < enqueue_pos /\ cells'[Cell(m)].sequence = m + 1
    BY <1>1 DEF CellsInStep, Sequence
  <2>1. m \in Nat /\ m < n + NumCells /\ n < m + NumCells
    BY <1>2, NumCellsType DEF OneLap
  <2>2. CASE m = n
    BY <1>2, <1>3, <2>2
  <2>3. CASE m # n
    BY <1>3, <2>1, <2>3 DEF CellsInv, CellsInStep, Sequence
  <2> QED BY <2>2, <2>3
<1>9. ReadsPublished'
  <2> SUFFICES ASSUME pop_pc # "idle"
               PROVE  cells'[Cell(dequeue_pos)].sequence = dequeue_pos + 1
    BY <1>1 DEF ReadsPublished, Sequence
  <2>1. Sequence(dequeue_pos) = dequeue_pos + 1
    BY DEF CellsInv, ReadsPublished
  <2>2. dequeue_pos # n /\ dequeue_pos < n + NumCells /\ n < dequeue_pos + NumCells
    BY <1>2, <2>1, NumCellsType DEF OneLap
  <2> QED BY <1>2, <1>3, <2>1, <2>2 DEF Sequence
<1>10. ClaimsExclusive'
  <2> SUFFICES ASSUME NEW q \in Pushers, OwnsCell(q)'
               PROVE  /\ dequeue_pos <= pos[q] /\ pos[q] < enqueue_pos
                      /\ cells'[Cell(pos[q])].sequence = pos[q]
                      /\ \A r \in Pushers : OwnsCell(r)' /\ pos'[r] = pos[q] => r = q
    BY <1>1, <1>5 DEF ClaimsExclusive, Sequence
  <2> DEFINE m == pos[q]
  <2>1. /\ q # p /\ OwnsCell(q) /\ m \in Nat /\ dequeue_pos <= m /\ m < enqueue_pos
        /\ cells[Cell(m)].sequence = m
        /\ \A r \in Pushers : OwnsCell(r) /\ pos[r] = m => r = q
    BY <1>5 DEF CellsInv, CellTypes, ClaimsExclusive, Sequence
  <2>2. m # n
    BY <1>2, <2>1
  <2> HIDE DEF m
  <2>3. cells'[Cell(m)].sequence = m
    <3>1. m < n + NumCells /\ n < m + NumCells
      BY <1>2, <2>1, NumCellsType DEF OneLap
    <3> QED BY <1>3, <2>1, <2>2, <3>1
  <2> QED BY <1>5, <2>1, <2>3 DEF m
<1> QED BY <1>4, <1>7, <1>8, <1>9, <1>10 DEF CellsInv

-----------------------------------------------------------------------------
(* The steps of the consumer.                                              *)

\* The consumer looks for a published cell, and copies one.
LEMMA PopKeepsInv ==
  ASSUME CellsInv, LoadFront \/ CopyCell
  PROVE  CellsInv'
<1>1. /\ cells' = cells /\ enqueue_pos' = enqueue_pos /\ pc' = pc /\ pos' = pos
      /\ pushing' = pushing /\ dequeue_pos' = dequeue_pos
      /\ pop_pc' \in {"idle", "copy", "free"}
      /\ pop_pc' # "idle" => pop_pc # "idle" \/ Published
  BY DEF LoadFront, CopyCell, pushVars
<1>2. CellTypes' /\ OneLap' /\ CellsInStep'
  BY <1>1 DEF CellsInv, CellTypes, OneLap, CellsInStep, Sequence
<1>3. ClaimsExclusive' /\ ClaimsFree'
  BY <1>1 DEF CellsInv, ClaimsExclusive, ClaimsFree, OwnsCell, Sequence
<1>4. ReadsPublished'
  BY <1>1 DEF CellsInv, ReadsPublished, Published, Sequence
<1> QED BY <1>2, <1>3, <1>4 DEF CellsInv

\* The cell that the consumer frees is the last one of the lap that starts
\* now.
LEMMA FreeCellKeepsInv ==
  ASSUME CellsInv, FreeCell
  PROVE  CellsInv'
<1> DEFINE d == dequeue_pos
<1>1. /\ pop_pc = "free" /\ pop_pc' = "idle" /\ dequeue_pos' = d + 1
      /\ cells' = [cells EXCEPT ![Cell(d)].sequence = d + NumCells]
      /\ enqueue_pos' = enqueue_pos /\ pc' = pc /\ pos' = pos /\ pushing' = pushing
  BY DEF FreeCell, pushVars
<1>2. /\ d \in Nat /\ enqueue_pos \in Nat /\ OneLap
      /\ cells[Cell(d)].sequence = d + 1
  BY <1>1 DEF CellsInv, CellTypes, ReadsPublished, Sequence
<1>3. d < enqueue_pos
  BY <1>2, NumCellsType DEF CellsInv, CellsInStep, Sequence
<1>4. /\ cells' \in [0 .. NumCells - 1 ->
                       [sequence : Int, data : Items \cup {NoData}]]
      /\ cells'[Cell(d)].sequence = d + NumCells
      /\ \A m \in Nat : /\ m # d /\ m < d + NumCells /\ d < m + NumCells
                        => cells'[Cell(m)].sequence = cells[Cell(m)].sequence
  <2>1. d + NumCells \in Int /\ CellTypes
    BY <1>2, NumCellsType DEF CellsInv
  <2> HIDE DEF d
  <2> QED BY Zenon, <1>1, <1>2, <2>1, OthersKeepSequence
<1>5. CellTypes'
  BY <1>1, <1>2, <1>4 DEF CellsInv, CellTypes
<1>6. OneLap'
  BY <1>1, <1>2, <1>3, NumCellsType DEF OneLap
<1>7. CellsInStep'
  <2> SUFFICES ASSUME NEW m \in d + 1 .. d + NumCells
               PROVE  \/ cells'[Cell(m)].sequence = m
                      \/ m < enqueue_pos /\ cells'[Cell(m)].sequence = m + 1
    <3>1. (d + 1) + NumCells - 1 = d + NumCells
      BY <1>2, NumCellsType
    <3> QED BY <1>1, <3>1 DEF CellsInStep, Sequence
  <2>1. m \in Nat
    BY <1>2, NumCellsType
  <2>2. CASE m = d + NumCells
    BY <1>2, <1>4, <2>2, NextLap
  <2>3. CASE m < d + NumCells
    <3>1. m \in d .. d + NumCells - 1 /\ m # d /\ d < m + NumCells
      BY <1>2, <2>1, <2>3, NumCellsType
    <3> QED BY <1>4, <2>1, <2>3, <3>1 DEF CellsInv, CellsInStep, Sequence
  <2> QED BY <1>2, <2>1, <2>2, <2>3, NumCellsType
<1>8. ReadsPublished'
  BY <1>1 DEF ReadsPublished
<1>9. ClaimsFree'
  BY <1>1, <1>2, NumCellsType DEF CellsInv, ClaimsFree
<1>10. ClaimsExclusive'
  <2> SUFFICES ASSUME NEW q \in Pushers, OwnsCell(q)
               PROVE  /\ d + 1 <= pos[q] /\ pos[q] < enqueue_pos
                      /\ cells'[Cell(pos[q])].sequence = pos[q]
                      /\ \A r \in Pushers : OwnsCell(r) /\ pos[r] = pos[q] => r = q
    BY <1>1 DEF ClaimsExclusive, Sequence, OwnsCell
  <2> DEFINE m == pos[q]
  <2>1. /\ m \in Nat /\ d <= m /\ m < enqueue_pos /\ cells[Cell(m)].sequence = m
        /\ \A r \in Pushers : OwnsCell(r) /\ pos[r] = m => r = q
    BY DEF CellsInv, CellTypes, ClaimsExclusive, Sequence
  <2> HIDE DEF m
  <2>2. m # d
    BY <1>2, <2>1
  <2>3. cells'[Cell(m)].sequence = m
    <3>1. m < d + NumCells /\ d < m + NumCells
      BY <1>2, <2>1, NumCellsType DEF OneLap
    <3> QED BY <1>4, <2>1, <2>2, <3>1
  <2> QED BY <1>2, <2>1, <2>2, <2>3 DEF m
<1> QED BY <1>5, <1>6, <1>7, <1>8, <1>9, <1>10 DEF CellsInv

-----------------------------------------------------------------------------
(* No two threads touch the data of a cell at once.                        *)

\* At first every cell is free for the first lap.
LEMMA CellsStart == CellsInit => CellsInv
<1> SUFFICES ASSUME CellsInit PROVE CellsInv
  OBVIOUS
<1>1. CellTypes
  BY NumCellsType DEF CellsInit, CellTypes
<1>2. \A n \in 0 .. NumCells - 1 : Cell(n) = n
  BY NumCellsType DEF Cell
<1>3. CellsInStep
  BY <1>2, NumCellsType DEF CellsInit, CellsInStep, Sequence
<1>4. OneLap /\ ClaimsFree /\ ClaimsExclusive /\ ReadsPublished
  BY NumCellsType DEF CellsInit, OneLap, ClaimsFree, ClaimsExclusive, OwnsCell, ReadsPublished
<1> QED BY <1>1, <1>3, <1>4 DEF CellsInv

\* The inductive invariant of the ring.
LEMMA CellsInvariant == CellsSpec => []CellsInv
<1>1. CellsInv /\ [CellsNext]_cellsVars => CellsInv'
  <2> SUFFICES ASSUME CellsInv, [CellsNext]_cellsVars PROVE CellsInv'
    OBVIOUS
  <2>1. ASSUME NEW p \in Pushers, PushThread(p) PROVE CellsInv'
    BY <2>1, LoadPositionKeepsInv, LoadSequenceKeepsInv, ResampleKeepsInv, ClaimKeepsInv,
       WriteCellKeepsInv, PublishKeepsInv DEF PushThread
  <2>2. CASE PopThread
    BY <2>2, PopKeepsInv, FreeCellKeepsInv DEF PopThread
  <2>3. CASE UNCHANGED cellsVars
    BY <2>3 DEF cellsVars, pushVars, popVars, CellsInv, CellTypes, OneLap, CellsInStep,
       ClaimsExclusive, ClaimsFree, ReadsPublished, OwnsCell, Sequence
  <2> QED BY <2>1, <2>2, <2>3 DEF CellsNext
<1> QED BY <1>1, CellsStart, PTL DEF CellsSpec

\* The plain accesses to the data of the cells never race: a cell belongs to
\* one producer from its claim to its publication and to the consumer while
\* it is copied (try_push, try_pop).
THEOREM CellsNeverShared == CellsSpec => []NoCellRace
  BY CellsInvariant, CellsExcludeRaces, PTL

-----------------------------------------------------------------------------
(* A push fails only on a full ring.                                       *)

\* A number of laps and a cell have that cell.
LEMMA CellOf ==
  ASSUME NEW x \in Int, NEW s \in 0 .. NumCells - 1, NumCells * x + s \in Nat
  PROVE  Cell(NumCells * x + s) = s
<1> DEFINE u == NumCells * x
           m == u + s
           y == m \div NumCells
           v == NumCells * y
           r == Cell(m)
<1>1. m \in Nat /\ u \in Int
  BY NumCellsType
<1>2. y \in Int /\ v \in Int /\ m = v + r /\ r \in 0 .. NumCells - 1
  <2> HIDE DEF m
  <2> QED BY <1>1, LapsAndCell
<1>3. /\ x < y => v >= u + NumCells
      /\ y < x => u >= v + NumCells
      /\ x = y => u = v
  <2> HIDE DEF y, m, r
  <2> QED BY <1>2, CellLapsApart
<1>4. u + s = v + r
  BY <1>2
<1>5. r = s
  <2> HIDE DEF u, v, r, m, y
  <2> QED BY <1>1, <1>2, <1>3, <1>4, NumCellsType
<1> QED BY <1>5

\* Every position before the lap that starts at d shares its cell with one
\* of that lap.
LEMMA LaterInLap ==
  ASSUME NEW d \in Nat, NEW n \in Nat, n < d
  PROVE  \E m \in d .. d + NumCells - 1 : Cell(m) = Cell(n)
<1> DEFINE x == d \div NumCells
           u == NumCells * x
           w == NumCells * (x + 1)
           r == Cell(d)
           s == Cell(n)
<1>1. x \in Int /\ u \in Int /\ d = u + r /\ r \in 0 .. NumCells - 1
  BY LapsAndCell
<1>2. s \in 0 .. NumCells - 1
  BY LapsAndCell
<1>3. w = u + NumCells
  BY <1>1, NumCellsType
<1> HIDE DEF x, r, s
<1>4. CASE r <= s
  <2>1. u + s \in d .. d + NumCells - 1 /\ u + s \in Nat
    <3> HIDE DEF u
    <3> QED BY <1>1, <1>2, <1>4, NumCellsType
  <2>2. Cell(u + s) = s
    BY <1>1, <1>2, <2>1, CellOf
  <2> QED BY <2>1, <2>2 DEF s
<1>5. CASE s < r
  <2>1. w + s \in d .. d + NumCells - 1 /\ w + s \in Nat /\ x + 1 \in Int
    <3> HIDE DEF u, w
    <3> QED BY <1>1, <1>2, <1>3, <1>5, NumCellsType
  <2>2. Cell(w + s) = s
    BY <1>2, <2>1, CellOf
  <2> QED BY <2>1, <2>2 DEF s
<1> QED BY <1>1, <1>2, <1>4, <1>5, NumCellsType

\* A cell is behind a position that a producer has seen only when the ring is
\* full.
LEMMA BehindMeansFull ==
  ASSUME CellsInv, NEW n \in Nat, n <= enqueue_pos, Sequence(n) < n
  PROVE  enqueue_pos - dequeue_pos >= NumCells
<1>1. dequeue_pos \in Nat /\ enqueue_pos \in Nat
  BY DEF CellsInv, CellTypes
<1>2. \A m \in dequeue_pos .. dequeue_pos + NumCells - 1 : Sequence(m) \in {m, m + 1}
  BY DEF CellsInv, CellsInStep
<1>3. ~(n < dequeue_pos)
  <2> SUFFICES ASSUME n < dequeue_pos PROVE FALSE
    OBVIOUS
  <2>1. PICK m \in dequeue_pos .. dequeue_pos + NumCells - 1 : Cell(m) = Cell(n)
    BY <1>1, LaterInLap
  <2>2. Sequence(n) \in {m, m + 1}
    BY <1>2, <2>1 DEF Sequence
  <2> QED BY <1>1, <2>2, NumCellsType
<1>4. ~(n \in dequeue_pos .. dequeue_pos + NumCells - 1)
  BY <1>2
<1> QED BY <1>1, <1>3, <1>4, NumCellsType

\* try_push returns false only on a full ring: losing a race, or a position
\* out of date, never passes for one.
THEOREM PushFailsOnFullRing == CellsSpec => PushFailsOnlyWhenFull
<1> DEFINE A == \A p \in Pushers :
                  pc[p] = "check" /\ pc'[p] = "idle" => enqueue_pos - dequeue_pos >= NumCells
<1>1. ASSUME CellsInv, CellsNext PROVE A
  <2> SUFFICES ASSUME NEW p \in Pushers, pc[p] = "check", pc'[p] = "idle"
               PROVE  enqueue_pos - dequeue_pos >= NumCells
    OBVIOUS
  <2>1. pc \in [Pushers -> {"idle", "check", "claim", "resample", "write", "publish"}]
        /\ cells \in [0 .. NumCells - 1 -> [sequence : Int, data : Items \cup {NoData}]]
        /\ pos[p] \in Nat /\ pos[p] <= enqueue_pos
    BY <1>1 DEF CellsInv, CellTypes, ClaimsFree
  <2>2. LoadSequence(p)
    <3>1. pc' # pc
      OBVIOUS
    <3>2. ~PopThread
      BY <3>1 DEF PopThread, LoadFront, CopyCell, FreeCell, pushVars
    <3>3. PICK q \in Pushers : PushThread(q)
      BY <1>1, <3>2 DEF CellsNext
    <3>4. q = p
      BY <2>1, <3>3 DEF PushThread, LoadPosition, LoadSequence, Resample, Claim, LoseRace,
         WriteCell, Publish
    <3> QED BY <2>1, <3>3, <3>4 DEF PushThread, LoadPosition, Resample, Claim, LoseRace,
         WriteCell, Publish
  <2>3. AfterLoad(Sequence(pos[p]) - pos[p]) = "idle"
    BY <2>1, <2>2 DEF LoadSequence, Sequence
  <2>4. Sequence(pos[p]) \in Int
    BY Zenon, <2>1, LapsAndCell DEF Sequence
  <2>5. Sequence(pos[p]) < pos[p]
    BY <2>1, <2>3, <2>4 DEF AfterLoad
  <2> QED BY <1>1, <2>1, <2>5, BehindMeansFull
<1>2. CellsInv /\ [CellsNext]_cellsVars => [A]_cellsVars
  BY <1>1
<1> HIDE DEF A
<1>3. CellsSpec => [][A]_cellsVars
  BY <1>2, CellsInvariant, PTL DEF CellsSpec
<1> QED BY <1>3 DEF PushFailsOnlyWhenFull, A

-----------------------------------------------------------------------------
(* The ring implements the queue.                                          *)

\* The position of the oldest item that was not copied yet, and the item that
\* goes with a position: its producer may not have stored it yet.
FirstClaimed == IF pop_pc = "free" THEN dequeue_pos + 1 ELSE dequeue_pos
ItemAt(n) == IF Claimant(n) = {} THEN cells[Cell(n)].data
             ELSE pushing[CHOOSE p \in Claimant(n) : TRUE]

\* A producer in a call has an item, and has stored it before it publishes.
CellDataInv ==
  /\ CellsInv
  /\ \A p \in Pushers :
       /\ pc[p] # "idle" => pushing[p] \in Items
       /\ pc[p] = "publish" => cells[Cell(pos[p])].data = pushing[p]

\* A position has one claimant or none.
LEMMA OneClaimant ==
  ASSUME CellsInv, NEW p \in Pushers, OwnsCell(p)
  PROVE  /\ Claimant(pos[p]) = {p} /\ ItemAt(pos[p]) = pushing[p]
         /\ pos[p] \in Nat /\ dequeue_pos <= pos[p] /\ pos[p] < enqueue_pos
         /\ Sequence(pos[p]) = pos[p]
<1>1. /\ \A q \in Pushers : OwnsCell(q) /\ pos[q] = pos[p] => q = p
      /\ dequeue_pos <= pos[p] /\ pos[p] < enqueue_pos /\ pos[p] \in Nat
      /\ Sequence(pos[p]) = pos[p]
  BY DEF CellsInv, ClaimsExclusive, CellTypes
<1>2. Claimant(pos[p]) = {p}
  BY <1>1 DEF Claimant, OwnsCell
<1> QED BY <1>1, <1>2 DEF ItemAt

LEMMA ItemTypes ==
  ASSUME CellsInv, NEW n \in Nat
  PROVE  ItemAt(n) \in Items \cup {NoData}
<1>1. Claimant(n) \subseteq Pushers /\ Cell(n) \in 0 .. NumCells - 1
  BY LapsAndCell DEF Claimant
<1>2. CASE Claimant(n) = {}
  BY <1>1, <1>2 DEF ItemAt, CellsInv, CellTypes
<1>3. CASE Claimant(n) # {}
  <2>1. (CHOOSE p \in Claimant(n) : TRUE) \in Claimant(n)
    BY <1>3
  <2> QED BY <1>1, <1>3, <2>1 DEF ItemAt, CellsInv, CellTypes
<1> QED BY <1>2, <1>3

\* The consumer is at a published position, which nobody claims.
LEMMA CopiesPublished ==
  ASSUME CellsInv, pop_pc # "idle"
  PROVE  dequeue_pos < enqueue_pos /\ Claimant(dequeue_pos) = {}
<1>1. dequeue_pos \in Nat /\ Sequence(dequeue_pos) = dequeue_pos + 1
  BY DEF CellsInv, CellTypes, ReadsPublished
<1>2. dequeue_pos < enqueue_pos
  BY <1>1, NumCellsType DEF CellsInv, CellsInStep
<1>3. ASSUME NEW p \in Claimant(dequeue_pos) PROVE FALSE
  <2>1. p \in Pushers /\ OwnsCell(p) /\ pos[p] = dequeue_pos
    BY DEF Claimant, OwnsCell
  <2> QED BY <1>1, <2>1, OneClaimant
<1> QED BY <1>2, <1>3

LEMMA ClaimedType ==
  ASSUME CellsInv
  PROVE  /\ Claimed = [k \in 1 .. enqueue_pos - FirstClaimed |-> ItemAt(FirstClaimed + k - 1)]
         /\ FirstClaimed \in Nat /\ FirstClaimed <= enqueue_pos /\ enqueue_pos \in Nat
         /\ dequeue_pos <= FirstClaimed
         /\ Claimed \in Seq(Items \cup {NoData})
         /\ Len(Claimed) = enqueue_pos - FirstClaimed
<1>1. Claimed = [k \in 1 .. enqueue_pos - FirstClaimed |-> ItemAt(FirstClaimed + k - 1)]
  BY DEF Claimed, FirstClaimed, ItemAt
<1>2. /\ FirstClaimed \in Nat /\ FirstClaimed <= enqueue_pos /\ enqueue_pos \in Nat
      /\ dequeue_pos <= FirstClaimed
  BY CopiesPublished DEF FirstClaimed, CellsInv, CellTypes, OneLap
<1>3. ASSUME NEW k \in 1 .. enqueue_pos - FirstClaimed
      PROVE  ItemAt(FirstClaimed + k - 1) \in Items \cup {NoData}
  <2>1. FirstClaimed + k - 1 \in Nat
    BY <1>2
  <2> QED BY <2>1, ItemTypes
<1> QED BY <1>1, <1>2, <1>3

\* A step that keeps the positions and the item of each keeps the queue.
LEMMA ClaimedKept ==
  ASSUME CellsInv, FirstClaimed' = FirstClaimed, enqueue_pos' = enqueue_pos,
         \A n \in Nat : FirstClaimed <= n /\ n < enqueue_pos => ItemAt(n)' = ItemAt(n)
  PROVE  Claimed' = Claimed
<1>1. /\ Claimed = [k \in 1 .. enqueue_pos - FirstClaimed |-> ItemAt(FirstClaimed + k - 1)]
      /\ FirstClaimed \in Nat /\ enqueue_pos \in Nat
  BY ClaimedType
<1>2. Claimed' = [k \in 1 .. enqueue_pos - FirstClaimed |-> ItemAt(FirstClaimed + k - 1)']
  BY DEF Claimed, FirstClaimed, ItemAt
<1>3. ASSUME NEW k \in 1 .. enqueue_pos - FirstClaimed
      PROVE  ItemAt(FirstClaimed + k - 1)' = ItemAt(FirstClaimed + k - 1)
  <2>1. PICK n \in Nat : n = FirstClaimed + k - 1
    BY <1>1
  <2>2. FirstClaimed <= n /\ n < enqueue_pos /\ FirstClaimed' + k - 1 = n
    BY <1>1, <2>1
  <2>3. ItemAt(n)' = ItemAt(n)
    BY <2>2
  <2> QED BY <2>1, <2>2, <2>3 DEF ItemAt, Claimant
<1> QED BY <1>1, <1>2, <1>3

\* A step of a producer that holds no position before or after it, and leaves
\* the cells and the items of the others alone, keeps the queue.
LEMMA LookingAroundKeepsClaimed ==
  ASSUME CellsInv, NEW p \in Pushers, ~OwnsCell(p), ~OwnsCell(p)',
         \A q \in Pushers \ {p} : pc'[q] = pc[q] /\ pos'[q] = pos[q] /\ pushing'[q] = pushing[q],
         UNCHANGED <<cells, enqueue_pos, dequeue_pos, pop_pc>>
  PROVE  Claimed' = Claimed
<1>1. FirstClaimed' = FirstClaimed
  BY DEF FirstClaimed
<1>2. ASSUME NEW n \in Nat PROVE ItemAt(n)' = ItemAt(n)
  <2>1. Claimant(n)' = Claimant(n) /\ p \notin Claimant(n) /\ Claimant(n) \subseteq Pushers
    BY DEF Claimant, OwnsCell
  <2>2. CASE Claimant(n) = {}
    BY <2>1, <2>2 DEF ItemAt
  <2>3. CASE Claimant(n) # {}
    <3>1. (CHOOSE q \in Claimant(n) : TRUE) \in Claimant(n)
      BY <2>3
    <3> QED BY <2>1, <2>3, <3>1 DEF ItemAt
  <2> QED BY <2>2, <2>3
<1> QED BY <1>1, <1>2, ClaimedKept

LEMMA CallsKeepClaimed ==
  ASSUME CellsInv, NEW p \in Pushers,
         (\E v \in Items : LoadPosition(p, v)) \/ LoadSequence(p) \/ Resample(p) \/ LoseRace(p)
  PROVE  Claimed' = Claimed /\ popped' = popped
<1>1. /\ pc \in [Pushers -> {"idle", "check", "claim", "resample", "write", "publish"}]
      /\ pos \in [Pushers -> Nat] /\ pushing \in [Pushers -> Items \cup {NoData}]
  BY DEF CellsInv, CellTypes
<1>2. UNCHANGED <<cells, enqueue_pos, dequeue_pos, pop_pc>> /\ popped' = popped
  BY DEF LoadPosition, LoadSequence, Resample, LoseRace, popVars
<1>3. ~OwnsCell(p) /\ ~OwnsCell(p)'
  BY <1>1 DEF LoadPosition, LoadSequence, Resample, LoseRace, OwnsCell, AfterLoad
<1>4. \A q \in Pushers \ {p} : pc'[q] = pc[q] /\ pos'[q] = pos[q] /\ pushing'[q] = pushing[q]
  BY <1>1 DEF LoadPosition, LoadSequence, Resample, LoseRace, Loads
<1> QED BY <1>2, <1>3, <1>4, LookingAroundKeepsClaimed

\* A claim appends the item of the producer that made it.
LEMMA ClaimEnqueues ==
  ASSUME CellDataInv, NEW p \in Pushers, Claim(p)
  PROVE  ClaimQueue!Enqueue(pushing[p]) /\ pushing[p] \in Items
<1>1. /\ pc[p] = "claim" /\ pos[p] = enqueue_pos /\ enqueue_pos' = enqueue_pos + 1
      /\ pc' = [pc EXCEPT ![p] = "write"]
      /\ cells' = cells /\ pos' = pos /\ pushing' = pushing
      /\ dequeue_pos' = dequeue_pos /\ pop_pc' = pop_pc /\ popped' = popped
  BY Zenon DEF Claim, popVars
<1>2. CellsInv /\ pushing[p] \in Items /\ enqueue_pos < dequeue_pos + NumCells
      /\ dequeue_pos \in Nat
      /\ pc \in [Pushers -> {"idle", "check", "claim", "resample", "write", "publish"}]
  BY <1>1 DEF CellDataInv, CellsInv, ClaimsFree, CellTypes
<1>3. /\ Claimed = [k \in 1 .. enqueue_pos - FirstClaimed |-> ItemAt(FirstClaimed + k - 1)]
      /\ FirstClaimed \in Nat /\ FirstClaimed <= enqueue_pos /\ enqueue_pos \in Nat
      /\ dequeue_pos <= FirstClaimed
      /\ Claimed \in Seq(Items \cup {NoData}) /\ Len(Claimed) = enqueue_pos - FirstClaimed
  BY <1>2, ClaimedType
<1>4. ASSUME NEW n \in Nat, n < enqueue_pos PROVE ItemAt(n)' = ItemAt(n)
  <2>1. Claimant(n)' = Claimant(n)
    BY <1>1, <1>2, <1>4 DEF Claimant
  <2> QED BY <1>1, <2>1 DEF ItemAt
<1>5. ASSUME NEW n \in Nat, n = enqueue_pos PROVE ItemAt(n)' = pushing[p]
  <2>1. Claimant(n)' = {p}
    <3>1. \A q \in Pushers : OwnsCell(q) => pos[q] # n
      BY <1>2, <1>3, <1>5, OneClaimant
    <3> QED BY <1>1, <1>2, <1>5, <3>1 DEF Claimant, OwnsCell
  <2> QED BY <1>1, <2>1 DEF ItemAt
<1>6. FirstClaimed' = FirstClaimed
  BY <1>1 DEF FirstClaimed
<1>7. Claimed' = [k \in 1 .. (enqueue_pos - FirstClaimed) + 1 |-> ItemAt(FirstClaimed + k - 1)']
  <2>1. Claimed' = [k \in 1 .. enqueue_pos' - FirstClaimed' |-> ItemAt(FirstClaimed + k - 1)']
    BY DEF Claimed, FirstClaimed, ItemAt
  <2> QED BY <1>1, <1>3, <1>6, <2>1
<1>8. ASSUME NEW k \in 1 .. (enqueue_pos - FirstClaimed) + 1
      PROVE  ItemAt(FirstClaimed + k - 1)' = IF k <= enqueue_pos - FirstClaimed THEN Claimed[k] ELSE pushing[p]
  <2>1. PICK n \in Nat : n = FirstClaimed + k - 1
    BY <1>3
  <2>2. ItemAt(FirstClaimed + k - 1)' = ItemAt(n)'
    BY <1>6, <2>1 DEF ItemAt, Claimant
  <2>3. CASE k <= enqueue_pos - FirstClaimed
    <3>1. n < enqueue_pos
      BY <1>3, <2>1, <2>3
    <3> QED BY <1>3, <1>4, <2>1, <2>2, <2>3, <3>1
  <2>4. CASE ~(k <= enqueue_pos - FirstClaimed)
    <3>1. n = enqueue_pos
      BY <1>3, <2>1, <2>4
    <3> QED BY <1>5, <2>2, <2>4, <3>1
  <2> QED BY <2>3, <2>4
<1>9. Claimed' = Append(Claimed, pushing[p])
  <2>1. Claimed' = [k \in 1 .. (enqueue_pos - FirstClaimed) + 1 |->
                      IF k <= enqueue_pos - FirstClaimed THEN Claimed[k] ELSE pushing[p]]
    BY <1>7, <1>8
  <2> QED BY <1>2, <1>3, <2>1, AppendIs
<1>10. Len(Claimed) < NumCells
  BY <1>2, <1>3, NumCellsType
<1> QED BY <1>1, <1>2, <1>9, <1>10 DEF ClaimQueue!Enqueue

\* Writing and publishing a cell leave the item of its position what it was:
\* before, it was the one that its producer holds.
LEMMA WriteCellKeepsClaimed ==
  ASSUME CellDataInv, NEW p \in Pushers, WriteCell(p)
  PROVE  Claimed' = Claimed /\ popped' = popped
<1>1. /\ pc[p] = "write" /\ OwnsCell(p)
      /\ cells' = [cells EXCEPT ![Cell(pos[p])].data = pushing[p]]
      /\ pc' = [pc EXCEPT ![p] = "publish"]
      /\ enqueue_pos' = enqueue_pos /\ pos' = pos /\ pushing' = pushing
      /\ dequeue_pos' = dequeue_pos /\ pop_pc' = pop_pc /\ popped' = popped
  BY DEF WriteCell, popVars, OwnsCell
<1>2. CellsInv /\ OneLap /\ dequeue_pos \in Nat /\ enqueue_pos \in Nat
      /\ pc \in [Pushers -> {"idle", "check", "claim", "resample", "write", "publish"}]
      /\ cells \in [0 .. NumCells - 1 -> [sequence : Int, data : Items \cup {NoData}]]
  BY DEF CellDataInv, CellsInv, CellTypes
<1>3. /\ Claimant(pos[p]) = {p} /\ pos[p] \in Nat
      /\ dequeue_pos <= pos[p] /\ pos[p] < enqueue_pos
  BY <1>1, <1>2, OneClaimant
<1>4. FirstClaimed' = FirstClaimed /\ dequeue_pos <= FirstClaimed
  BY <1>1, <1>2, ClaimedType DEF FirstClaimed
<1>5. ASSUME NEW n \in Nat, FirstClaimed <= n, n < enqueue_pos PROVE ItemAt(n)' = ItemAt(n)
  <2>1. Claimant(n)' = Claimant(n)
    BY <1>1, <1>2 DEF Claimant
  <2>2. CASE n = pos[p]
    BY <1>1, <1>3, <2>1, <2>2 DEF ItemAt
  <2>3. CASE n # pos[p]
    <3> DEFINE m == pos[p]
    <3>1. FirstClaimed \in Nat
      BY <1>2, ClaimedType
    <3>2. m < n + NumCells /\ n < m + NumCells /\ m \in Nat /\ m # n
      BY <1>2, <1>3, <1>4, <1>5, <2>3, <3>1, NumCellsType DEF OneLap
    <3>3. Cell(n) # Cell(m) /\ Cell(n) \in 0 .. NumCells - 1 /\ Cell(m) \in 0 .. NumCells - 1
      <4> HIDE DEF m
      <4> QED BY <3>2, CellsDiffer, LapsAndCell
    <3>4. cells'[Cell(n)] = cells[Cell(n)]
      BY <1>1, <1>2, <3>3
    <3>5. pushing' = pushing /\ cells'[Cell(n)].data = cells[Cell(n)].data
      BY Zenon, <1>1, <3>4
    <3> QED BY <2>1, <3>5 DEF ItemAt
  <2> QED BY <2>2, <2>3
<1> QED BY <1>1, <1>2, <1>4, <1>5, ClaimedKept

\* Another sequence number leaves the data of all cells alone.
LEMMA DataUntouched ==
  ASSUME CellTypes, NEW n \in Nat, NEW x,
         cells' = [cells EXCEPT ![Cell(n)].sequence = x]
  PROVE  \A m \in Nat : cells'[Cell(m)].data = cells[Cell(m)].data
  BY LapsAndCell DEF CellTypes

LEMMA PublishKeepsClaimed ==
  ASSUME CellDataInv, NEW p \in Pushers, Publish(p)
  PROVE  Claimed' = Claimed /\ popped' = popped
<1>1. /\ pc[p] = "publish" /\ OwnsCell(p)
      /\ cells' = [cells EXCEPT ![Cell(pos[p])].sequence = pos[p] + 1]
      /\ pos' = [pos EXCEPT ![p] = pos[p] + 1]
      /\ pc' = [pc EXCEPT ![p] = "idle"]
      /\ enqueue_pos' = enqueue_pos /\ pushing' = pushing
      /\ dequeue_pos' = dequeue_pos /\ pop_pc' = pop_pc /\ popped' = popped
  BY DEF Publish, popVars, OwnsCell
<1>2. CellsInv /\ CellTypes /\ cells[Cell(pos[p])].data = pushing[p]
      /\ pc \in [Pushers -> {"idle", "check", "claim", "resample", "write", "publish"}]
      /\ pos \in [Pushers -> Nat]
  BY <1>1 DEF CellDataInv, CellsInv, CellTypes
<1>3. /\ Claimant(pos[p]) = {p} /\ ItemAt(pos[p]) = pushing[p] /\ pos[p] \in Nat
  BY <1>1, <1>2, OneClaimant
<1>4. FirstClaimed' = FirstClaimed
  BY <1>1 DEF FirstClaimed
<1>5. \A m \in Nat : cells'[Cell(m)].data = cells[Cell(m)].data
  BY <1>1, <1>2, <1>3, DataUntouched
<1>6. ASSUME NEW n \in Nat PROVE ItemAt(n)' = ItemAt(n)
  <2>1. Claimant(n)' = Claimant(n) \ {p}
    BY <1>1, <1>2 DEF Claimant
  <2>2. CASE n = pos[p]
    <3>1. Claimant(n)' = {}
      BY <1>3, <2>1, <2>2
    <3> QED BY <1>2, <1>3, <1>5, <2>2, <3>1 DEF ItemAt
  <2>3. CASE n # pos[p]
    <3>1. Claimant(n)' = Claimant(n)
      BY <2>1, <2>3 DEF Claimant
    <3> QED BY <1>1, <1>5, <3>1 DEF ItemAt
  <2> QED BY <2>2, <2>3
<1> QED BY <1>1, <1>2, <1>4, <1>6, ClaimedKept

\* Copying an item takes it from the queue.
LEMMA CopyCellDequeues ==
  ASSUME CellDataInv, CopyCell
  PROVE  ClaimQueue!Dequeue
<1>1. /\ pop_pc = "copy" /\ popped' = cells[Cell(dequeue_pos)].data /\ pop_pc' = "free"
      /\ cells' = cells /\ enqueue_pos' = enqueue_pos /\ pc' = pc /\ pos' = pos
      /\ pushing' = pushing /\ dequeue_pos' = dequeue_pos
  BY DEF CopyCell, pushVars
<1>2. CellsInv
  BY DEF CellDataInv
<1> DEFINE e == enqueue_pos
           d == dequeue_pos
<1>3. /\ d < e /\ Claimant(d) = {} /\ FirstClaimed = d /\ d \in Nat /\ e \in Nat
      /\ Claimed = [k \in 1 .. e - d |-> ItemAt(d + k - 1)]
      /\ Claimed \in Seq(Items \cup {NoData}) /\ Len(Claimed) = e - d
  <2>1. FirstClaimed = d
    BY <1>1 DEF FirstClaimed
  <2> QED BY <1>1, <1>2, <2>1, ClaimedType, CopiesPublished
<1>4. Claimed' = [k \in 1 .. e - d - 1 |-> ItemAt((d + 1) + k - 1)]
  <2>1. Claimed' = [k \in 1 .. e - (d + 1) |-> ItemAt((d + 1) + k - 1)]
    BY <1>1 DEF Claimed, ItemAt, Claimant
  <2> QED BY <1>3, <2>1
<1> HIDE DEF e, d
<1>5. Claimed # << >>
  BY <1>3
<1>6. popped' = Head(Claimed)
  <2>1. d + 1 - 1 = d
    BY <1>3
  <2>2. Claimed[1] = ItemAt(d)
    BY <1>3, <2>1
  <2> QED BY <1>1, <1>3, <2>2 DEF ItemAt, d
<1>7. Claimed' = Tail(Claimed)
  <2>1. Tail(Claimed) = [k \in 1 .. Len(Claimed) - 1 |-> Claimed[k + 1]]
    BY <1>3, <1>5, TailIs
  <2>2. ASSUME NEW k \in 1 .. e - d - 1
        PROVE  Claimed[k + 1] = ItemAt((d + 1) + k - 1)
    <3>1. k + 1 \in 1 .. e - d /\ d + (k + 1) - 1 = (d + 1) + k - 1
      BY <1>3
    <3> QED BY <1>3, <3>1
  <2> QED BY <1>3, <1>4, <2>1, <2>2
<1> QED BY <1>5, <1>6, <1>7 DEF ClaimQueue!Dequeue

\* Freeing the cell changes nothing: the item is gone since it was copied.
LEMMA FreeCellKeepsClaimed ==
  ASSUME CellsInv, FreeCell
  PROVE  Claimed' = Claimed /\ popped' = popped
<1>1. /\ pop_pc = "free" /\ pop_pc' = "idle" /\ dequeue_pos' = dequeue_pos + 1
      /\ cells' = [cells EXCEPT ![Cell(dequeue_pos)].sequence = dequeue_pos + NumCells]
      /\ enqueue_pos' = enqueue_pos /\ pc' = pc /\ pos' = pos /\ pushing' = pushing /\ popped' = popped
  BY DEF FreeCell, pushVars
<1>2. FirstClaimed' = FirstClaimed
  BY <1>1 DEF FirstClaimed
<1>3. \A m \in Nat : cells'[Cell(m)].data = cells[Cell(m)].data
  BY <1>1, DataUntouched DEF CellsInv, CellTypes
<1>4. ASSUME NEW n \in Nat PROVE ItemAt(n)' = ItemAt(n)
  <2>1. Claimant(n)' = Claimant(n)
    BY <1>1 DEF Claimant
  <2> QED BY <1>1, <1>3, <2>1 DEF ItemAt
<1> QED BY <1>1, <1>2, <1>4, ClaimedKept

LEMMA CellStepRefines ==
  ASSUME CellDataInv, [CellsNext]_cellsVars
  PROVE  [ClaimQueue!Next]_<<Claimed, popped>>
<1>1. CellsInv
  BY DEF CellDataInv
<1>2. ASSUME NEW p \in Pushers, PushThread(p)
      PROVE  [ClaimQueue!Next]_<<Claimed, popped>>
  <2>1. CASE Claim(p)
    BY <2>1, ClaimEnqueues DEF ClaimQueue!Next
  <2>2. CASE ~Claim(p)
    BY <1>1, <1>2, <2>2, CallsKeepClaimed, WriteCellKeepsClaimed, PublishKeepsClaimed
    DEF PushThread
  <2> QED BY <2>1, <2>2
<1>3. CASE LoadFront \/ UNCHANGED cellsVars
  <2>1. FirstClaimed' = FirstClaimed
    BY <1>3 DEF LoadFront, FirstClaimed, cellsVars, popVars
  <2>2. /\ cells' = cells /\ enqueue_pos' = enqueue_pos /\ pc' = pc /\ pos' = pos
        /\ pushing' = pushing /\ popped' = popped
    BY <1>3 DEF LoadFront, cellsVars, pushVars, popVars
  <2>3. \A n \in Nat : ItemAt(n)' = ItemAt(n)
    BY <2>2 DEF ItemAt, Claimant
  <2> QED BY <1>1, <2>1, <2>2, <2>3, ClaimedKept
<1>4. CASE CopyCell
  BY <1>4, CopyCellDequeues DEF ClaimQueue!Next
<1>5. CASE FreeCell
  BY <1>1, <1>5, FreeCellKeepsClaimed
<1> QED BY <1>2, <1>3, <1>4, <1>5 DEF CellsNext, PopThread

\* A producer keeps its item, and its cell is its own until it publishes.
LEMMA CellDataKept ==
  ASSUME CellDataInv, CellsInv', [CellsNext]_cellsVars
  PROVE  CellDataInv'
<1> DEFINE PcType == {"idle", "check", "claim", "resample", "write", "publish"}
<1>1. /\ pc \in [Pushers -> PcType] /\ pushing \in [Pushers -> Items \cup {NoData}]
      /\ pos \in [Pushers -> Nat] /\ CellTypes /\ CellsInv
      /\ \A q \in Pushers : /\ pc[q] # "idle" => pushing[q] \in Items
                            /\ pc[q] = "publish" => cells[Cell(pos[q])].data = pushing[q]
  BY DEF CellDataInv, CellsInv, CellTypes
<1>2. ASSUME NEW p \in Pushers,
             \/ \E v \in Items : LoadPosition(p, v)
             \/ LoadSequence(p) \/ Resample(p) \/ Claim(p) \/ LoseRace(p)
      PROVE  CellDataInv'
  <2>1. cells' = cells
    BY <1>2 DEF LoadPosition, LoadSequence, Resample, Claim, LoseRace
  <2>2. \A q \in Pushers \ {p} : pc'[q] = pc[q] /\ pos'[q] = pos[q] /\ pushing'[q] = pushing[q]
    BY ZenonT(30), <1>1, <1>2 DEF LoadPosition, LoadSequence, Resample, Claim, LoseRace, Loads
  <2>3. pushing'[p] \in Items /\ pc'[p] # "publish"
    BY Zenon, <1>1, <1>2 DEF LoadPosition, LoadSequence, Resample, Claim, LoseRace, AfterLoad
  <2> QED BY ZenonT(30), <1>1, <2>1, <2>2, <2>3 DEF CellDataInv
<1>3. ASSUME NEW p \in Pushers, WriteCell(p) PROVE CellDataInv'
  <2>1. /\ pc[p] = "write" /\ OwnsCell(p)
        /\ cells' = [cells EXCEPT ![Cell(pos[p])].data = pushing[p]]
        /\ pc' = [pc EXCEPT ![p] = "publish"] /\ pos' = pos /\ pushing' = pushing
    BY <1>3 DEF WriteCell, OwnsCell
  <2>2. ASSUME NEW q \in Pushers, pc'[q] = "publish"
        PROVE  cells'[Cell(pos[q])].data = pushing[q]
    <3>1. pos[p] \in Nat /\ pos[q] \in Nat
      BY <1>1
    <3>2. Cell(pos[p]) \in 0 .. NumCells - 1 /\ Cell(pos[q]) \in 0 .. NumCells - 1
      BY <3>1, LapsAndCell
    <3>3. CASE Cell(pos[q]) = Cell(pos[p])
      <4>1. OwnsCell(q)
        BY <1>1, <2>1, <2>2 DEF OwnsCell
      <4>2. pos[q] = pos[p]
        <5> DEFINE a == pos[p]
                   b == pos[q]
        <5>1. /\ dequeue_pos <= a /\ a < enqueue_pos /\ a \in Nat
              /\ dequeue_pos <= b /\ b < enqueue_pos /\ b \in Nat
          BY <1>1, <2>1, <4>1, OneClaimant
        <5>2. a < b + NumCells /\ b < a + NumCells
          BY <1>1, <5>1, NumCellsType DEF CellsInv, OneLap, CellTypes
        <5>3. Cell(a) = Cell(b)
          BY <3>3
        <5> HIDE DEF a, b
        <5>4. a = b
          BY <5>1, <5>2, <5>3, CellsDiffer
        <5> QED BY <5>4 DEF a, b
      <4>3. q = p
        BY <1>1, <2>1, <4>1, <4>2, OneClaimant DEF Claimant, OwnsCell
      <4> QED BY <1>1, <2>1, <3>2, <4>3 DEF CellTypes
    <3>4. CASE Cell(pos[q]) # Cell(pos[p])
      BY <1>1, <2>1, <2>2, <3>2, <3>4 DEF CellTypes
    <3> QED BY <3>3, <3>4
  <2> QED BY <1>1, <2>1, <2>2 DEF CellDataInv
<1>4. ASSUME NEW p \in Pushers, Publish(p) PROVE CellDataInv'
  <2>1. /\ cells' = [cells EXCEPT ![Cell(pos[p])].sequence = pos[p] + 1]
        /\ pos' = [pos EXCEPT ![p] = pos[p] + 1]
        /\ pc' = [pc EXCEPT ![p] = "idle"] /\ pushing' = pushing
    BY <1>4 DEF Publish
  <2>2. \A m \in Nat : cells'[Cell(m)].data = cells[Cell(m)].data
    BY <1>1, <2>1, DataUntouched
  <2> QED BY <1>1, <2>1, <2>2 DEF CellDataInv
<1>5. CASE PopThread \/ UNCHANGED cellsVars
  <2>1. pc' = pc /\ pos' = pos /\ pushing' = pushing
    BY <1>5 DEF PopThread, LoadFront, CopyCell, FreeCell, cellsVars, pushVars
  <2>2. \A m \in Nat : cells'[Cell(m)].data = cells[Cell(m)].data
    BY Zenon, <1>1, <1>5, DataUntouched DEF PopThread, LoadFront, CopyCell, FreeCell,
       cellsVars, CellTypes
  <2> QED BY <1>1, <2>1, <2>2 DEF CellDataInv
<1> QED BY <1>2, <1>3, <1>4, <1>5 DEF CellsNext, PushThread

\* Seen from outside the ring is an atomic bounded queue: the items come out
\* once and in the order in which their producers claimed positions, however
\* many producers there are (try_push, try_pop).
THEOREM CellsImplementFifo == CellsSpec => ClaimsAreFifo
<1>1. CellsInit => CellDataInv
  <2> SUFFICES ASSUME CellsInit PROVE CellDataInv
    OBVIOUS
  <2>1. CellsInv
    BY CellsStart
  <2> QED BY <2>1 DEF CellsInit, CellDataInv
<1>2. CellsInit => ClaimQueue!Init
  <2> SUFFICES ASSUME CellsInit PROVE ClaimQueue!Init
    OBVIOUS
  <2>1. Claimed \in Seq(Items \cup {NoData}) /\ Len(Claimed) = 0
    BY CellsStart, ClaimedType DEF CellsInit, FirstClaimed
  <2>2. Claimed = << >>
    BY <2>1
  <2> QED BY <2>2 DEF CellsInit, ClaimQueue!Init
<1>3. CellDataInv /\ CellsInv' /\ [CellsNext]_cellsVars => CellDataInv'
  BY CellDataKept
<1>4. CellDataInv /\ [CellsNext]_cellsVars => [ClaimQueue!Next]_<<Claimed, popped>>
  BY CellStepRefines
<1> QED BY <1>1, <1>2, <1>3, <1>4, CellsInvariant, PTL DEF CellsSpec, ClaimsAreFifo, ClaimQueue!Spec

=============================================================================
