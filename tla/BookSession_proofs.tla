------------------------- MODULE BookSession_proofs -------------------------
(***************************************************************************)
(* Whatever sequence of calls is made on an order book, it stays           *)
(* consistent, an order keeps its place, and a call that fails changes     *)
(* nothing; and whatever sequence of calls is made on the pool its nodes   *)
(* come from, the free list stays intact.  For any number of prices and    *)
(* any width of a bitmap word, the three price indices agree.              *)
(***************************************************************************)
EXTENDS BookSession, SlabPoolSession, PriceIndexVariants, OrderBook_proofs

USE SMT, Zenon, SMTT(20), ZenonT(30)

\* The inductive invariant.  To the soundness of the book it adds what keeps
\* it sound: a new sequence number is above those of all resting orders, and
\* only limit orders rest.
SessionInv ==
  /\ BookInv(book)
  /\ QuantitiesMatchQueues(book)
  /\ next_sequence \in Nat
  /\ \A id \in Resting(book) :
       /\ book.order_index[id].order.sequence < next_sequence
       /\ book.order_index[id].order.type = "Limit"

\* A call leaves the sequence number of an order as it is, or replaces the
\* order and gives it a new one.
SequencesKept ==
  \A id \in Resting(book) \cap Resting(book') :
    \/ book'.order_index[id].order.sequence = book.order_index[id].order.sequence
    \/ /\ last'.op = "replace" /\ last'.id = id
       /\ book'.order_index[id].order.sequence = next_sequence

\* A sequenced request is an order.
LEMMA SequencedOrder ==
  ASSUME NEW t \in Terms, NEW n \in Nat
  PROVE  /\ Sequenced(t, n) \in Order
         /\ Sequenced(t, n).sequence = n
         /\ Sequenced(t, n).id = t.id
  BY DEF Sequenced, Terms, Order

\* The book after the order u, sequenced now, is stored in the book b, whose
\* orders are those of the invariant.
LEMMA StoreKeepsInv ==
  ASSUME NEW b, BookInv(b), QuantitiesMatchQueues(b), NEW n \in Nat, NEW u \in Order,
         \A id \in Resting(b) : /\ b.order_index[id].order.sequence < n
                                /\ b.order_index[id].order.type = "Limit",
         add_error(b, u) = "None", u.sequence = n
  PROVE  /\ BookInv(Rest(b, u))
         /\ QuantitiesMatchQueues(Rest(b, u))
         /\ \A id \in Resting(b) : Rest(b, u).order_index[id] = b.order_index[id]
         /\ Rest(b, u).order_index[u.id].order = u
         /\ \A id \in Resting(Rest(b, u)) :
              /\ Rest(b, u).order_index[id].order.sequence < n + 1
              /\ Rest(b, u).order_index[id].order.type = "Limit"
<1> DEFINE c == Rest(b, u)
<1>0. QuantitiesMatchQueues(c)
  BY RestKeepsQuantities
<1>1. /\ BookInv(c)
      /\ Resting(c) = Resting(b) \cup {u.id}
      /\ \A id \in Resting(b) : c.order_index[id] = b.order_index[id]
      /\ c.order_index[u.id].order = u
  BY RestSound
<1>2. u.type = "Limit"
  BY DEF add_error
<1>3. \A id \in Resting(b) : b.order_index[id].order.sequence \in Nat
  BY BookTypes DEF BookInv, Order
<1> HIDE DEF c
<1>4. ASSUME NEW id \in Resting(c)
      PROVE  c.order_index[id].order.sequence < n + 1 /\ c.order_index[id].order.type = "Limit"
  <2>1. CASE id = u.id
    BY <1>1, <1>2, <2>1
  <2>2. CASE id # u.id
    BY <1>1, <1>3, <2>2
  <2> QED
    BY <2>1, <2>2
<1> QED
  BY <1>0, <1>1, <1>4 DEF c

\* Storing an order that add may refuse keeps the invariant.
LEMMA AddKeepsInv ==
  ASSUME SessionInv, NEW t \in NewOrders, Add(t)
  PROVE  SessionInv' /\ SequencesKept /\ (last'.error # "None" => book' = book)
<1> DEFINE o == Sequenced(t, next_sequence)
<1>1. next_sequence \in Nat /\ next_sequence' = next_sequence + 1
  BY DEF SessionInv, Add, TakesSequence
<1>2. o \in Order /\ o.sequence = next_sequence
  BY <1>1, SequencedOrder, SessionAssumption
<1>3. /\ book' = IF add_error(book, o) = "None" THEN Rest(book, o) ELSE book
      /\ last'.error = add_error(book, o)
  BY DEF Add, Returns, add
<1> HIDE DEF o
<1>4. CASE add_error(book, o) = "None"
  BY <1>1, <1>2, <1>3, <1>4, StoreKeepsInv DEF SessionInv, SequencesKept
<1>5. CASE add_error(book, o) # "None"
  <2>1. book' = book
    BY <1>3, <1>5
  <2>2. \A id \in Resting(book) : book.order_index[id].order.sequence \in Nat
    BY BookTypes DEF SessionInv, BookInv, Order
  <2> QED
    BY <1>1, <2>1, <2>2 DEF SessionInv, SequencesKept
<1> QED
  BY <1>3, <1>4, <1>5

\* So does taking an order out.
LEMMA CancelKeepsInv ==
  ASSUME SessionInv, NEW id \in OrderIds, Cancel(id)
  PROVE  SessionInv' /\ SequencesKept /\ (last'.error # "None" => book' = book)
<1>1. next_sequence' = next_sequence
  BY DEF Cancel
<1>2. CASE id \notin Resting(book)
  <2>1. book' = book
    BY <1>2 DEF Cancel, Returns, cancel
  <2> QED
    BY <1>1, <2>1 DEF SessionInv, SequencesKept
<1>3. CASE id \in Resting(book)
  <2>1. book' = Without(book, id) /\ last'.error = "None"
    BY <1>3 DEF Cancel, Returns, cancel
  <2>2. QuantitiesMatchQueues(book')
    BY <1>3, <2>1, WithoutKeepsQuantities DEF SessionInv
  <2> QED
    BY <1>1, <1>3, <2>1, <2>2, WithoutSound DEF SessionInv, SequencesKept
<1> QED
  BY <1>2, <1>3

\* So does a fill.
LEMMA ReduceKeepsInv ==
  ASSUME SessionInv, NEW id \in OrderIds, NEW q \in Quantities, ReduceQuantity(id, q)
  PROVE  SessionInv' /\ SequencesKept /\ (last'.error # "None" => book' = book)
<1>1. next_sequence' = next_sequence /\ q \in Int
  BY SessionAssumption DEF ReduceQuantity
<1>2. /\ book' = reduce_quantity(book, id, q).book
      /\ last'.error = reduce_quantity(book, id, q).error
  BY DEF ReduceQuantity, Returns
<1>3. CASE /\ id \in Resting(book)
           /\ 0 < q /\ q <= book.order_index[id].order.remaining
  <2>1. /\ last'.error = "None"
        /\ BookInv(book')
        /\ KeepsTerms(book, book')
    BY <1>1, <1>2, <1>3, ReduceSound DEF SessionInv
  <2>2. QuantitiesMatchQueues(book')
    BY <1>1, <1>2, <1>3, ReduceKeepsQuantities DEF SessionInv
  <2> QED
    BY <1>1, <2>1, <2>2 DEF SessionInv, KeepsTerms, SequencesKept
<1>4. CASE ~(/\ id \in Resting(book)
             /\ 0 < q /\ q <= book.order_index[id].order.remaining)
  <2>1. id \in Resting(book) => book.order_index[id].order.remaining \in Int
    BY BookTypes DEF SessionInv, BookInv, Order
  <2>2. book' = book
    BY <1>1, <1>2, <1>4, <2>1 DEF reduce_quantity
  <2> QED
    BY <1>1, <2>2 DEF SessionInv, SequencesKept
<1> QED
  BY <1>3, <1>4

\* So does a replace, which never takes its last error branch.
LEMMA ReplaceKeepsInv ==
  ASSUME SessionInv, NEW id \in OrderIds, NEW p \in Prices, NEW q \in Quantities,
         Replace(id, p, q)
  PROVE  SessionInv' /\ SequencesKept /\ (last'.error # "None" => book' = book)
<1> DEFINE o == book.order_index[id].order
           u == Updated(o, p, q, next_sequence)
           b == Without(book, id)
<1>1. /\ next_sequence \in Nat /\ next_sequence' = next_sequence + 1
      /\ p \in Int /\ q \in Int
  BY SessionAssumption DEF SessionInv, Replace, TakesSequence
<1>2. /\ book' = replace(book, id, p, q, next_sequence).book
      /\ last'.op = "replace" /\ last'.id = id
      /\ last'.error = replace(book, id, p, q, next_sequence).error
  BY DEF Replace, Returns
<1>3. CASE id \in Resting(book) /\ q > 0 /\ index_of(p) # NoIndex
  <2>1. o \in Order /\ o.id = id /\ o.type = "Limit"
    BY <1>3, BookTypes, QueuedIffResting DEF SessionInv, BookInv
  <2>2. /\ u \in Order /\ u.id = id /\ u.type = "Limit" /\ u.remaining > 0
        /\ u.price = p /\ u.sequence = next_sequence
    <3> HIDE DEF o
    <3> QED
      BY <1>1, <1>3, <2>1, UpdatedOrder
  <2>3. replace(book, id, p, q, next_sequence) =
          [error |-> IF add(b, u).error = "None" THEN "None" ELSE "PoolExhausted",
           book |-> add(b, u).book]
    BY <1>1, <1>3 DEF replace
  <2> HIDE DEF u
  <2>4. add_error(b, u) = "None"
    BY <1>3, <2>2, ReplacedFitsBack DEF SessionInv
  <2>5. book' = Rest(b, u) /\ last'.error = "None"
    BY <1>2, <2>3, <2>4 DEF add
  <2>6. /\ BookInv(b)
        /\ Resting(b) = Resting(book) \ {id}
        /\ \A k \in Resting(b) : b.order_index[k] = book.order_index[k]
        /\ \A k \in Resting(b) : /\ b.order_index[k].order.sequence < next_sequence
                                 /\ b.order_index[k].order.type = "Limit"
    BY <1>3, WithoutSound DEF SessionInv
  <2>7. QuantitiesMatchQueues(b)
    BY <1>3, WithoutKeepsQuantities DEF SessionInv
  <2> HIDE DEF b
  <2>8. /\ SessionInv'
        /\ \A k \in Resting(b) : book'.order_index[k] = b.order_index[k]
        /\ book'.order_index[id].order = u
    BY <1>1, <2>2, <2>4, <2>5, <2>6, <2>7, StoreKeepsInv DEF SessionInv
  <2>9. SequencesKept
    BY <1>2, <2>2, <2>6, <2>8 DEF SequencesKept
  <2> QED
    BY <2>5, <2>8, <2>9
<1>4. CASE ~(id \in Resting(book) /\ q > 0 /\ index_of(p) # NoIndex)
  <2>1. book' = book
    BY <1>1, <1>2, <1>4 DEF replace
  <2>2. \A k \in Resting(book) : book.order_index[k].order.sequence \in Nat
    BY BookTypes DEF SessionInv, BookInv, Order
  <2> QED
    BY <1>1, <2>1, <2>2 DEF SessionInv, SequencesKept
<1> QED
  BY <1>3, <1>4

\* The invariant holds of the new book, and every call preserves it.
LEMMA SessionInvariant == Spec => []SessionInv
<1>1. Init => SessionInv
  BY EmptyBookSound, EmptyBookQuantities DEF Init, SessionInv
<1>2. SessionInv /\ [Next]_vars => SessionInv'
  <2> SUFFICES ASSUME SessionInv, [Next]_vars PROVE SessionInv'
    OBVIOUS
  <2>1. CASE Next
    BY <2>1, AddKeepsInv, CancelKeepsInv, ReduceKeepsInv, ReplaceKeepsInv DEF Next
  <2>2. CASE UNCHANGED vars
    BY <2>2 DEF SessionInv, vars
  <2> QED
    BY <2>1, <2>2
<1> QED
  BY <1>1, <1>2, PTL DEF Spec

\* The type invariant of the session.
THEOREM SessionTypeCorrect == Spec => []TypeOK
<1>1. SessionInv => TypeOK
  BY DEF SessionInv, TypeOK, BookInv, WellFormed
<1> QED
  BY <1>1, SessionInvariant, PTL

\* Whatever calls are made on an order book, its queues, its index, its
\* bitmaps, its best prices and its pool agree.
THEOREM SessionStructured == Spec => []BookStructured
<1>1. SessionInv => BookStructured
  BY DEF SessionInv, BookInv, BookStructured
<1> QED
  BY <1>1, SessionInvariant, PTL

\* Whatever calls are made on an order book, the aggregate quantity of every
\* level is what the orders queued in it have open.
THEOREM SessionQuantities == Spec => []QuantitiesAgree
<1>1. SessionInv => QuantitiesAgree
  BY DEF SessionInv, QuantitiesAgree
<1> QED
  BY <1>1, SessionInvariant, PTL

\* A call on an order book that returns an error has changed nothing; replace
\* never loses the order it takes out.
THEOREM SessionErrors == Spec => ErrorChangesNothing
<1>1. SessionInv /\ [Next]_vars => [last'.error # "None" => book' = book]_vars
  <2> SUFFICES ASSUME SessionInv, Next PROVE last'.error # "None" => book' = book
    OBVIOUS
  <2> QED
    BY AddKeepsInv, CancelKeepsInv, ReduceKeepsInv, ReplaceKeepsInv DEF Next
<1> QED
  BY <1>1, SessionInvariant, PTL DEF Spec, ErrorChangesNothing

\* Of two orders of one queue, the first stays before the second while both
\* rest there and it is not replaced: queues are in the order of the sequence
\* numbers before and after the call, and the call changes the number of a
\* replaced order only, to one above all others.
THEOREM SessionPriority == Spec => PriorityKept
<1> DEFINE A == \A s \in Sides, i \in Indices :
                  LET old == book.ladder[s].levels[i].fifo
                      new == book'.ladder[s].levels[i].fifo
                  IN  \A j, k \in DOMAIN old, m, n \in DOMAIN new :
                        /\ j < k /\ m < n
                        /\ old[j] = new[n] /\ old[k] = new[m]
                        => last'.op = "replace" /\ last'.id = old[j]
<1>1. SessionInv /\ [Next]_vars => [A]_vars
  <2> SUFFICES ASSUME SessionInv, Next PROVE A
    BY Zenon
  <2>1. SessionInv' /\ SequencesKept
    BY AddKeepsInv, CancelKeepsInv, ReduceKeepsInv, ReplaceKeepsInv DEF Next
  <2> DEFINE time(id) == book.order_index[id].order.sequence
             after(id) == book'.order_index[id].order.sequence
  <2>2. \A id \in Resting(book) : time(id) \in Nat /\ time(id) < next_sequence
    BY BookTypes DEF SessionInv, BookInv, Order
  <2>3. ASSUME NEW s \in Sides, NEW i \in Indices,
               NEW j \in DOMAIN Queue(book, s, i), NEW k \in DOMAIN Queue(book, s, i),
               NEW m \in DOMAIN Queue(book', s, i), NEW n \in DOMAIN Queue(book', s, i),
               j < k, m < n,
               Queue(book, s, i)[j] = Queue(book', s, i)[n],
               Queue(book, s, i)[k] = Queue(book', s, i)[m]
        PROVE  last'.op = "replace" /\ last'.id = Queue(book, s, i)[j]
    <3> DEFINE x == Queue(book, s, i)[j]
               y == Queue(book, s, i)[k]
    <3>1. /\ x \in Resting(book) /\ y \in Resting(book)
          /\ time(x) < time(y)
      BY ZenonT(30), <2>3 DEF SessionInv, BookInv, Structured, QueuesMatchIndex, QueuesInTimeOrder, Queue
    <3>2. /\ Queue(book', s, i)[n] \in Resting(book') /\ Queue(book', s, i)[m] \in Resting(book')
          /\ after(Queue(book', s, i)[m]) < after(Queue(book', s, i)[n])
      <4>1. QueuesMatchIndex(book') /\ QueuesInTimeOrder(book')
        BY <2>1 DEF SessionInv, BookInv, Structured
      <4> QED
        BY Zenon, <2>3, <4>1 DEF QueuesMatchIndex, QueuesInTimeOrder, Queue
    <3>3. x \in Resting(book') /\ y \in Resting(book') /\ after(y) < after(x)
      <4> HIDE DEF after
      <4> QED
        BY <2>3, <3>2
    <3>4. /\ after(x) = time(x) \/ (last'.op = "replace" /\ last'.id = x)
          /\ after(y) = time(y) \/ after(y) = next_sequence
      BY <2>1, <3>1, <3>3 DEF SequencesKept
    <3>5. next_sequence \in Nat
      BY DEF SessionInv
    <3> HIDE DEF x, y, time, after
    <3>6. last'.op = "replace" /\ last'.id = x
      BY <2>2, <3>1, <3>3, <3>4, <3>5
    <3> QED
      BY <3>6 DEF x
  <2>4. \A s \in Sides, i \in Indices :
          \A j, k \in DOMAIN Queue(book, s, i), m, n \in DOMAIN Queue(book', s, i) :
            /\ j < k /\ m < n
            /\ Queue(book, s, i)[j] = Queue(book', s, i)[n]
            /\ Queue(book, s, i)[k] = Queue(book', s, i)[m]
            => last'.op = "replace" /\ last'.id = Queue(book, s, i)[j]
    <3> TAKE s \in Sides, i \in Indices
    <3> TAKE j, k \in DOMAIN Queue(book, s, i), m, n \in DOMAIN Queue(book', s, i)
    <3> HAVE /\ j < k /\ m < n
             /\ Queue(book, s, i)[j] = Queue(book', s, i)[n]
             /\ Queue(book, s, i)[k] = Queue(book', s, i)[m]
    <3> QED
      BY <2>3
  <2> QED
    BY <2>4, Zenon DEF Queue
<1> HIDE DEF A
<1>2. Spec => [][A]_vars
  BY <1>1, SessionInvariant, PTL DEF Spec
<1> QED
  BY <1>2 DEF PriorityKept, A

-----------------------------------------------------------------------------
(* The pool.                                                               *)

\* The inductive invariant: FreeListIntact, with the types of its state.
PoolInv ==
  /\ pool \in PoolType
  /\ live \subseteq Slots
  /\ free \in Seq(Slots)
  /\ FreeListIntact

\* There are finitely many slots.
LEMMA SlotsFinite == IsFiniteSet(Slots)
  BY PoolAssumption, FS_Interval DEF Slots

\* What the two operations do to the fields of a pool.
LEMMA AllocateFields ==
  ASSUME NEW p \in PoolType, p.free_head # kNone
  PROVE  LET q == allocate(p).pool
         IN  /\ q \in PoolType
             /\ q.next_free = p.next_free
             /\ q.free_head = p.next_free[p.free_head]
             /\ q.live_count = p.live_count + 1
             /\ allocate(p).slot = p.free_head
  BY DEF allocate, PoolType

LEMMA DeallocateFields ==
  ASSUME NEW p \in PoolType, NEW idx \in Slots
  PROVE  LET q == deallocate(p, idx)
         IN  /\ q \in PoolType
             /\ q.next_free = [p.next_free EXCEPT ![idx] = p.free_head]
             /\ q.free_head = idx
             /\ q.live_count = p.live_count - 1
  BY DEF deallocate, PoolType

\* A fresh pool hands out its slots in order.
LEMMA FreshPool == PoolInit => PoolInv
  <1> SUFFICES ASSUME PoolInit PROVE PoolInv
    OBVIOUS
  <1> USE PoolAssumption
  <1>1. /\ pool \in PoolType
        /\ live \subseteq Slots
    BY DEF PoolInit, PoolType, NewPool, Slots, kNone
  <1>2. free \in Seq(Slots) /\ Len(free) = Capacity
    BY DEF PoolInit, Slots
  <1>3. Threaded(pool, free)
    <2>1. /\ pool.free_head = 0
          /\ pool.next_free = [i \in Slots |-> IF i + 1 < Capacity THEN i + 1 ELSE kNone]
          /\ free = [k \in 1 .. Capacity |-> k - 1]
      BY DEF PoolInit, NewPool
    <2>2. free # << >> /\ free[1] = 0
      BY <1>2, <2>1
    <2>3. ASSUME NEW k \in 1 .. Len(free)
          PROVE  pool.next_free[free[k]] = IF k = Len(free) THEN kNone ELSE free[k + 1]
      <3>1. k \in 1 .. Capacity /\ free[k] = k - 1 /\ k - 1 \in Slots
        BY <1>2, <2>1 DEF Slots
      <3>2. pool.next_free[k - 1] = IF k < Capacity THEN k ELSE kNone
        BY <2>1, <3>1
      <3> QED BY <1>2, <2>1, <3>1, <3>2
    <2> QED BY <2>1, <2>2, <2>3 DEF Threaded
  <1>4. IsInjective(free)
    BY DEF IsInjective, PoolInit
  <1>5. Range(free) = Slots \ live
    <2>1. ASSUME NEW i \in Slots PROVE i \in Range(free)
      <3>1. i + 1 \in DOMAIN free /\ free[i + 1] = i
        BY DEF PoolInit, Slots
      <3> QED BY <3>1 DEF Range
    <2>2. Range(free) \subseteq Slots
      BY DEF PoolInit, Range, Slots
    <2> QED BY Zenon, <2>1, <2>2 DEF PoolInit
  <1>6. pool.live_count = Cardinality(live)
    BY FS_EmptySet DEF PoolInit, NewPool
  <1> QED BY <1>1, <1>2, <1>3, <1>4, <1>5, <1>6 DEF PoolInv, FreeListIntact

\* allocate gives out the first slot of the list, or nothing when the list is
\* empty, and leaves the rest of the list.
LEMMA AllocateKeeps == PoolInv /\ Allocate => PoolInv'
  <1> SUFFICES ASSUME PoolInv, Allocate PROVE PoolInv'
    OBVIOUS
  <1> USE PoolAssumption
  <1>1. CASE free = << >>
    <2>1. pool.free_head = kNone
      BY <1>1 DEF PoolInv, FreeListIntact, Threaded
    <2>2. UNCHANGED poolVars
      BY <1>1, <2>1 DEF Allocate, allocate, poolVars
    <2> QED BY <2>2 DEF PoolInv, FreeListIntact, poolVars, Threaded
  <1>2. CASE free # << >>
    <2> DEFINE h == pool.free_head
    <2>1. /\ free \in Seq(Slots) /\ Len(free) >= 1
          /\ h = free[1] /\ h \in Slots /\ h # kNone
      BY <1>2 DEF PoolInv, FreeListIntact, Threaded, Slots, kNone
    <2>2. /\ pool' \in PoolType
          /\ pool'.next_free = pool.next_free
          /\ pool'.free_head = pool.next_free[h]
          /\ pool'.live_count = pool.live_count + 1
          /\ live' = live \cup {h}
          /\ free' = Tail(free)
      BY <1>2, <2>1, AllocateFields DEF Allocate, PoolInv
    <2>3. /\ free' \in Seq(Slots) /\ Len(free') = Len(free) - 1
          /\ \A k \in 1 .. Len(free') : free'[k] = free[k + 1]
      BY <2>1, <2>2
    <2>4. pool' \in PoolType /\ live' \subseteq Slots
      BY <2>1, <2>2 DEF PoolInv
    <2>5. Threaded(pool', free')
      <3>1. pool'.free_head = IF free' = << >> THEN kNone ELSE free'[1]
        <4>1. pool.next_free[free[1]] = IF 1 = Len(free) THEN kNone ELSE free[2]
          <5>1. \A k \in 1 .. Len(free) :
                  pool.next_free[free[k]] = IF k = Len(free) THEN kNone ELSE free[k + 1]
            BY DEF PoolInv, FreeListIntact, Threaded
          <5>2. 1 \in 1 .. Len(free) /\ 1 + 1 = 2
            BY <2>1
          <5> QED BY Zenon, <5>1, <5>2
        <4>2. free' = << >> <=> Len(free) = 1
          BY <2>1, <2>3
        <4>3. Len(free) # 1 => free'[1] = free[2]
          BY <2>1, <2>3
        <4> QED BY <2>1, <2>2, <4>1, <4>2, <4>3
      <3>2. ASSUME NEW k \in 1 .. Len(free')
            PROVE  pool'.next_free[free'[k]] = IF k = Len(free') THEN kNone ELSE free'[k + 1]
        <4>1. pool'.next_free = pool.next_free
          BY <2>2
        <4>2. k + 1 \in 1 .. Len(free) /\ free'[k] = free[k + 1]
          BY <2>1, <2>3
        <4>3. pool.next_free[free[k + 1]]
                = IF k + 1 = Len(free) THEN kNone ELSE free[k + 2]
          BY <4>2 DEF PoolInv, FreeListIntact, Threaded
        <4>4. k # Len(free') => free'[k + 1] = free[k + 2]
          BY <2>1, <2>3
        <4> QED BY <2>1, <2>3, <4>1, <4>2, <4>3, <4>4
      <3> QED BY <3>1, <3>2 DEF Threaded
    <2>6. IsInjective(free')
      <3>1. ASSUME NEW j \in 1 .. Len(free'), NEW k \in 1 .. Len(free'), free'[j] = free'[k]
            PROVE  j = k
        <4>1. /\ j + 1 \in DOMAIN free /\ k + 1 \in DOMAIN free
              /\ free[j + 1] = free[k + 1]
          BY <2>1, <2>3, <3>1
        <4>2. j + 1 = k + 1
          BY <4>1 DEF PoolInv, FreeListIntact, IsInjective
        <4> QED BY <4>2
      <3> QED BY <2>3, <3>1 DEF IsInjective
    <2>7. Range(free') = Slots \ live'
      <3>1. ASSUME NEW i \in Range(free') PROVE i \in Range(free) /\ i # h
        <4>1. PICK k \in 1 .. Len(free') : i = free'[k]
          BY <2>3, <3>1 DEF Range
        <4>2. k + 1 \in 1 .. Len(free) /\ i = free[k + 1] /\ k + 1 # 1
          BY <2>1, <2>3, <4>1
        <4> QED BY <2>1, <4>2 DEF PoolInv, FreeListIntact, IsInjective, Range
      <3>2. ASSUME NEW i \in Range(free), i # h PROVE i \in Range(free')
        <4>1. PICK k \in 1 .. Len(free) : i = free[k]
          BY <2>1 DEF Range
        <4>2. k - 1 \in 1 .. Len(free') /\ i = free'[k - 1]
          BY <2>1, <2>3, <3>2, <4>1
        <4> QED BY <2>3, <4>2 DEF Range
      <3> QED BY <2>1, <2>2, <3>1, <3>2 DEF PoolInv, FreeListIntact
    <2>8. pool'.live_count = Cardinality(live')
      <3>1. h \notin live
        <4>1. h \in Range(free)
          BY <2>1 DEF Range
        <4> QED BY <4>1 DEF PoolInv, FreeListIntact
      <3>2. IsFiniteSet(live)
        BY SlotsFinite, FS_Subset DEF PoolInv
      <3>3. Cardinality(live') = Cardinality(live) + 1
        BY Zenon, <2>2, <3>1, <3>2, FS_AddElement
      <3> QED BY <2>2, <3>3 DEF PoolInv, FreeListIntact, PoolType
    <2> QED BY <2>3, <2>4, <2>5, <2>6, <2>7, <2>8 DEF PoolInv, FreeListIntact
  <1> QED BY <1>1, <1>2

\* deallocate puts a slot that a caller held at the head of the list.
LEMMA DeallocateKeeps ==
  ASSUME PoolInv, NEW idx \in Slots, Deallocate(idx)
  PROVE  PoolInv'
  <1> USE PoolAssumption
  <1>1. /\ free \in Seq(Slots) /\ idx \in live /\ idx \notin Range(free)
        /\ pool \in PoolType
    BY DEF PoolInv, FreeListIntact, Deallocate
  <1>2. /\ pool'.next_free = [pool.next_free EXCEPT ![idx] = pool.free_head]
        /\ pool'.free_head = idx
        /\ pool'.live_count = pool.live_count - 1
        /\ pool' \in PoolType
        /\ live' = live \ {idx}
    BY Zenon, <1>1, DeallocateFields DEF Deallocate
  <1>3. /\ free' \in Seq(Slots) /\ Len(free') = Len(free) + 1
        /\ free'[1] = idx
        /\ \A k \in 2 .. Len(free') : free'[k] = free[k - 1]
    BY <1>1 DEF Deallocate
  <1>4. \A k \in 1 .. Len(free) : free[k] # idx
    BY <1>1 DEF Range
  <1>5. Threaded(pool', free')
    <2>1. ASSUME NEW k \in 1 .. Len(free')
          PROVE  pool'.next_free[free'[k]] = IF k = Len(free') THEN kNone ELSE free'[k + 1]
      <3>1. CASE k = 1
        <4>1. pool'.next_free[free'[k]] = pool.free_head
          BY <1>1, <1>2, <1>3, <3>1 DEF PoolType
        <4>2. pool.free_head = IF free = << >> THEN kNone ELSE free[1]
          BY DEF PoolInv, FreeListIntact, Threaded
        <4>3. free = << >> <=> Len(free) = 0
          BY <1>1
        <4> QED BY <1>1, <1>3, <3>1, <4>1, <4>2, <4>3
      <3>2. CASE k # 1
        <4>1. k - 1 \in 1 .. Len(free) /\ free'[k] = free[k - 1] /\ free[k - 1] \in Slots
          BY <1>1, <1>3, <3>2
        <4>2. pool'.next_free[free'[k]] = pool.next_free[free[k - 1]]
          BY <1>1, <1>2, <1>4, <4>1 DEF PoolType
        <4>3. pool.next_free[free[k - 1]]
                = IF k - 1 = Len(free) THEN kNone ELSE free[k - 1 + 1]
          BY <4>1 DEF PoolInv, FreeListIntact, Threaded
        <4>4. k # Len(free') => free'[k + 1] = free[k]
          BY <1>1, <1>3, <3>2
        <4> QED BY <1>1, <1>3, <4>1, <4>2, <4>3, <4>4
      <3> QED BY <3>1, <3>2
    <2>2. free' # << >>
      BY <1>1, <1>3
    <2> QED BY <1>2, <1>3, <2>1, <2>2 DEF Threaded
  <1>6. IsInjective(free')
    <2>1. ASSUME NEW j \in 1 .. Len(free'), NEW k \in 1 .. Len(free'), free'[j] = free'[k]
          PROVE  j = k
      <3>1. CASE j = 1 \/ k = 1
        BY <1>1, <1>3, <1>4, <2>1, <3>1
      <3>2. CASE j # 1 /\ k # 1
        <4>1. /\ j - 1 \in 1 .. Len(free) /\ k - 1 \in 1 .. Len(free)
              /\ free[j - 1] = free[k - 1]
          BY <1>1, <1>3, <2>1, <3>2
        <4>2. j - 1 = k - 1
          BY <1>1, <4>1 DEF PoolInv, FreeListIntact, IsInjective
        <4> QED BY <4>2
      <3> QED BY <3>1, <3>2
    <2> QED BY <1>3, <2>1 DEF IsInjective
  <1>7. Range(free') = Slots \ live'
    <2>1. ASSUME NEW i \in Range(free') PROVE i = idx \/ i \in Range(free)
      <3>1. PICK k \in 1 .. Len(free') : i = free'[k]
        BY <1>3, <2>1 DEF Range
      <3>2. k # 1 => k - 1 \in 1 .. Len(free) /\ i = free[k - 1]
        BY <1>1, <1>3, <3>1
      <3> QED BY <1>1, <1>3, <3>1, <3>2 DEF Range
    <2>2. idx \in Range(free')
      BY <1>1, <1>3 DEF Range
    <2>3. ASSUME NEW i \in Range(free) PROVE i \in Range(free')
      <3>1. PICK k \in 1 .. Len(free) : i = free[k]
        BY <1>1, <2>3 DEF Range
      <3>2. k + 1 \in 1 .. Len(free') /\ i = free'[k + 1]
        <4>1. k \in Nat /\ Len(free) \in Nat /\ k + 1 \in 1 .. Len(free') /\ k + 1 # 1
          BY <1>1, <1>3, <3>1
        <4>2. (k + 1) - 1 = k
          BY <4>1
        <4>3. free'[k + 1] = free[(k + 1) - 1]
          BY <1>3, <4>1
        <4> QED BY <3>1, <4>1, <4>2, <4>3
      <3> QED BY <1>3, <3>2 DEF Range
    <2> QED BY <1>1, <1>2, <2>1, <2>2, <2>3 DEF PoolInv, FreeListIntact
  <1>8. pool'.live_count = Cardinality(live')
    <2>1. IsFiniteSet(live)
      BY SlotsFinite, FS_Subset DEF PoolInv
    <2>2. Cardinality(live') = Cardinality(live) - 1
      BY Zenon, <1>1, <1>2, <2>1, FS_RemoveElement
    <2> QED BY <1>2, <2>2 DEF PoolInv, FreeListIntact
  <1>9. live' \subseteq Slots
    BY <1>2 DEF PoolInv
  <1> QED BY <1>2, <1>3, <1>5, <1>6, <1>7, <1>8, <1>9 DEF PoolInv, FreeListIntact

\* For every capacity: whatever the sequence of allocate and deallocate, the
\* free list of slab_pool.hpp holds every free slot once and no live one.
THEOREM FreeListStaysIntact == PoolSpec => []FreeListIntact
  <1>1. PoolInv /\ [PoolNext]_poolVars => PoolInv'
    <2> SUFFICES ASSUME PoolInv, [PoolNext]_poolVars PROVE PoolInv'
      OBVIOUS
    <2>1. CASE Allocate
      BY <2>1, AllocateKeeps
    <2>2. ASSUME NEW idx \in Slots, Deallocate(idx) PROVE PoolInv'
      BY <2>2, DeallocateKeeps
    <2>3. CASE UNCHANGED poolVars
      BY <2>3 DEF poolVars, PoolInv, FreeListIntact, Threaded
    <2> QED BY <2>1, <2>2, <2>3 DEF PoolNext
  <1>2. PoolInv => FreeListIntact
    BY DEF PoolInv
  <1> QED BY FreshPool, <1>1, <1>2, PTL DEF PoolSpec

\* allocate fails only when callers hold every slot: the pool has no hole that
\* neither a caller nor the free list knows of.
THEOREM ExhaustedMeansAllLive ==
  PoolSpec => [](pool.free_head = kNone => live = Slots)
  <1>1. ASSUME FreeListIntact, free \in Seq(Slots), live \subseteq Slots,
               pool.free_head = kNone
        PROVE  live = Slots
    <2>1. free = << >>
      <3> SUFFICES ASSUME free # << >> PROVE FALSE
        OBVIOUS
      <3>1. free[1] \in Slots
        BY <1>1
      <3> QED BY <1>1, <3>1 DEF FreeListIntact, Threaded, Slots, kNone
    <2>2. Range(free) = {}
      BY <2>1 DEF Range
    <2> QED BY Zenon, <1>1, <2>2 DEF FreeListIntact
  <1>2. PoolInv /\ [PoolNext]_poolVars => PoolInv'
    <2>1. ASSUME PoolInv, UNCHANGED poolVars PROVE PoolInv'
      BY <2>1 DEF poolVars, PoolInv, FreeListIntact, Threaded
    <2> QED BY <2>1, AllocateKeeps, DeallocateKeeps DEF PoolNext
  <1>3. PoolInv => (pool.free_head = kNone => live = Slots)
    BY <1>1 DEF PoolInv
  <1> QED BY FreshPool, <1>2, <1>3, PTL DEF PoolSpec

-----------------------------------------------------------------------------
(* The price indices.                                                      *)

\* A bounded set of natural numbers has a maximum.
LEMMA MaxUpTo ==
  ASSUME NEW N \in Nat, NEW T \in SUBSET (0 .. N), T # {}
  PROVE  Max(T) \in T /\ \A y \in T : y <= Max(T)
<1> DEFINE U == {N - y : y \in T}
<1>1. U \in SUBSET Nat /\ U # {}
  <2>1. PICK y \in T : TRUE
    BY Zenon
  <2>2. N - y \in U
    OBVIOUS
  <2>3. \A v \in T : N - v \in Nat
    OBVIOUS
  <2> QED
    BY <2>2, <2>3
<1>2. PICK u \in U : \A v \in U : u <= v
  <2> HIDE DEF U
  <2> QED
    BY <1>1, LeastNatural
<1>3. PICK x \in T : u = N - x
  BY <1>2
<1>4. ASSUME NEW y \in T PROVE x >= y
  <2>1. N - y \in U
    OBVIOUS
  <2>2. u <= N - y
    BY <1>2, <2>1
  <2> QED
    BY <1>3, <2>2
<1>5. Max(T) \in T /\ \A y \in T : Max(T) >= y
  BY <1>4, Zenon DEF Max
<1> QED
  BY <1>5

\* The maximum is the one upper bound in the set.
LEMMA MaxIs ==
  ASSUME NEW T \in SUBSET Int, NEW x \in T, \A y \in T : y <= x
  PROVE  Max(T) = x
<1>1. \A y \in T : x >= y
  OBVIOUS
<1>2. Max(T) \in T /\ \A y \in T : Max(T) >= y
  BY <1>1, Zenon DEF Max
<1>3. Max(T) >= x /\ x >= Max(T) /\ Max(T) \in Int /\ x \in Int
  BY Zenon, <1>1, <1>2
<1> QED
  BY <1>3

\* The words of a bitmap.
Words == [0 .. Bits!NumWords - 1 -> SUBSET (0 .. IndexWordBits - 1)]

\* Bits of a lower word come before those of a higher one.
LEMMA LowerWord ==
  ASSUME NEW j \in Int, NEW k \in Int, j < k
  PROVE  (j + 1) * IndexWordBits <= k * IndexWordBits
<1>1. IndexWordBits \in Int /\ IndexWordBits > 0 /\ k - (j + 1) >= 0 /\ k - (j + 1) \in Int
  BY IndexAssumption
<1>2. (k - (j + 1)) * IndexWordBits >= 0
  BY <1>1
<1>3. (k - (j + 1)) * IndexWordBits = k * IndexWordBits - (j + 1) * IndexWordBits
  BY <1>1
<1>4. (j + 1) * IndexWordBits \in Int /\ k * IndexWordBits \in Int
  BY <1>1
<1> QED
  BY <1>2, <1>3, <1>4

\* Where bit i is: i / 64 and i % 64.
LEMMA Place ==
  ASSUME NEW i \in Nat
  PROVE  /\ i \div IndexWordBits \in Nat
         /\ i % IndexWordBits \in 0 .. IndexWordBits - 1
         /\ i = (i \div IndexWordBits) * IndexWordBits + (i % IndexWordBits)
  BY IndexAssumption

\* The word of a bit and its place in the word are the only ones there are.
LEMMA PlaceIs ==
  ASSUME NEW k \in Nat, NEW b \in 0 .. IndexWordBits - 1
  PROVE  /\ k * IndexWordBits + b \in Nat
         /\ (k * IndexWordBits + b) \div IndexWordBits = k
         /\ (k * IndexWordBits + b) % IndexWordBits = b
<1> DEFINE i == k * IndexWordBits + b
           q == i \div IndexWordBits
           r == i % IndexWordBits
<1>1. i \in Nat /\ k * IndexWordBits \in Int
  BY IndexAssumption
<1> HIDE DEF i
<1>2. q \in Nat /\ r \in 0 .. IndexWordBits - 1 /\ i = q * IndexWordBits + r
  BY <1>1, Place
<1>3. q * IndexWordBits \in Int /\ (q + 1) * IndexWordBits = q * IndexWordBits + IndexWordBits
      /\ (k + 1) * IndexWordBits = k * IndexWordBits + IndexWordBits /\ IndexWordBits \in Int
  BY <1>2, IndexAssumption
<1>4. i = k * IndexWordBits + b
  BY DEF i
<1> HIDE DEF q, r
<1>5. q = k
  <2>1. CASE q < k
    <3>1. (q + 1) * IndexWordBits <= k * IndexWordBits
      BY <1>2, <2>1, LowerWord
    <3> QED
      BY <1>1, <1>2, <1>3, <1>4, <3>1
  <2>2. CASE k < q
    <3>1. (k + 1) * IndexWordBits <= q * IndexWordBits
      BY <1>2, <2>2, LowerWord
    <3> QED
      BY <1>1, <1>2, <1>3, <1>4, <3>1
  <2> QED
    BY <1>2, <2>1, <2>2
<1>6. r = b
  BY <1>1, <1>2, <1>3, <1>4, <1>5
<1> QED
  BY <1>1, <1>5, <1>6 DEF i, q, r

\* The bits of one more word.
LEMMA OneWordMore ==
  ASSUME NEW k \in Int, NEW w \in Int
  PROVE  (k + 1) * w = k * w + w /\ k * w \in Int
  OBVIOUS

\* Every bit has a word.
LEMMA InSomeWord ==
  ASSUME NEW i \in 0 .. NumPrices - 1
  PROVE  i \div IndexWordBits \in 0 .. Bits!NumWords - 1 /\ Bits!NumWords \in Nat
<1> DEFINE n == NumPrices + IndexWordBits - 1
           N == n \div IndexWordBits
           q == i \div IndexWordBits
<1>1. n \in Nat /\ i \in Nat /\ IndexWordBits \in Int
  BY IndexAssumption
<1>2. /\ N \in Nat /\ n = N * IndexWordBits + (n % IndexWordBits)
      /\ n % IndexWordBits \in 0 .. IndexWordBits - 1
  <2> HIDE DEF n
  <2> QED
    BY <1>1, Place
<1>3. /\ q \in Nat /\ i = q * IndexWordBits + (i % IndexWordBits)
      /\ i % IndexWordBits \in 0 .. IndexWordBits - 1
  BY <1>1, Place
<1>4. q < N
  <2> SUFFICES ASSUME N <= q PROVE FALSE
    BY <1>2, <1>3
  <2>1. N < q + 1 /\ q + 1 \in Int
    BY <1>2, <1>3
  <2>2. (N + 1) * IndexWordBits <= (q + 1) * IndexWordBits
    BY <1>2, <2>1, LowerWord
  <2>3. (N + 1) * IndexWordBits = N * IndexWordBits + IndexWordBits
        /\ (q + 1) * IndexWordBits = q * IndexWordBits + IndexWordBits
        /\ N * IndexWordBits \in Int /\ q * IndexWordBits \in Int
    <3>1. N \in Int /\ q \in Int /\ IndexWordBits \in Int
      BY <1>1, <1>2, <1>3
    <3> HIDE DEF N, q
    <3> QED
      BY <3>1, OneWordMore
  <2> QED
    BY <1>1, <1>2, <1>3, <2>2, <2>3, IndexAssumption
<1> QED
  BY <1>2, <1>3, <1>4 DEF Bits!NumWords

\* Counting up from zero in a set reaches every number.
LEMMA CountUp ==
  ASSUME NEW N \in Nat, NEW T, 0 \in T, \A k \in 1 .. N : k - 1 \in T => k \in T
  PROVE  \A k \in 0 .. N : k \in T
<1> DEFINE Bad == {k \in 0 .. N : k \notin T}
<1> SUFFICES ASSUME Bad # {} PROVE FALSE
  OBVIOUS
<1>1. Bad \in SUBSET Nat
  OBVIOUS
<1>2. PICK k \in Bad : \A j \in Bad : k <= j
  <2> HIDE DEF Bad
  <2> QED
    BY <1>1, LeastNatural
<1>3. k \in 1 .. N /\ k \notin T
  BY <1>2
<1>4. k - 1 \in 0 .. N /\ ~(k <= k - 1)
  BY <1>3
<1>5. k - 1 \in T
  BY <1>2, <1>4
<1> QED
  BY <1>3, <1>5

\* The mask of the first word keeps the bits up to the one asked for, the
\* last one of the word included.
LEMMA FirstMask ==
  ASSUME NEW b \in 0 .. IndexWordBits - 1
  PROVE  Bits!first_mask(b) = 0 .. b
<1>1. CASE b = IndexWordBits - 1
  BY <1>1 DEF Bits!first_mask
<1>2. CASE b # IndexWordBits - 1
  <2>1. b + 1 \in Nat /\ b + 1 < IndexWordBits
    BY <1>2, IndexAssumption
  <2>2. (b + 1) % IndexWordBits = b + 1
    BY <2>1, IndexAssumption
  <2>3. Bits!LowBits(b + 1) = 0 .. b + 1 - 1
    BY <2>2 DEF Bits!LowBits
  <2> QED
    BY <1>2, <2>3 DEF Bits!first_mask
<1> QED
  BY <1>1, <1>2

\* The bitmap's maximum is the one the price indices use.
LEMMA SameMax == \A T : Bits!Max(T) = Max(T)
  BY DEF Bits!Max, Max

\* The words that the search from bit i looks at: the first one masked.
Searched(words, i) ==
  LET highest == IF i >= NumPrices THEN NumPrices - 1 ELSE i
  IN  [k \in 0 .. highest \div IndexWordBits |->
         IF k = highest \div IndexWordBits
         THEN words[k] \cap Bits!first_mask(highest % IndexWordBits) ELSE words[k]]

\* The search goes down the words to the first that is not empty.
LEMMA SearchFinds ==
  ASSUME NEW words \in Words, NEW i \in 0 .. NumPrices - 1,
         NEW from, from = i \div IndexWordBits,
         NEW full, full = {k \in 0 .. from : Searched(words, i)[k] # {}}
  PROVE  Bits!find_highest_at_or_below(words, i) =
           IF full = {} THEN None
           ELSE Max(full) * IndexWordBits + Max(Searched(words, i)[Max(full)])
<1> DEFINE highest == IF i >= NumPrices THEN NumPrices - 1 ELSE i
           start == highest \div IndexWordBits
           w(k) == IF k = start THEN words[k] \cap Bits!first_mask(highest % IndexWordBits)
                                ELSE words[k]
           Scan(s) == s = [k \in -1 .. start |->
                             IF k < 0 THEN None
                             ELSE IF w(k) # {} THEN k * IndexWordBits + Bits!Max(w(k))
                             ELSE s[k - 1]]
           scan == CHOOSE s : Scan(s)
           FullUpTo(k) == {j \in 0 .. k : w(j) # {}}
           Top(k) == IF FullUpTo(k) = {} THEN None
                     ELSE Max(FullUpTo(k)) * IndexWordBits + Max(w(Max(FullUpTo(k))))
<1>1. Bits!find_highest_at_or_below(words, i) = scan[start]
  BY IndexAssumption DEF Bits!find_highest_at_or_below, None, Bits!None
<1>2. highest = i /\ start = from /\ from \in Nat
  <2>1. highest = i /\ i \in Nat
    BY IndexAssumption
  <2> QED
    BY <2>1, Place
<1>3. \A k \in 0 .. from : Searched(words, i)[k] = w(k)
  BY <1>2 DEF Searched
<1>4. full = FullUpTo(from)
  BY Zenon, <1>3
<1> HIDE DEF w
<1>5. ASSUME NEW k \in 0 .. from
      PROVE  Top(k) = IF w(k) # {} THEN k * IndexWordBits + Bits!Max(w(k)) ELSE Top(k - 1)
  <2>1. CASE w(k) # {}
    <3>1. k \in FullUpTo(k) /\ FullUpTo(k) \in SUBSET Int /\ \A y \in FullUpTo(k) : y <= k
      BY <1>2, <2>1
    <3>2. Max(FullUpTo(k)) = k
      <4> HIDE DEF FullUpTo
      <4> QED
        BY <3>1, MaxIs
    <3> QED
      BY <2>1, <3>1, <3>2, SameMax
  <2>2. CASE w(k) = {}
    <3>1. FullUpTo(k) = FullUpTo(k - 1)
      BY <1>2, <2>2
    <3> HIDE DEF FullUpTo
    <3> QED
      BY <2>2, <3>1
  <2> QED
    BY <2>1, <2>2
<1>6. Top(-1) = None
  <2>1. FullUpTo(-1) = {}
    OBVIOUS
  <2> QED
    BY <2>1
<1> HIDE DEF Top
<1>7. Scan([k \in -1 .. start |-> Top(k)])
  <2> DEFINE f == [k \in -1 .. start |-> Top(k)]
             g == [k \in -1 .. start |->
                     IF k < 0 THEN None
                     ELSE IF w(k) # {} THEN k * IndexWordBits + Bits!Max(w(k)) ELSE f[k - 1]]
  <2>1. ASSUME NEW k \in -1 .. start PROVE f[k] = g[k]
    <3>1. CASE k = -1
      BY <1>6, <3>1
    <3>2. CASE k # -1
      <4>1. k \in 0 .. from /\ k - 1 \in -1 .. start /\ ~(k < 0)
        BY <1>2, <3>2
      <4>2. f[k - 1] = Top(k - 1)
        BY <4>1
      <4> QED
        BY <1>5, <4>1, <4>2
    <3> QED
      BY <3>1, <3>2
  <2>2. f = g
    BY Zenon, <2>1
  <2> QED
    BY ZenonT(30), <2>2
<1>8. Scan(scan)
  <2> HIDE DEF Scan
  <2> QED
    BY <1>7
<1> HIDE DEF scan
<1> DEFINE T == {k \in Nat : scan[k - 1] = Top(k - 1)}
<1>9. 0 \in T
  BY <1>2, <1>6, <1>8
<1>10. ASSUME NEW k \in 1 .. from + 1, k - 1 \in T PROVE k \in T
  <2>1. k - 1 \in 0 .. from /\ k - 1 \in -1 .. start /\ ~(k - 1 < 0)
    BY <1>2
  <2>2. scan[k - 1] = IF w(k - 1) # {} THEN (k - 1) * IndexWordBits + Bits!Max(w(k - 1))
                      ELSE scan[k - 1 - 1]
    BY Zenon, <1>8, <2>1
  <2>3. scan[k - 1 - 1] = Top(k - 1 - 1)
    BY <1>10
  <2>4. scan[k - 1] = Top(k - 1)
    BY <1>5, <2>1, <2>2, <2>3
  <2> QED
    BY <1>2, <2>4
<1>11. from + 1 \in T
  <2> HIDE DEF T
  <2>1. from + 1 \in Nat /\ from + 1 \in 0 .. from + 1
    BY <1>2
  <2> QED
    BY <1>9, <1>10, <2>1, CountUp
<1>12. scan[start] = Top(from)
  BY <1>2, <1>11
<1>13. full # {} => Max(full) \in 0 .. from
  <2>1. full \in SUBSET (0 .. from)
    OBVIOUS
  <2> QED
    BY Zenon, <1>2, <2>1, MaxUpTo
<1> QED
  BY Zenon, <1>1, <1>3, <1>4, <1>12, <1>13 DEF Top

\* The search returns the highest bit that is set at i or below, across the
\* boundaries of the words.
LEMMA HighestBit ==
  ASSUME NEW words \in Words, NEW i \in 0 .. NumPrices - 1,
         NEW r, r = Bits!find_highest_at_or_below(words, i)
  PROVE  \/ r = None /\ \A j \in 0 .. i : ~Bits!test(words, j)
         \/ r \in 0 .. i /\ Bits!test(words, r) /\ \A j \in r + 1 .. i : ~Bits!test(words, j)
<1> DEFINE from == i \div IndexWordBits
           low == i % IndexWordBits
           w == Searched(words, i)
           full == {k \in 0 .. from : w[k] # {}}
<1>1. /\ i \in Nat /\ IndexWordBits \in Nat /\ NumPrices \in Nat /\ Bits!NumWords \in Nat
      /\ from \in Nat /\ from \in 0 .. Bits!NumWords - 1
      /\ low \in 0 .. IndexWordBits - 1
      /\ i = from * IndexWordBits + low
  BY IndexAssumption, Place, InSomeWord
<1>2. r = IF full = {} THEN None ELSE Max(full) * IndexWordBits + Max(w[Max(full)])
  BY Zenon, SearchFinds
<1>3. w = [k \in 0 .. from |-> IF k = from THEN words[k] \cap Bits!first_mask(low) ELSE words[k]]
  <2>1. (IF i >= NumPrices THEN NumPrices - 1 ELSE i) = i
    BY IndexAssumption
  <2> QED
    BY <2>1, Zenon DEF Searched
<1> HIDE DEF from, low, w
<1>4. \A k \in 0 .. from : words[k] \in SUBSET (0 .. IndexWordBits - 1)
  <2>1. \A k \in 0 .. from : k \in 0 .. Bits!NumWords - 1
    BY <1>1
  <2> QED
    BY <2>1, Zenon DEF Words
<1>5. ASSUME NEW k \in 0 .. from
      PROVE  /\ w[k] \in SUBSET (0 .. IndexWordBits - 1)
             /\ w[k] \in SUBSET words[k]
             /\ k = from => w[k] = words[k] \cap (0 .. low)
             /\ k # from => w[k] = words[k]
  <2>1. Bits!first_mask(low) = 0 .. low
    BY <1>1, FirstMask
  <2>2. w[k] = IF k = from THEN words[k] \cap (0 .. low) ELSE words[k]
    BY <1>3, <2>1
  <2> QED
    BY <1>4, <2>2, Zenon
\* The bits up to i are those of the words searched.
<1>6. ASSUME NEW j \in 0 .. i, Bits!test(words, j)
      PROVE  /\ j \div IndexWordBits \in full
             /\ j % IndexWordBits \in w[j \div IndexWordBits]
  <2> DEFINE k == j \div IndexWordBits
             b == j % IndexWordBits
  <2>1. k \in Nat /\ b \in 0 .. IndexWordBits - 1 /\ j = k * IndexWordBits + b
    BY <1>1, Place
  <2>2. b \in words[k]
    BY <1>6 DEF Bits!test
  <2> HIDE DEF k, b
  <2>3. /\ k * IndexWordBits \in Int /\ from * IndexWordBits \in Int
        /\ (from + 1) * IndexWordBits = from * IndexWordBits + IndexWordBits
    BY <1>1, <2>1
  <2>4. k <= from
    <3> SUFFICES ASSUME from < k PROVE FALSE
      BY <1>1, <2>1
    <3>1. (from + 1) * IndexWordBits <= k * IndexWordBits
      BY <1>1, <2>1, LowerWord
    <3> QED
      BY <1>1, <2>1, <2>3, <3>1
  <2>5. k = from => b \in 0 .. low
    BY <1>1, <2>1, <2>3
  <2>6. k \in 0 .. from /\ b \in w[k]
    <3>1. k \in 0 .. from
      BY <1>1, <2>1, <2>4
    <3> QED
      BY Zenon, <1>5, <2>2, <2>5, <3>1
  <2> QED
    BY <2>6 DEF k, b
<1>7. CASE full = {}
  <2> HIDE DEF full
  <2> QED
    BY <1>2, <1>6, <1>7
<1>8. CASE full # {}
  <2> DEFINE k == Max(full)
             b == Max(w[k])
  <2>1. k \in full /\ \A m \in full : m <= k
    <3>1. full \in SUBSET (0 .. from)
      OBVIOUS
    <3> HIDE DEF full
    <3> QED
      BY Zenon, <1>1, <1>8, <3>1, MaxUpTo
  <2> HIDE DEF k
  <2>2. k \in 0 .. from /\ w[k] # {}
    BY <2>1
  <2>3. b \in w[k] /\ \A m \in w[k] : m <= b
    <3>1. w[k] \in SUBSET (0 .. IndexWordBits - 1)
      BY <1>5, <2>2, Zenon
    <3>2. IndexWordBits - 1 \in Nat
      BY IndexAssumption
    <3> QED
      BY Zenon, <2>2, <3>1, <3>2, MaxUpTo
  <2> HIDE DEF b, full
  <2>4. /\ k \in Nat /\ b \in 0 .. IndexWordBits - 1 /\ b \in words[k]
        /\ k = from => b <= low
    <3>1. /\ b \in 0 .. IndexWordBits - 1 /\ b \in words[k]
          /\ k = from => b \in 0 .. low
      BY Zenon, <1>5, <2>2, <2>3
    <3> QED
      BY <1>1, <2>2, <3>1
  <2>5. r = k * IndexWordBits + b
    BY <1>2, <1>8 DEF k, b
  <2>6. r \in Nat /\ r \div IndexWordBits = k /\ r % IndexWordBits = b
    BY <2>4, <2>5, PlaceIs
  <2>7. Bits!test(words, r)
    BY <2>4, <2>6 DEF Bits!test
  <2>8. /\ k * IndexWordBits \in Int /\ from * IndexWordBits \in Int
        /\ (k + 1) * IndexWordBits = k * IndexWordBits + IndexWordBits
    BY <1>1, <2>4
  <2>9. r <= i
    <3>1. CASE k = from
      BY <1>1, <2>4, <2>5, <2>8, <3>1
    <3>2. CASE k < from
      <4>1. (k + 1) * IndexWordBits <= from * IndexWordBits
        BY <1>1, <2>4, <3>2, LowerWord
      <4> QED
        BY <1>1, <2>4, <2>5, <2>8, <4>1
    <3> QED
      BY <1>1, <2>2, <3>1, <3>2
  <2>10. ASSUME NEW j \in r + 1 .. i, Bits!test(words, j) PROVE FALSE
    <3> DEFINE m == j \div IndexWordBits
               c == j % IndexWordBits
    <3>1. j \in 0 .. i /\ j \in Nat
      BY <1>1, <2>6
    <3>2. m \in full /\ c \in w[m]
      BY <1>6, <2>10, <3>1
    <3>3. m \in Nat /\ c \in 0 .. IndexWordBits - 1 /\ j = m * IndexWordBits + c
      BY <3>1, Place
    <3> HIDE DEF m, c
    <3>4. /\ m * IndexWordBits \in Int
          /\ (m + 1) * IndexWordBits = m * IndexWordBits + IndexWordBits
      BY <1>1, <3>3
    <3>5. CASE m = k
      <4>1. c <= b
        BY <2>3, <3>2, <3>5
      <4> QED
        BY <1>1, <2>4, <2>5, <2>6, <2>8, <3>1, <3>3, <3>5, <4>1
    <3>6. CASE m < k
      <4>1. (m + 1) * IndexWordBits <= k * IndexWordBits
        BY <2>4, <3>3, <3>6, LowerWord
      <4> QED
        BY <1>1, <2>4, <2>5, <2>6, <2>8, <3>1, <3>3, <3>4, <4>1
    <3>7. m <= k
      BY <2>1, <3>2
    <3> QED
      BY <2>4, <3>3, <3>5, <3>6, <3>7
  <2> QED
    BY <1>1, <2>6, <2>7, <2>9, <2>10
<1> QED
  BY <1>7, <1>8

\* set and clear change the one bit.
LEMMA OneBit ==
  ASSUME NEW words \in Words, NEW p \in 0 .. NumPrices - 1
  PROVE  /\ Bits!set(words, p) \in Words /\ Bits!clear(words, p) \in Words
         /\ \A i \in 0 .. NumPrices - 1 :
              /\ Bits!test(Bits!set(words, p), i) <=> i = p \/ Bits!test(words, i)
              /\ Bits!test(Bits!clear(words, p), i) <=> i # p /\ Bits!test(words, i)
<1> DEFINE k == p \div IndexWordBits
           b == p % IndexWordBits
<1>1. p \in Nat /\ k \in 0 .. Bits!NumWords - 1 /\ b \in 0 .. IndexWordBits - 1
      /\ p = k * IndexWordBits + b
  BY Place, InSomeWord
<1>2. /\ Bits!set(words, p) = [words EXCEPT ![k] = @ \cup {b}]
      /\ Bits!clear(words, p) = [words EXCEPT ![k] = @ \ {b}]
  BY DEF Bits!set, Bits!clear
<1> HIDE DEF k, b
<1>3. words[k] \in SUBSET (0 .. IndexWordBits - 1)
  BY <1>1 DEF Words
<1>4. Bits!set(words, p) \in Words /\ Bits!clear(words, p) \in Words
  <2>1. words[k] \cup {b} \in SUBSET (0 .. IndexWordBits - 1)
        /\ words[k] \ {b} \in SUBSET (0 .. IndexWordBits - 1)
    BY <1>1, <1>3, Zenon
  <2> QED
    BY Zenon, <1>1, <1>2, <2>1 DEF Words
<1>5. ASSUME NEW i \in 0 .. NumPrices - 1
      PROVE  /\ Bits!test(Bits!set(words, p), i) <=> i = p \/ Bits!test(words, i)
             /\ Bits!test(Bits!clear(words, p), i) <=> i # p /\ Bits!test(words, i)
  <2> DEFINE m == i \div IndexWordBits
             c == i % IndexWordBits
  <2>1. i \in Nat /\ m \in 0 .. Bits!NumWords - 1 /\ i = m * IndexWordBits + c
    BY Place, InSomeWord
  <2>2. /\ Bits!test(Bits!set(words, p), i) <=> c \in Bits!set(words, p)[m]
        /\ Bits!test(Bits!clear(words, p), i) <=> c \in Bits!clear(words, p)[m]
        /\ Bits!test(words, i) <=> c \in words[m]
    BY Zenon DEF Bits!test
  <2>3. i = p => m = k /\ c = b
    BY DEF k, b
  <2> HIDE DEF m, c
  <2>4. m = k /\ c = b => i = p
    BY <1>1, <2>1
  <2>5. /\ Bits!set(words, p)[m] = IF m = k THEN words[m] \cup {b} ELSE words[m]
        /\ Bits!clear(words, p)[m] = IF m = k THEN words[m] \ {b} ELSE words[m]
    BY Zenon, <1>1, <1>2, <2>1 DEF Words
  <2> QED
    BY <2>2, <2>3, <2>4, <2>5
<1> QED
  BY <1>4, <1>5

\* The vector is sorted and has each price once.
Sorted(v) == \A j, k \in 1 .. Len(v) : j < k => v[j] < v[k]

\* The position that lower_bound returns separates the lower prices.
LEMMA LowerBound ==
  ASSUME NEW v \in Seq(0 .. NumPrices - 1), NEW p \in Nat, Sorted(v),
         NEW n, n = lower_bound(v, p)
  PROVE  /\ n \in 1 .. Len(v) + 1
         /\ \A j \in 1 .. Len(v) : (j < n <=> v[j] < p)
<1> DEFINE T == {k \in DOMAIN v : v[k] >= p} \cup {Len(v) + 1}
<1>1. T \in SUBSET Nat /\ T \in SUBSET (1 .. Len(v) + 1) /\ Len(v) + 1 \in T
  OBVIOUS
<1>2. n \in T /\ \A k \in T : n <= k
  <2>1. n = Min(T)
    BY DEF lower_bound
  <2> HIDE DEF T
  <2>2. \E x \in T : \A y \in T : x <= y
    BY <1>1, LeastNatural
  <2> QED
    BY <2>1, <2>2, Zenon DEF Min
<1>3. ASSUME NEW j \in 1 .. Len(v) PROVE j < n <=> v[j] < p
  <2>1. \A k \in 1 .. Len(v) : v[k] \in Nat
    BY IndexAssumption
  <2>2. ~(v[j] < p) => j \in T
    BY <2>1
  <2>3. n <= Len(v) => n \in 1 .. Len(v) /\ v[n] >= p /\ v[n] \in Nat
    <3> SUFFICES ASSUME n <= Len(v) PROVE n \in 1 .. Len(v) /\ v[n] >= p /\ v[n] \in Nat
      OBVIOUS
    <3>1. n \in DOMAIN v /\ v[n] >= p
      BY <1>2
    <3> QED
      BY <2>1, <3>1
  <2>4. n \in Nat
    BY <1>1, <1>2
  <2> HIDE DEF T
  <2>5. CASE j < n
    BY <1>2, <2>2, <2>4, <2>5
  <2>6. CASE ~(j < n)
    <3>1. n = j \/ n < j
      BY <2>4, <2>6
    <3>2. n \in 1 .. Len(v) /\ v[n] >= p /\ v[n] \in Nat
      BY <2>3, <2>4, <2>6
    <3>3. n < j => v[n] < v[j]
      BY <3>2 DEF Sorted
    <3> QED
      BY <2>1, <2>4, <2>6, <3>1, <3>2, <3>3
  <2> QED
    BY <2>5, <2>6
<1> QED
  BY <1>1, <1>2, <1>3

\* The entries of two sequences joined, and those after an insertion and
\* after an erasure.
LEMMA Joined ==
  ASSUME NEW S, NEW q \in Seq(S), NEW r \in Seq(S)
  PROVE  /\ q \o r \in Seq(S)
         /\ Len(q \o r) = Len(q) + Len(r)
         /\ \A k \in 1 .. Len(q) + Len(r) :
              (q \o r)[k] = IF k <= Len(q) THEN q[k] ELSE r[k - Len(q)]
  OBVIOUS

\* The elements of a sequence with p inserted at position n.
LEMMA Inserted ==
  ASSUME NEW S, NEW v \in Seq(S), NEW p \in S, NEW n \in 1 .. Len(v) + 1
  PROVE  /\ insert_at(v, n, p) \in Seq(S)
         /\ Len(insert_at(v, n, p)) = Len(v) + 1
         /\ \A k \in 1 .. Len(v) + 1 :
              insert_at(v, n, p)[k] = IF k < n THEN v[k] ELSE IF k = n THEN p ELSE v[k - 1]
<1> DEFINE front == SubSeq(v, 1, n - 1)
           back == SubSeq(v, n, Len(v))
<1>1. Len(v) \in Nat /\ n - 1 \in 0 .. Len(v)
  OBVIOUS
<1>2. front \in Seq(S) /\ Len(front) = n - 1 /\ \A k \in 1 .. n - 1 : front[k] = v[k]
  BY <1>1
<1>3. back \in Seq(S) /\ Len(back) = Len(v) - n + 1
      /\ \A k \in 1 .. Len(v) - n + 1 : back[k] = v[n + k - 1]
  BY <1>1
<1> HIDE DEF front, back
<1>4. /\ front \o <<p>> \in Seq(S) /\ Len(front \o <<p>>) = n
      /\ \A k \in 1 .. n : (front \o <<p>>)[k] = IF k < n THEN v[k] ELSE p
  BY <1>1, <1>2
<1>5. insert_at(v, n, p) = (front \o <<p>>) \o back
  BY DEF insert_at, front, back
<1> DEFINE h == front \o <<p>>
<1> HIDE DEF h
<1>6. /\ h \o back \in Seq(S) /\ Len(h \o back) = Len(v) + 1
      /\ \A k \in 1 .. Len(v) + 1 : (h \o back)[k] = IF k <= n THEN h[k] ELSE back[k - n]
  <2>1. h \in Seq(S) /\ Len(h) = n
    BY <1>4 DEF h
  <2>2. Len(h) + Len(back) = Len(v) + 1
    BY <1>1, <1>3, <2>1
  <2>3. back \in Seq(S)
    BY <1>3
  <2>4. /\ h \o back \in Seq(S) /\ Len(h \o back) = Len(h) + Len(back)
        /\ \A k \in 1 .. Len(h) + Len(back) :
             (h \o back)[k] = IF k <= Len(h) THEN h[k] ELSE back[k - Len(h)]
    BY Zenon, <2>1, <2>3, Joined
  <2> QED
    BY <2>1, <2>2, <2>4, Zenon
<1>7. ASSUME NEW k \in 1 .. Len(v) + 1, k > n PROVE back[k - n] = v[k - 1]
  BY <1>1, <1>3, <1>7
<1> QED
  BY <1>1, <1>4, <1>5, <1>6, <1>7 DEF h

\* The elements of a sequence with the one at position n taken out.
LEMMA Removed ==
  ASSUME NEW S, NEW v \in Seq(S), NEW n \in 1 .. Len(v)
  PROVE  /\ erase_at(v, n) \in Seq(S)
         /\ Len(erase_at(v, n)) = Len(v) - 1
         /\ \A k \in 1 .. Len(v) - 1 : erase_at(v, n)[k] = IF k < n THEN v[k] ELSE v[k + 1]
<1> DEFINE front == SubSeq(v, 1, n - 1)
           back == SubSeq(v, n + 1, Len(v))
<1>1. Len(v) \in Nat /\ n - 1 \in 0 .. Len(v)
  OBVIOUS
<1>2. front \in Seq(S) /\ Len(front) = n - 1 /\ \A k \in 1 .. n - 1 : front[k] = v[k]
  BY <1>1
<1>3. back \in Seq(S) /\ Len(back) = Len(v) - n
      /\ \A k \in 1 .. Len(v) - n : back[k] = v[n + k]
  BY <1>1
<1> HIDE DEF front, back
<1>4. erase_at(v, n) = front \o back
  BY DEF erase_at, front, back
<1>5. /\ front \o back \in Seq(S) /\ Len(front \o back) = Len(v) - 1
      /\ \A k \in 1 .. Len(v) - 1 : (front \o back)[k] = IF k < n THEN front[k] ELSE back[k - n + 1]
  <2>1. Len(front) + Len(back) = Len(v) - 1
    BY <1>1, <1>2, <1>3
  <2>2. \A k \in 1 .. Len(v) - 1 : (k <= n - 1 <=> k < n) /\ k - (n - 1) = k - n + 1
    BY <1>1
  <2>3. /\ front \o back \in Seq(S) /\ Len(front \o back) = Len(front) + Len(back)
        /\ \A k \in 1 .. Len(front) + Len(back) :
             (front \o back)[k] = IF k <= Len(front) THEN front[k] ELSE back[k - Len(front)]
    BY Zenon, <1>2, <1>3, Joined
  <2> QED
    BY <1>2, <2>1, <2>2, <2>3
<1>6. ASSUME NEW k \in 1 .. Len(v) - 1, k >= n PROVE back[k - n + 1] = v[k + 1]
  BY <1>1, <1>3, <1>6
<1> QED
  BY <1>1, <1>2, <1>4, <1>5, <1>6

\* The invariant of the three indices: the bits and the entries of the
\* vector are the prices of the tree.
LadderInv(l, t) ==
  /\ l.occupied \in Words
  /\ \A i \in 0 .. NumPrices - 1 : Bits!test(l.occupied, i) <=> i \in t
  /\ l.best = tree_best(t)

FlatInv(v, t) ==
  /\ v \in Seq(0 .. NumPrices - 1)
  /\ Sorted(v)
  /\ \A p \in 0 .. NumPrices - 1 : p \in t <=> \E k \in 1 .. Len(v) : v[k] = p

IndexInv ==
  /\ tree \in SUBSET (0 .. NumPrices - 1)
  /\ LadderInv(ladder, tree)
  /\ FlatInv(flat, tree)

\* What the tree's best price is.
LEMMA TreeBest ==
  ASSUME NEW t \in SUBSET (0 .. NumPrices - 1)
  PROVE  /\ t = {} => tree_best(t) = None
         /\ t # {} => tree_best(t) \in t /\ \A y \in t : y <= tree_best(t)
         /\ \A x \in t : (\A y \in t : y <= x) => tree_best(t) = x
         /\ None = -1
<1>1. t = {} => tree_best(t) = None
  BY Zenon DEF tree_best
<1>2. t # {} => tree_best(t) = Max(t)
  BY Zenon DEF tree_best
<1>3. t # {} => Max(t) \in t /\ \A y \in t : y <= Max(t)
  <2> SUFFICES ASSUME t # {} PROVE Max(t) \in t /\ \A y \in t : y <= Max(t)
    OBVIOUS
  <2>1. PICK y \in t : y \in 0 .. NumPrices - 1
    BY Zenon
  <2>2. NumPrices - 1 \in Nat
    BY <2>1, IndexAssumption
  <2> QED
    BY Zenon, <2>2, MaxUpTo
<1>4. ASSUME NEW x \in t, \A y \in t : y <= x PROVE tree_best(t) = x
  <2>1. t \in SUBSET Int
    BY IndexAssumption
  <2>2. Max(t) = x
    BY <1>4, <2>1, MaxIs
  <2> QED
    BY <1>2, <2>2
<1>5. None = -1
  BY DEF None, Bits!None
<1> QED
  BY <1>1, <1>2, <1>3, <1>4, <1>5

\* An insertion into the bitmap ladder.
LEMMA LadderInsert ==
  ASSUME NEW t \in SUBSET (0 .. NumPrices - 1), NEW l, LadderInv(l, t),
         NEW p \in 0 .. NumPrices - 1
  PROVE  LadderInv(ladder_insert(l, p), t \cup {p})
<1> DEFINE u == t \cup {p}
           new == IF l.best = None \/ p > l.best THEN p ELSE l.best
           m == ladder_insert(l, p)
<1>1. m.occupied = Bits!set(l.occupied, p) /\ m.best = new
  BY DEF ladder_insert
<1>2. l.occupied \in Words /\ l.best = tree_best(t)
      /\ \A i \in 0 .. NumPrices - 1 : Bits!test(l.occupied, i) <=> i \in t
  BY DEF LadderInv
<1>3. m.occupied \in Words
      /\ \A i \in 0 .. NumPrices - 1 : Bits!test(m.occupied, i) <=> i \in u
  BY <1>1, <1>2, OneBit
<1>4. new \in u /\ \A y \in u : y <= new
  <2>1. \A y \in u : y \in Nat
    BY IndexAssumption
  <2>2. CASE t = {}
    <3>1. new = p /\ u = {p}
      BY <1>2, <2>2, TreeBest
    <3> HIDE DEF new, u
    <3> QED
      BY <2>1, <3>1
  <2>3. CASE t # {}
    <3>1. l.best \in t /\ l.best # None /\ \A y \in t : y <= l.best
      BY <1>2, <2>1, <2>3, TreeBest
    <3>2. l.best \in Nat /\ p \in Nat
      BY Zenon, <2>1, <3>1
    <3>3. CASE p > l.best
      BY <2>1, <3>1, <3>2, <3>3
    <3>4. CASE ~(p > l.best)
      BY <2>1, <3>1, <3>2, <3>4
    <3> QED
      BY <3>3, <3>4
  <2> QED
    BY <2>2, <2>3
<1>5. new = tree_best(u)
  <2>1. u \in SUBSET (0 .. NumPrices - 1)
    OBVIOUS
  <2> HIDE DEF u, new
  <2> QED
    BY <1>4, <2>1, TreeBest
<1> HIDE DEF m, new
<1> QED
  BY <1>1, <1>3, <1>5 DEF LadderInv, m

\* An erasure from the bitmap ladder: when the best price goes, the scan
\* finds the next one.
LEMMA LadderErase ==
  ASSUME NEW t \in SUBSET (0 .. NumPrices - 1), NEW l, LadderInv(l, t),
         NEW p \in 0 .. NumPrices - 1
  PROVE  LadderInv(ladder_erase(l, p), t \ {p})
<1> DEFINE u == t \ {p}
           cleared == Bits!clear(l.occupied, p)
           new == IF l.best # p THEN l.best
                  ELSE IF p = 0 THEN None
                  ELSE Bits!find_highest_at_or_below(cleared, p - 1)
           m == ladder_erase(l, p)
<1>1. m.occupied = cleared /\ m.best = new
  BY DEF ladder_erase
<1>2. l.occupied \in Words /\ l.best = tree_best(t)
      /\ \A i \in 0 .. NumPrices - 1 : Bits!test(l.occupied, i) <=> i \in t
  BY DEF LadderInv
<1>3. cleared \in Words
      /\ \A i \in 0 .. NumPrices - 1 : Bits!test(cleared, i) <=> i \in u
  BY <1>2, OneBit
<1>4. /\ u \in SUBSET (0 .. NumPrices - 1) /\ t \in SUBSET Nat /\ u \in SUBSET Nat
      /\ p \in Nat /\ NumPrices \in Nat
  BY IndexAssumption
<1> HIDE DEF cleared
<1>5. new = tree_best(u)
  <2>1. CASE l.best # p
    <3>1. CASE t = {}
      <4>1. u = {}
        BY <3>1
      <4> HIDE DEF u
      <4> QED
        BY <1>2, <1>4, <2>1, <3>1, <4>1, TreeBest
    <3>2. CASE t # {}
      <4>1. l.best \in u /\ \A y \in u : y <= l.best
        BY <1>2, <2>1, <3>2, TreeBest
      <4> HIDE DEF u
      <4> QED
        BY Zenon, <1>4, <2>1, <4>1, TreeBest
    <3> QED
      BY <3>1, <3>2
  <2>2. CASE l.best = p
    <3>1. \A y \in u : y < p
      <4>1. tree_best(t) = p
        BY <1>2, <2>2
      <4>2. t # {}
        BY <1>4, <4>1, TreeBest
      <4>3. \A y \in t : y <= p
        BY <4>1, <4>2, TreeBest
      <4> QED
        BY <1>4, <4>3
    <3>2. CASE p = 0
      <4>1. u = {}
        BY <1>4, <3>1, <3>2
      <4> HIDE DEF u
      <4> QED
        BY <1>4, <2>2, <3>2, <4>1, TreeBest
    <3>3. CASE p # 0
      <4>1. p - 1 \in 0 .. NumPrices - 1 /\ \A j \in 0 .. p - 1 : j \in 0 .. NumPrices - 1
        BY <1>4, <3>3
      <4>2. PICK r : r = Bits!find_highest_at_or_below(cleared, p - 1)
        OBVIOUS
      <4>3. new = r
        BY <2>2, <3>3, <4>2
      <4>4. \/ r = None /\ \A j \in 0 .. p - 1 : ~Bits!test(cleared, j)
            \/ /\ r \in 0 .. p - 1 /\ Bits!test(cleared, r)
               /\ \A j \in r + 1 .. p - 1 : ~Bits!test(cleared, j)
        BY <1>3, <4>1, <4>2, HighestBit
      <4> HIDE DEF u, new
      <4>5. \A y \in u : y \in 0 .. p - 1
        BY <1>4, <3>1
      <4>6. CASE r = None /\ \A j \in 0 .. p - 1 : ~Bits!test(cleared, j)
        <5>1. u = {}
          BY <1>3, <4>1, <4>5, <4>6
        <5> QED
          BY <1>4, <4>3, <4>6, <5>1, TreeBest
      <4>7. CASE r \in 0 .. p - 1 /\ Bits!test(cleared, r)
                 /\ \A j \in r + 1 .. p - 1 : ~Bits!test(cleared, j)
        <5>1. r \in u
          BY <1>3, <4>1, <4>7
        <5>2. ASSUME NEW y \in u PROVE y <= r
          <6>1. y \in 0 .. p - 1 /\ Bits!test(cleared, y)
            BY <1>3, <4>1, <4>5
          <6> QED
            BY <1>4, <4>7, <6>1
        <5> QED
          BY <1>4, <4>3, <5>1, <5>2, TreeBest
      <4> QED
        BY <4>4, <4>6, <4>7
    <3> QED
      BY <3>2, <3>3
  <2> QED
    BY <2>1, <2>2
<1> HIDE DEF m, new
<1> QED
  BY <1>1, <1>3, <1>5 DEF LadderInv, m

\* An insertion into the sorted vector.
LEMMA FlatInsert ==
  ASSUME NEW t \in SUBSET (0 .. NumPrices - 1), NEW v, FlatInv(v, t),
         NEW p \in 0 .. NumPrices - 1
  PROVE  FlatInv(flat_insert(v, p), t \cup {p})
<1> DEFINE n == lower_bound(v, p)
           w == insert_at(v, n, p)
<1>1. /\ v \in Seq(0 .. NumPrices - 1) /\ Sorted(v) /\ p \in Nat
      /\ \A q \in 0 .. NumPrices - 1 : q \in t <=> \E k \in 1 .. Len(v) : v[k] = q
  BY IndexAssumption DEF FlatInv
<1>2. n \in 1 .. Len(v) + 1 /\ \A j \in 1 .. Len(v) : (j < n <=> v[j] < p)
  BY <1>1, LowerBound
<1>3. flat_insert(v, p) = IF Holds(v, n, p) THEN v ELSE w
  BY DEF flat_insert
<1>4. Len(v) \in Nat /\ \A k \in 1 .. Len(v) : v[k] \in Nat /\ v[k] \in 0 .. NumPrices - 1
  BY <1>1, IndexAssumption
<1> HIDE DEF n
<1>5. CASE Holds(v, n, p)
  <2>1. n \in 1 .. Len(v) /\ v[n] = p
    BY <1>2, <1>4, <1>5 DEF Holds
  <2>2. t \cup {p} = t
    BY <1>1, <2>1
  <2> QED
    BY <1>3, <1>5, <2>2, Zenon
<1>6. CASE ~Holds(v, n, p)
  <2>1. /\ w \in Seq(0 .. NumPrices - 1) /\ Len(w) = Len(v) + 1
        /\ \A k \in 1 .. Len(v) + 1 :
             w[k] = IF k < n THEN v[k] ELSE IF k = n THEN p ELSE v[k - 1]
    <3>1. ASSUME NEW S, v \in Seq(S), p \in S
          PROVE  /\ w \in Seq(S) /\ Len(w) = Len(v) + 1
                 /\ \A k \in 1 .. Len(v) + 1 :
                      w[k] = IF k < n THEN v[k] ELSE IF k = n THEN p ELSE v[k - 1]
      BY <1>2, <3>1, Inserted
    <3> HIDE DEF w
    <3> QED
      BY Zenon, <1>1, <3>1
  <2> HIDE DEF w
  <2>2. \A j \in 1 .. Len(v) : j >= n => v[j] > p
    <3> SUFFICES ASSUME NEW j \in 1 .. Len(v), j >= n PROVE v[j] > p
      OBVIOUS
    <3>1. n \in 1 .. Len(v) /\ v[n] # p /\ ~(v[n] < p)
      BY <1>2, <1>4, <1>6 DEF Holds
    <3>2. n < j => v[n] < v[j]
      BY <1>1, <3>1 DEF Sorted
    <3> QED
      BY <1>1, <1>2, <1>4, <3>1, <3>2
  <2>3. Sorted(w)
    <3> SUFFICES ASSUME NEW j \in 1 .. Len(w), NEW k \in 1 .. Len(w), j < k
                 PROVE  w[j] < w[k]
      BY DEF Sorted
    <3>1. CASE k < n
      <4>1. w[j] = v[j] /\ w[k] = v[k] /\ j \in 1 .. Len(v) /\ k \in 1 .. Len(v)
        BY <1>2, <1>4, <2>1, <3>1
      <4> QED
        BY <1>1, <4>1 DEF Sorted
    <3>2. CASE k = n
      <4>1. w[j] = v[j] /\ w[k] = p /\ j \in 1 .. Len(v) /\ j < n
        BY <1>2, <1>4, <2>1, <3>2
      <4> QED
        BY <1>2, <4>1
    <3>3. CASE k > n
      <4>1. w[k] = v[k - 1] /\ k - 1 \in 1 .. Len(v) /\ k - 1 >= n
        BY <1>2, <1>4, <2>1, <3>3
      <4>2. v[k - 1] > p /\ v[k - 1] \in Nat
        BY <1>4, <2>2, <4>1
      <4>3. CASE j < n
        <5>1. w[j] = v[j] /\ j \in 1 .. Len(v) /\ v[j] < p /\ v[j] \in Nat
          BY <1>2, <1>4, <2>1, <4>3
        <5> QED
          BY <1>1, <4>1, <4>2, <5>1
      <4>4. CASE j = n
        BY <1>1, <1>2, <2>1, <4>1, <4>2, <4>4
      <4>5. CASE j > n
        <5>1. w[j] = v[j - 1] /\ j - 1 \in 1 .. Len(v) /\ j - 1 < k - 1
          BY <1>2, <1>4, <2>1, <4>5
        <5> QED
          BY <1>1, <4>1, <5>1 DEF Sorted
      <4> QED
        BY <1>2, <4>3, <4>4, <4>5
    <3> QED
      BY <1>2, <2>1, <3>1, <3>2, <3>3
  <2>4. ASSUME NEW q \in 0 .. NumPrices - 1
        PROVE  q \in t \cup {p} <=> \E k \in 1 .. Len(w) : w[k] = q
    <3>1. ASSUME q \in t PROVE \E k \in 1 .. Len(w) : w[k] = q
      <4>1. PICK k \in 1 .. Len(v) : v[k] = q
        BY <1>1, <3>1
      <4>2. CASE k < n
        <5>1. k \in 1 .. Len(w) /\ w[k] = q
          BY <1>2, <1>4, <2>1, <4>1, <4>2
        <5> QED
          BY <5>1
      <4>3. CASE k >= n
        <5>1. k + 1 \in 1 .. Len(w) /\ w[k + 1] = v[(k + 1) - 1] /\ (k + 1) - 1 = k
          BY <1>2, <1>4, <2>1, <4>3
        <5> QED
          BY <4>1, <5>1
      <4> QED
        BY <1>2, <4>2, <4>3
    <3>2. n \in 1 .. Len(w) /\ w[n] = p
      BY <1>2, <1>4, <2>1
    <3>3. ASSUME NEW k \in 1 .. Len(w), w[k] = q PROVE q \in t \cup {p}
      <4>1. k < n => k \in 1 .. Len(v) /\ v[k] = q
        BY <1>2, <1>4, <2>1, <3>3
      <4>2. k > n => k - 1 \in 1 .. Len(v) /\ v[k - 1] = q
        BY <1>2, <1>4, <2>1, <3>3
      <4>3. k = n => q = p
        BY <3>2, <3>3
      <4>4. k < n \/ k = n \/ k > n
        BY <1>2
      <4> QED
        BY <1>1, <4>1, <4>2, <4>3, <4>4
    <3> QED
      BY <3>1, <3>2, <3>3
  <2> QED
    BY <1>3, <1>6, <2>1, <2>3, <2>4 DEF FlatInv
<1> QED
  BY <1>5, <1>6

\* An erasure from the sorted vector.
LEMMA FlatErase ==
  ASSUME NEW t \in SUBSET (0 .. NumPrices - 1), NEW v, FlatInv(v, t),
         NEW p \in 0 .. NumPrices - 1
  PROVE  FlatInv(flat_erase(v, p), t \ {p})
<1> DEFINE n == lower_bound(v, p)
           w == erase_at(v, n)
<1>1. /\ v \in Seq(0 .. NumPrices - 1) /\ Sorted(v) /\ p \in Nat
      /\ \A q \in 0 .. NumPrices - 1 : q \in t <=> \E k \in 1 .. Len(v) : v[k] = q
  BY IndexAssumption DEF FlatInv
<1>2. n \in 1 .. Len(v) + 1 /\ \A j \in 1 .. Len(v) : (j < n <=> v[j] < p)
  BY <1>1, LowerBound
<1>3. flat_erase(v, p) = IF Holds(v, n, p) THEN w ELSE v
  BY DEF flat_erase
<1>4. Len(v) \in Nat /\ \A k \in 1 .. Len(v) : v[k] \in Nat /\ v[k] \in 0 .. NumPrices - 1
  BY <1>1, IndexAssumption
<1> HIDE DEF n
<1>5. CASE ~Holds(v, n, p)
  <2>1. ASSUME NEW k \in 1 .. Len(v), v[k] = p PROVE FALSE
    <3>1. ~(k < n) /\ n \in 1 .. Len(v)
      BY <1>1, <1>2, <1>4, <2>1
    <3>2. v[n] # p /\ ~(v[n] < p)
      BY <1>2, <1>5, <3>1 DEF Holds
    <3>3. n < k => v[n] < v[k]
      BY <1>1, <3>1 DEF Sorted
    <3> QED
      BY <1>1, <1>4, <2>1, <3>1, <3>2, <3>3
  <2>2. t \ {p} = t
    BY <1>1, <2>1
  <2> QED
    BY <1>3, <1>5, <2>2, Zenon
<1>6. CASE Holds(v, n, p)
  <2>0. n \in 1 .. Len(v) /\ v[n] = p
    BY <1>2, <1>4, <1>6 DEF Holds
  <2>1. /\ w \in Seq(0 .. NumPrices - 1) /\ Len(w) = Len(v) - 1
        /\ \A k \in 1 .. Len(v) - 1 : w[k] = IF k < n THEN v[k] ELSE v[k + 1]
    BY <1>1, <2>0, Removed
  <2> HIDE DEF w
  <2>2. \A j, k \in 1 .. Len(v) : v[j] = v[k] => j = k
    <3> SUFFICES ASSUME NEW j \in 1 .. Len(v), NEW k \in 1 .. Len(v), v[j] = v[k]
                 PROVE  j = k
      OBVIOUS
    <3>1. j < k => v[j] < v[k]
      BY <1>1 DEF Sorted
    <3>2. k < j => v[k] < v[j]
      BY <1>1 DEF Sorted
    <3> QED
      BY <1>4, <3>1, <3>2
  <2> DEFINE at(k) == IF k < n THEN k ELSE k + 1
  <2>3. \A k \in 1 .. Len(w) : at(k) \in 1 .. Len(v) /\ at(k) # n /\ w[k] = v[at(k)]
    BY <1>2, <1>4, <2>0, <2>1
  <2>4. \A j, k \in 1 .. Len(w) : j < k => at(j) < at(k)
    BY <1>4, <2>0, <2>1
  <2>5. \A k \in 1 .. Len(v) : k # n => \E j \in 1 .. Len(w) : at(j) = k
    <3> SUFFICES ASSUME NEW k \in 1 .. Len(v), k # n PROVE \E j \in 1 .. Len(w) : at(j) = k
      OBVIOUS
    <3>1. k < n => k \in 1 .. Len(w) /\ at(k) = k
      BY <1>4, <2>0, <2>1
    <3>2. k > n => k - 1 \in 1 .. Len(w) /\ at(k - 1) = k
      BY <1>4, <2>0, <2>1
    <3>3. k < n \/ k > n
      BY <2>0
    <3> HIDE DEF at
    <3> QED
      BY <3>1, <3>2, <3>3
  <2> HIDE DEF at
  <2>6. Sorted(w)
    <3> SUFFICES ASSUME NEW j \in 1 .. Len(w), NEW k \in 1 .. Len(w), j < k
                 PROVE  w[j] < w[k]
      BY DEF Sorted
    <3>1. v[at(j)] < v[at(k)]
      BY <1>1, <2>3, <2>4 DEF Sorted
    <3> QED
      BY <2>3, <3>1
  <2>7. ASSUME NEW q \in 0 .. NumPrices - 1
        PROVE  q \in t \ {p} <=> \E k \in 1 .. Len(w) : w[k] = q
    <3>1. ASSUME q \in t, q # p PROVE \E k \in 1 .. Len(w) : w[k] = q
      <4>1. PICK k \in 1 .. Len(v) : v[k] = q
        BY <1>1, <3>1
      <4>2. PICK j \in 1 .. Len(w) : at(j) = k
        BY <2>0, <2>5, <3>1, <4>1
      <4> QED
        BY <2>3, <4>1, <4>2
    <3>2. ASSUME NEW k \in 1 .. Len(w), w[k] = q PROVE q \in t \ {p}
      <4>1. at(k) \in 1 .. Len(v) /\ at(k) # n /\ v[at(k)] = q
        BY <2>3, <3>2
      <4>2. q # p
        BY <2>0, <2>2, <4>1
      <4> QED
        BY <1>1, <4>1, <4>2
    <3> QED
      BY <3>1, <3>2
  <2> QED
    BY <1>3, <1>6, <2>1, <2>6, <2>7 DEF FlatInv
<1> QED
  BY <1>5, <1>6

\* The last element of the sorted vector is the tree's best price.
LEMMA FlatBest ==
  ASSUME NEW t \in SUBSET (0 .. NumPrices - 1), NEW v, FlatInv(v, t)
  PROVE  flat_best(v) = tree_best(t)
<1>1. /\ v \in Seq(0 .. NumPrices - 1) /\ Sorted(v)
      /\ \A q \in 0 .. NumPrices - 1 : q \in t <=> \E k \in 1 .. Len(v) : v[k] = q
  BY DEF FlatInv
<1>2. Len(v) \in Nat /\ \A k \in 1 .. Len(v) : v[k] \in 0 .. NumPrices - 1
  BY <1>1, IndexAssumption
<1>3. CASE v = << >>
  <2>1. t = {}
    BY <1>1, <1>3
  <2> QED
    BY <1>3, <2>1, TreeBest DEF flat_best
<1>4. CASE v # << >>
  <2>1. Len(v) \in 1 .. Len(v)
    BY <1>1, <1>4
  <2>2. flat_best(v) = v[Len(v)]
    BY <1>4 DEF flat_best
  <2>3. v[Len(v)] \in t
    BY <1>1, <1>2, <2>1
  <2>4. ASSUME NEW y \in t PROVE y <= v[Len(v)]
    <3>1. PICK k \in 1 .. Len(v) : v[k] = y
      BY <1>1
    <3>2. k < Len(v) => v[k] < v[Len(v)]
      BY <1>1, <2>1 DEF Sorted
    <3> QED
      BY <1>2, <2>1, <3>1, <3>2, IndexAssumption
  <2> QED
    BY Zenon, <2>2, <2>3, <2>4, TreeBest
<1> QED
  BY <1>3, <1>4

\* The empty structures agree.
LEMMA IndexInitial == IndexInit => IndexInv
<1> SUFFICES ASSUME IndexInit PROVE IndexInv
  OBVIOUS
<1>1. tree = {} /\ flat = << >> /\ ladder.occupied = Bits!Cleared /\ ladder.best = None
  BY DEF IndexInit
<1>2. LadderInv(ladder, {})
  <2>1. Bits!Cleared \in Words
    BY DEF Words, Bits!Cleared
  <2>2. ASSUME NEW i \in 0 .. NumPrices - 1 PROVE ~Bits!test(Bits!Cleared, i)
    <3>1. i \div IndexWordBits \in 0 .. Bits!NumWords - 1
      BY InSomeWord
    <3> QED
      BY <3>1 DEF Bits!test, Bits!Cleared
  <2>3. tree_best({}) = None
    BY DEF tree_best
  <2> QED
    BY <1>1, <2>1, <2>2, <2>3 DEF LadderInv
<1>3. FlatInv(<< >>, {})
  BY DEF FlatInv, Sorted
<1> QED
  BY <1>1, <1>2, <1>3 DEF IndexInv

\* An insertion or an erasure keeps the three structures in agreement.
LEMMA IndexStep == IndexInv /\ [IndexNext]_indexVars => IndexInv'
<1> SUFFICES ASSUME IndexInv, [IndexNext]_indexVars PROVE IndexInv'
  OBVIOUS
<1>1. CASE UNCHANGED indexVars
  BY <1>1 DEF indexVars, IndexInv
<1>2. ASSUME NEW p \in 0 .. NumPrices - 1, Insert(p) PROVE IndexInv'
  BY <1>2, LadderInsert, FlatInsert DEF Insert, IndexInv
<1>3. ASSUME NEW p \in 0 .. NumPrices - 1, Erase(p) PROVE IndexInv'
  BY <1>3, LadderErase, FlatErase DEF Erase, IndexInv
<1> QED
  BY <1>1, <1>2, <1>3 DEF IndexNext

\* After the same insertions and erasures the bitmap ladder, the tree and the
\* sorted vector answer best() alike (VariantsAgree), for every number of
\* prices and every width of a bitmap word.
THEOREM VariantsAlwaysAgree == IndexSpec => []VariantsAgree
<1>1. IndexInv => VariantsAgree
  BY FlatBest DEF IndexInv, LadderInv, VariantsAgree, ladder_best
<1> QED
  BY <1>1, IndexInitial, IndexStep, PTL DEF IndexSpec
=============================================================================
