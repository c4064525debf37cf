----------------------- MODULE MatchingEngine_proofs -----------------------
(***************************************************************************)
(* For every number of levels, orders and clients, and any sequence of     *)
(* submit, cancel and replace, the book that the engine trades on stays    *)
(* consistent and uncrossed, a replace loses no order, the matching loop   *)
(* makes progress, a fill-or-kill order that enters it is filled, and the  *)
(* engine implements the abstract market of PriceTimePriority.             *)
(***************************************************************************)
EXTENDS MatchingEngine, OrderBook_proofs

\* A leaf is tried with the SMT solver, which gets more time than it has by
\* default, and then with Zenon.
USE SMTT(20), ZenonT(30), SMTT(21), SMTT(22)

-----------------------------------------------------------------------------
(* The inductive invariant.                                                *)

\* No two orders of the book b could trade with each other.
Uncrossed(b) ==
  \A bid, ask \in Resting(b) :
    /\ b.order_index[bid].order.side = "Buy"
    /\ b.order_index[ask].order.side = "Sell"
    => b.order_index[bid].order.price < b.order_index[ask].order.price

\* Only Day limit orders of this symbol rest, all sequenced before n.
RestsBefore(b, n) ==
  \A id \in Resting(b) :
    LET o == b.order_index[id].order
    IN  /\ o.sequence < n
        /\ o.type = "Limit" /\ o.tif = "Day" /\ o.symbol = Symbol

\* The book b would store what is left of the replaced order o.
FitsBack(b, o) ==
  /\ o.type = "Limit" /\ o.tif = "Day"
  /\ index_of(o.price) # NoIndex
  /\ o.id \notin Resting(b)
  /\ b.live_count < MaxOrders

\* The resting orders that o could trade with.
Acceptable(b, o) ==
  {id \in Resting(b) :
     LET r == b.order_index[id].order
     IN  /\ r.side = opposite(o.side)
         /\ o.type = "Market" \/ crosses(o.side, o.price, r.price)}

\* What holds of the order that is being matched.
AggressorInv ==
  /\ aggressor.remaining >= 0
  /\ aggressor.symbol = Symbol
  /\ aggressor.sequence < next_sequence
  /\ RestsBefore(book, aggressor.sequence)
  /\ op = "replace" => FitsBack(book, aggressor)
  /\ aggressor.tif = "FOK" =>
       aggressor.remaining <= SumFunctionOnSet(Open(book), Acceptable(book, aggressor))

\* NeverCrossed speaks of the states between calls only; in the invariant the
\* book is uncrossed inside the matching loop as well, since the loop only
\* removes quantity and an order is stored when it no longer crosses.  A
\* fill-or-kill order in the loop has never more open than the orders it may
\* trade with; that it starts so rests on the aggregates of the levels.
EngineInv ==
  /\ TypeOK
  /\ BookInv(book)
  /\ QuantitiesMatchQueues(book)
  /\ Uncrossed(book)
  /\ RestsBefore(book, next_sequence)
  /\ pc = "match" => AggressorInv
  /\ ReplaceKeepsOrder

-----------------------------------------------------------------------------
(* Lemmas.                                                                 *)

\* std::min of two quantities.
LEMMA MinOfTwo ==
  ASSUME NEW a \in Int, NEW b \in Int
  PROVE  /\ Min({a, b}) \in {a, b}
         /\ Min({a, b}) <= a /\ Min({a, b}) <= b
<1>1. \E x \in {a, b} : \A y \in {a, b} : x <= y
  <2>1. CASE a <= b
    BY <2>1
  <2>2. CASE b < a
    BY <2>2
  <2> QED
    BY <2>1, <2>2
<1>2. Min({a, b}) \in {a, b} /\ \A y \in {a, b} : Min({a, b}) <= y
  BY <1>1 DEF Min
<1> QED
  BY <1>2

\* A fill takes the smaller of two open quantities.
LEMMA FillIsSmaller ==
  ASSUME NEW o, NEW r, o.remaining \in Int, r.remaining \in Int,
         o.remaining > 0, r.remaining > 0
  PROVE  /\ fill_quantity(o, r) = IF o.remaining < r.remaining THEN o.remaining
                                                              ELSE r.remaining
         /\ fill_quantity(o, r) \in Int /\ 0 < fill_quantity(o, r)
         /\ fill_quantity(o, r) <= r.remaining /\ fill_quantity(o, r) <= o.remaining
<1> DEFINE x == o.remaining
           y == r.remaining
           m == fill_quantity(o, r)
<1>1. m \in {x, y} /\ m <= x /\ m <= y
  BY MinOfTwo, ZenonT(30) DEF fill_quantity
<1>2. x \in Int /\ y \in Int /\ x > 0 /\ y > 0
  OBVIOUS
<1> HIDE DEF x, y, m
<1>3. /\ m = IF x < y THEN x ELSE y
      /\ m \in Int /\ 0 < m /\ m <= y /\ m <= x
  BY <1>1, <1>2
<1> QED
  BY <1>3 DEF x, y, m

\* A resting order is an order.
LEMMA RestingOrder ==
  ASSUME NEW b, BookInv(b), NEW id \in Resting(b)
  PROVE  /\ b.order_index[id].order \in Order
         /\ b.order_index[id].order.sequence \in Nat
         /\ b.order_index[id].order.price \in Int
         /\ b.order_index[id].order.remaining \in Int
         /\ b.order_index[id].order.remaining > 0
         /\ b.order_index[id].order.id = id
         /\ b.order_index[id].order.side \in Sides
         /\ id \in OrderIds
<1>1. b.order_index[id] \in Node
  BY BookTypes DEF BookInv
<1>2. b.order_index[id].order \in Order
  BY <1>1 DEF Node
<1>3. id \in OrderIds
  BY DEF BookInv, WellFormed
<1>4. b.order_index[id].order.remaining > 0 /\ b.order_index[id].order.id = id
  BY Zenon DEF BookInv, Structured, CountsMatchQueues, QueuesMatchIndex
<1> QED
  BY <1>2, <1>3, <1>4 DEF Order

\* A book that only lost quantity is uncrossed if it was before.
LEMMA LessIsUncrossed ==
  ASSUME NEW b, NEW c, KeepsTerms(b, c), NEW n
  PROVE  /\ Uncrossed(b) => Uncrossed(c)
         /\ RestsBefore(b, n) => RestsBefore(c, n)
  BY DEF KeepsTerms, Uncrossed, RestsBefore

\* What was sequenced before n was sequenced before n + 1.
LEMMA BeforeTheNext ==
  ASSUME NEW b, BookInv(b), NEW n \in Nat, RestsBefore(b, n)
  PROVE  RestsBefore(b, n + 1)
<1> SUFFICES ASSUME NEW id \in Resting(b)
             PROVE  b.order_index[id].order.sequence < n + 1
  BY Zenon DEF RestsBefore
<1>1. b.order_index[id].order.sequence < n /\ b.order_index[id].order.sequence \in Nat
  BY RestingOrder DEF RestsBefore
<1> QED
  BY <1>1

\* Taking an order out keeps the terms of the others.
LEMMA WithoutKeepsTerms ==
  ASSUME NEW b, BookInv(b), NEW x \in Resting(b)
  PROVE  KeepsTerms(b, Without(b, x))
  BY WithoutSound DEF KeepsTerms

\* With fewer resting orders there is no less room.
LEMMA LessLeavesRoom ==
  ASSUME NEW b, BookInv(b), NEW c, BookInv(c), Resting(c) \subseteq Resting(b),
         b.live_count < MaxOrders
  PROVE  c.live_count < MaxOrders
<1>1. IsFiniteSet(Resting(b))
  BY DEF BookInv, WellFormed
<1>2. Cardinality(Resting(c)) <= Cardinality(Resting(b))
  BY <1>1, FS_Subset
<1>3. Cardinality(Resting(c)) \in Int /\ Cardinality(Resting(b)) \in Int
  BY <1>1, FS_Subset, FS_CardinalityType
<1>4. /\ b.live_count = Cardinality(Resting(b))
      /\ c.live_count = Cardinality(Resting(c))
  BY DEF BookInv, Structured, NothingLeaked
<1> QED
  BY <1>2, <1>3, <1>4, BookAssumption

\* A request carries the sequence number it was given.
LEMMA SequencedOrder ==
  ASSUME NEW t \in Terms, NEW n \in Nat
  PROVE  Sequenced(t, n) \in Order /\ Sequenced(t, n).sequence = n
  BY DEF Sequenced, Terms, Order

-----------------------------------------------------------------------------
(* What there is to trade with.                                            *)

\* f lists what N steps from a lead to, all of it in S.
Lists(f, S, a, step, N) ==
  /\ f \in [0 .. N -> S]
  /\ \A n \in 0 .. N : f[n] = IF n = 0 THEN a ELSE step[f[n - 1]]

\* Any number of steps can be listed.
LEMMA Iterates ==
  ASSUME NEW S, NEW a \in S, NEW step \in [S -> S], NEW N \in Nat
  PROVE  \E f : Lists(f, S, a, step, N)
<1> DEFINE Has(m) == \E f \in [0 .. m -> S] :
                       \A n \in 0 .. m : f[n] = IF n = 0 THEN a ELSE step[f[n - 1]]
           Bad == {m \in Nat : ~Has(m)}
<1>1. Has(0)
  <2> DEFINE f == [n \in 0 .. 0 |-> a]
  <2>1. f \in [0 .. 0 -> S] /\ \A n \in 0 .. 0 : n = 0 /\ f[n] = a
    OBVIOUS
  <2> QED BY <2>1, ZenonT(30)
<1>2. ASSUME NEW m \in Nat, Has(m) PROVE Has(m + 1)
  <2>1. PICK f \in [0 .. m -> S] :
          \A n \in 0 .. m : f[n] = IF n = 0 THEN a ELSE step[f[n - 1]]
    BY <1>2
  <2> DEFINE g == [n \in 0 .. m + 1 |-> IF n = m + 1 THEN step[f[m]] ELSE f[n]]
  <2>2. g \in [0 .. m + 1 -> S]
    BY <2>1
  <2>3. \A n \in 0 .. m : g[n] = f[n]
    OBVIOUS
  <2>4. ASSUME NEW n \in 0 .. m + 1
        PROVE  g[n] = IF n = 0 THEN a ELSE step[g[n - 1]]
    <3>1. CASE n = m + 1
      <4>1. g[n] = step[f[m]] /\ n # 0 /\ n - 1 = m /\ m \in 0 .. m
        BY <3>1
      <4> QED BY <2>3, <4>1
    <3>2. CASE n # m + 1
      <4>1. n \in 0 .. m /\ g[n] = f[n] /\ (n # 0 => n - 1 \in 0 .. m)
        BY <3>2
      <4> QED BY <2>1, <2>3, <4>1
    <3> QED BY <3>1, <3>2
  <2> HIDE DEF g
  <2> QED BY <2>2, <2>4
<1> HIDE DEF Has
<1>3. Bad = {}
  <2> SUFFICES ASSUME Bad # {} PROVE FALSE
    OBVIOUS
  <2>1. PICK m \in Bad : \A n \in Bad : m <= n
    BY LeastNatural, ZenonT(30)
  <2>2. m \in Nat /\ m # 0 /\ ~Has(m)
    BY <1>1, <2>1
  <2>3. m - 1 \in Nat /\ ~(m - 1 \in Bad)
    BY <2>1, <2>2
  <2>4. Has(m - 1) /\ m - 1 + 1 = m
    BY <2>2, <2>3
  <2> QED BY <1>2, <2>2, <2>3, <2>4
<1>4. Has(N)
  BY <1>3
<1> QED BY <1>4 DEF Has, Lists
\* A resting order is queued at its price.
LEMMA RestingAtPrice ==
  ASSUME NEW b, BookInv(b), NEW id \in Resting(b)
  PROVE  b.order_index[id].order.price = price_at(b.order_index[id].level_index)
<1> DEFINE o == b.order_index[id].order
<1>1. /\ o.price \in Int
      /\ b.order_index[id].level_index = index_of(o.price)
      /\ b.order_index[id].level_index \in Indices
  BY BookTypes, Zenon DEF BookInv, Order, Node, Structured, QueuesMatchIndex
<1>2. index_of(o.price) # NoIndex
  BY <1>1, LadderAssumption DEF Indices, NoIndex
<1> QED
  BY <1>1, <1>2, IndexOfPrice

\* The walks over the levels that have counted acceptable orders only, each
\* once: those of the levels they have left behind.
Walks(b, o) ==
  LET s == opposite(o.side)
  IN  {w \in [at : Indices \cup {NoIndex}, total : Int] :
         \E V \in SUBSET Acceptable(b, o) :
           /\ w.total = SumFunctionOnSet(Open(b), V)
           /\ w.at # NoIndex =>
                /\ w.at \in b.ladder[s].occupied
                /\ \A id \in V : is_better(s, b.order_index[id].level_index, w.at)}

\* What can be said of the acceptable orders of a book.
LEMMA AcceptableOpen ==
  ASSUME NEW b, BookInv(b), NEW o, NEW V \in SUBSET Resting(b)
  PROVE  /\ Acceptable(b, o) \in SUBSET Resting(b)
         /\ IsFiniteSet(V)
         /\ \A id \in V : Open(b)[id] = b.order_index[id].order.remaining /\ Open(b)[id] \in Nat
<1>1. IsFiniteSet(Resting(b))
  BY DEF BookInv, WellFormed
<1>2. \A id \in Resting(b) : /\ Open(b)[id] = b.order_index[id].order.remaining
                             /\ Open(b)[id] \in Nat
  BY RestingOrder DEF Open
<1> QED
  BY <1>1, <1>2, FS_Subset DEF Acceptable

\* The walk starts at the best level with nothing counted.
LEMMA WalkStarts ==
  ASSUME NEW b, BookInv(b), NEW o \in Order
  PROVE  [at |-> best_index(b, opposite(o.side)), total |-> 0] \in Walks(b, o)
<1> DEFINE s == opposite(o.side)
           i == best_index(b, s)
<1>1. s \in Sides
  BY DEF opposite, Sides, Order
<1>2. i = NoIndex \/ i \in b.ladder[s].occupied
  BY <1>1 DEF BookInv, Structured, BestIsTouch, best_index
<1>3. b.ladder[s].occupied \in SUBSET Indices
  BY <1>1, BookTypes DEF BookInv, Ladder
<1>4. SumFunctionOnSet(Open(b), {}) = 0
  BY SumSteps, FS_EmptySet
<1> HIDE DEF s, i
<1>5. [at |-> i, total |-> 0] \in [at : Indices \cup {NoIndex}, total : Int]
  BY <1>2, <1>3
<1>6. [at |-> i, total |-> 0].at = i /\ [at |-> i, total |-> 0].total = 0
  OBVIOUS
<1>7. {} \in SUBSET Acceptable(b, o)
  OBVIOUS
<1> QED
  BY <1>2, <1>4, <1>5, <1>6, <1>7 DEF Walks, s, i

\* A visit counts the orders of one more level, which are acceptable and were
\* not counted before.
LEMMA VisitCountsOnce ==
  ASSUME NEW b, BookInv(b), QuantitiesMatchQueues(b), NEW o \in Order,
         NEW w \in Walks(b, o)
  PROVE  visit(b, o, w) \in Walks(b, o)
<1> DEFINE s == opposite(o.side)
           i == w.at
           lvl == b.ladder[s].levels[i]
           ids == Range(Queue(b, s, i))
           sum == w.total + lvl.total_quantity
           level(id) == b.order_index[id].level_index
<1>1. s \in Sides
  BY DEF opposite, Sides, Order
<1>2. /\ w \in [at : Indices \cup {NoIndex}, total : Int]
      /\ i \in Indices \cup {NoIndex} /\ w.total \in Int
  BY DEF Walks
<1>3. PICK V \in SUBSET Acceptable(b, o) :
        /\ w.total = SumFunctionOnSet(Open(b), V)
        /\ i # NoIndex => /\ i \in b.ladder[s].occupied
                          /\ \A id \in V : is_better(s, level(id), i)
  BY DEF Walks
<1>4. CASE i = NoIndex \/ (o.type # "Market" /\ ~crosses(o.side, o.price, price_at(i)))
  <2> DEFINE v == [at |-> NoIndex, total |-> w.total]
  <2>1. visit(b, o, w) = v
    BY <1>4 DEF visit
  <2>2. v \in [at : Indices \cup {NoIndex}, total : Int] /\ v.at = NoIndex /\ v.total = w.total
    BY <1>2
  <2> HIDE DEF v
  <2> QED
    BY <1>3, <2>1, <2>2 DEF Walks
<1>5. CASE ~(i = NoIndex \/ (o.type # "Market" /\ ~crosses(o.side, o.price, price_at(i))))
  <2> DEFINE n == next_after(s, b.ladder[s].occupied, i)
             v == [at |-> IF sum < o.quantity THEN n ELSE NoIndex, total |-> sum]
             all == V \cup ids
  <2>1. visit(b, o, w) = v
    BY <1>5 DEF visit
  <2>2. /\ i \in Indices /\ b.ladder[s].occupied \in SUBSET Indices
        /\ \A id \in Resting(b) : level(id) \in Indices
    BY <1>1, <1>2, <1>5, BookTypes DEF BookInv, Ladder, Node
  <2>3. /\ ids = {id \in Resting(b) : b.order_index[id].order.side = s /\ level(id) = i}
        /\ lvl.total_quantity = SumFunctionOnSet(Open(b), ids)
    BY <1>1, <2>2, QueueHolds DEF QuantitiesMatchQueues, Queue
  <2>4. ids \in SUBSET Acceptable(b, o)
    <3> SUFFICES ASSUME NEW id \in ids PROVE id \in Acceptable(b, o)
      OBVIOUS
    <3>1. /\ id \in Resting(b) /\ b.order_index[id].order.side = s /\ level(id) = i
      BY <2>3
    <3>2. b.order_index[id].order.price = price_at(i)
      BY <2>2, <3>1, RestingAtPrice
    <3> HIDE DEF ids, i, s, level
    <3> QED
      BY <1>5, <3>1, <3>2 DEF Acceptable, s
  <2>5. V \in SUBSET Resting(b) /\ all \in SUBSET Acceptable(b, o) /\ all \in SUBSET Resting(b)
    BY <1>3, <2>4, AcceptableOpen
  <2>6. all \ V = ids
    <3>1. ASSUME NEW id \in V PROVE id \notin ids
      <4>1. is_better(s, level(id), i)
        BY <1>3, <1>5
      <4>2. ~is_better(s, i, i)
        BY <1>1, <2>2, IsBetterOrders
      <4> QED
        BY <2>3, <4>1, <4>2
    <3> QED
      BY <3>1
  <2>7. SumFunctionOnSet(Open(b), all) = SumFunctionOnSet(Open(b), V)
                                           + SumFunctionOnSet(Open(b), all \ V)
    <3>1. /\ IsFiniteSet(all) /\ V \in SUBSET all
          /\ \A id \in all : Open(b)[id] \in Int
      BY <2>5, AcceptableOpen
    <3> HIDE DEF all
    <3> QED
      BY <3>1, SumUnion
  <2>8. sum = SumFunctionOnSet(Open(b), all) /\ sum \in Int
    <3>1. sum = SumFunctionOnSet(Open(b), all)
      BY <1>3, <2>3, <2>6, <2>7, ZenonT(30)
    <3>2. IsFiniteSet(all) /\ \A id \in all : Open(b)[id] \in Int
      BY <2>5, AcceptableOpen
    <3>3. SumFunctionOnSet(Open(b), all) \in Int
      <4> HIDE DEF all
      <4> QED
        BY <3>2, SumInt
    <3> QED
      BY <3>1, <3>3
  <2>9. n = NoIndex \/ (n \in b.ladder[s].occupied /\ is_better(s, i, n))
    BY <1>1, <2>2, NextAfter, ZenonT(30)
  <2>10. ASSUME n # NoIndex, NEW id \in all PROVE is_better(s, level(id), n)
    <3>1. n \in Indices /\ is_better(s, i, n)
      BY <2>2, <2>9, <2>10
    <3>2. level(id) \in Indices /\ (level(id) = i \/ is_better(s, level(id), i))
      BY <1>3, <1>5, <2>2, <2>3, <2>5, ZenonT(30)
    <3> HIDE DEF n, level, s, i
    <3> QED
      BY <1>1, <2>2, <3>1, <3>2, IsBetterOrders
  <2> HIDE DEF n, all, sum, s, ids, lvl, level
  <2>11. /\ v \in [at : Indices \cup {NoIndex}, total : Int]
         /\ v.total = sum /\ v.at \in {n, NoIndex}
    BY <2>2, <2>8, <2>9
  <2> HIDE DEF v
  <2>12. v.at # NoIndex => /\ v.at \in b.ladder[s].occupied
                           /\ \A id \in all : is_better(s, level(id), v.at)
    BY <2>9, <2>10, <2>11
  <2>13. v.total = SumFunctionOnSet(Open(b), all)
    BY <2>8, <2>11
  <2> QED
    BY <2>1, <2>5, <2>11, <2>12, <2>13 DEF Walks, s, level
<1> QED
  BY <1>4, <1>5

\* What available_liquidity counts is there to be traded.
LEMMA LiquidityIsThere ==
  ASSUME NEW b, BookInv(b), QuantitiesMatchQueues(b), NEW o \in Order
  PROVE  /\ available_liquidity(b, o) \in Int
         /\ available_liquidity(b, o) <= SumFunctionOnSet(Open(b), Acceptable(b, o))
<1> DEFINE a == [at |-> best_index(b, opposite(o.side)), total |-> 0]
           W == Walks(b, o)
           next(w) == visit(b, o, w)
           Walk(f) == f = [n \in 0 .. NumLevels |-> IF n = 0 THEN a ELSE next(f[n - 1])]
           walk == CHOOSE f : Walk(f)
<1>1. a \in W /\ \A w \in W : next(w) \in W
  BY WalkStarts, VisitCountsOnce
<1>2. NumLevels \in Nat
  BY LadderAssumption
<1>3. available_liquidity(b, o) = walk[NumLevels].total
  BY DEF available_liquidity
<1> HIDE DEF a, W, next, walk
<1>4. \E f : Walk(f)
  <2> DEFINE step == [w \in W |-> next(w)]
  <2>0. a \in W
    BY <1>1
  <2>1. step \in [W -> W]
    BY <1>1
  <2>2. PICK f : Lists(f, W, a, step, NumLevels)
    <3> HIDE DEF step
    <3> QED
      BY <1>2, <2>0, <2>1, Iterates
  <2>3. ASSUME NEW n \in 0 .. NumLevels PROVE f[n] = IF n = 0 THEN a ELSE next(f[n - 1])
    <3>1. n # 0 => f[n - 1] \in W
      BY <1>2, <2>2 DEF Lists
    <3> QED
      BY <2>2, <3>1, ZenonT(30) DEF Lists
  <2>4. Walk(f)
    BY <2>2, <2>3 DEF Lists
  <2> QED
    BY <2>4, ZenonT(30)
<1>5. Walk(walk)
  <2> HIDE DEF Walk
  <2> QED
    BY <1>4 DEF walk
<1> DEFINE Bad == {n \in 0 .. NumLevels : walk[n] \notin W}
<1>6. Bad = {}
  <2> SUFFICES ASSUME Bad # {} PROVE FALSE
    OBVIOUS
  <2>0. Bad \in SUBSET Nat
    BY <1>2
  <2>1. PICK n \in Bad : \A m \in Bad : n <= m
    <3> HIDE DEF Bad
    <3> QED
      BY <2>0, LeastNatural
  <2>2. n \in 0 .. NumLevels /\ walk[n] \notin W
    BY <2>1
  <2>3. n # 0
    BY <1>1, <1>5, <2>2
  <2>4. n - 1 \in 0 .. NumLevels /\ ~(n <= n - 1)
    BY <1>2, <2>2, <2>3
  <2>5. walk[n - 1] \in W
    BY <2>1, <2>4
  <2>6. walk[n] = next(walk[n - 1])
    BY <1>5, <2>2, <2>3, Zenon
  <2> QED
    BY <1>1, <2>2, <2>5, <2>6
<1>7. walk[NumLevels] \in Walks(b, o)
  BY <1>2, <1>6 DEF W
<1>8. PICK V \in SUBSET Acceptable(b, o) : walk[NumLevels].total = SumFunctionOnSet(Open(b), V)
  BY <1>7 DEF Walks
<1>9. /\ IsFiniteSet(Acceptable(b, o)) /\ \A id \in Acceptable(b, o) : Open(b)[id] \in Nat
      /\ IsFiniteSet(V) /\ \A id \in V : Open(b)[id] \in Nat
  BY <1>8, AcceptableOpen
<1> QED
  BY <1>3, <1>8, <1>9, SumOfPart, SumNat

\* A sum of open quantities.
LEMMA AcceptableSum ==
  ASSUME NEW b, BookInv(b), NEW o
  PROVE  SumFunctionOnSet(Open(b), Acceptable(b, o)) \in Int
<1>1. IsFiniteSet(Acceptable(b, o)) /\ \A id \in Acceptable(b, o) : Open(b)[id] \in Nat
  BY AcceptableOpen
<1> QED
  BY <1>1, SumInt

\* When the touch does not cross, nothing does.
LEMMA NothingAcceptable ==
  ASSUME NEW b, BookInv(b), NEW o \in Order,
         LET best == best_index(b, opposite(o.side))
         IN  \/ best = NoIndex
             \/ o.type = "Limit" /\ ~crosses(o.side, o.price, price_at(best))
  PROVE  Acceptable(b, o) = {}
<1> SUFFICES ASSUME NEW id \in Acceptable(b, o) PROVE FALSE
  OBVIOUS
<1> DEFINE r == b.order_index[id].order
           best == best_index(b, r.side)
<1>1. /\ id \in Resting(b) /\ r.side = opposite(o.side)
      /\ o.type = "Market" \/ crosses(o.side, o.price, r.price)
  BY DEF Acceptable
<1>2. o.price \in Int /\ o.side \in Sides
  BY DEF Order
<1>3. best # NoIndex /\ r.price \in Int
  BY <1>1, TouchBounds, Zenon
<1>4. /\ r.side = "Sell" /\ ~(o.price >= price_at(best)) => o.price < r.price
      /\ r.side = "Buy" /\ ~(o.price <= price_at(best)) => r.price < o.price
  BY <1>1, <1>2, CrossesOnlyThroughTouch, Zenon
<1>5. ~crosses(o.side, o.price, price_at(best)) /\ crosses(o.side, o.price, r.price)
  BY <1>1, <1>3, Zenon
<1> HIDE DEF r, best
<1> QED
  BY <1>1, <1>2, <1>3, <1>4, <1>5 DEF crosses, opposite, Sides

\* When it does, the front of the best level is acceptable.
LEMMA FrontIsAcceptable ==
  ASSUME NEW b, BookInv(b), NEW o \in Order,
         LET best == best_index(b, opposite(o.side))
         IN  /\ best # NoIndex
             /\ o.type = "Limit" => crosses(o.side, o.price, price_at(best))
  PROVE  LET s == opposite(o.side)
         IN  Head(Queue(b, s, best_index(b, s))) \in Acceptable(b, o)
<1> DEFINE s == opposite(o.side)
           id == Head(Queue(b, s, best_index(b, s)))
<1>1. s \in Sides /\ o.type \in {"Limit", "Market"}
  BY DEF Order, opposite, Sides, OrderTypes
<1>2. /\ id \in Resting(b)
      /\ b.order_index[id].order.side = s
      /\ b.order_index[id].order.price = price_at(best_index(b, s))
  BY <1>1, FrontOfBest, Zenon
<1> HIDE DEF id
<1>3. id \in Acceptable(b, o)
  BY <1>1, <1>2 DEF Acceptable
<1> QED
  BY <1>3 DEF id

\* A fill takes as much from what there is to trade with as from the order.
LEMMA FillTakesFromBoth ==
  ASSUME NEW b, BookInv(b), NEW o, NEW x \in Acceptable(b, o), NEW q \in Int,
         0 < q, q <= b.order_index[x].order.remaining
  PROVE  LET c == reduce_quantity(b, x, q).book
         IN  SumFunctionOnSet(Open(c), Acceptable(c, o)) =
               SumFunctionOnSet(Open(b), Acceptable(b, o)) - q
<1> DEFINE c == reduce_quantity(b, x, q).book
           r == b.order_index[x].order
           old == Acceptable(b, o)
           new == Acceptable(c, o)
           rest == old \ {x}
<1>1. x \in Resting(b) /\ r \in Order /\ r.remaining \in Int
  BY RestingOrder DEF Acceptable
<1>2. BookInv(c) /\ c = IF q = r.remaining THEN Without(b, x) ELSE Shrunk(b, x, q)
  BY <1>1, ReduceSound, ZenonT(30) DEF reduce_quantity
<1>3. /\ IsFiniteSet(old) /\ IsFiniteSet(rest) /\ old \in SUBSET Resting(b)
      /\ \A id \in old : Open(b)[id] = b.order_index[id].order.remaining /\ Open(b)[id] \in Int
  BY AcceptableOpen, FS_Subset
<1>4. SumFunctionOnSet(Open(b), old) = r.remaining + SumFunctionOnSet(Open(b), rest)
  <2>1. Open(b)[x] = r.remaining
    BY <1>3
  <2> HIDE DEF old, r
  <2> QED
    BY <1>3, <2>1, SumTakesOut DEF old
<1>5. SumFunctionOnSet(Open(b), rest) \in Int
  BY <1>3, SumInt
<1> HIDE DEF c
<1>6. \A id \in Resting(c) : Open(c)[id] = c.order_index[id].order.remaining
  BY DEF Open
<1>7. ASSUME \A id \in rest : id \in Resting(c) /\ c.order_index[id] = b.order_index[id]
      PROVE  SumFunctionOnSet(Open(c), rest) = SumFunctionOnSet(Open(b), rest)
  <2>1. \A id \in rest : Open(c)[id] = Open(b)[id]
    BY <1>3, <1>6, <1>7
  <2> HIDE DEF rest
  <2> QED
    BY <1>3, <2>1, SumSame
<1>8. CASE q = r.remaining
  <2>1. /\ Resting(c) = Resting(b) \ {x}
        /\ \A id \in Resting(b) \ {x} : c.order_index[id] = b.order_index[id]
    BY <1>1, <1>2, <1>8, WithoutSound
  <2>2. new = rest
    BY <2>1 DEF Acceptable
  <2>3. SumFunctionOnSet(Open(c), rest) = SumFunctionOnSet(Open(b), rest)
    BY <1>3, <1>7, <2>1
  <2>4. SumFunctionOnSet(Open(c), new) = SumFunctionOnSet(Open(b), old) - q
    <3> HIDE DEF new, old, rest, r
    <3> QED
      BY <1>1, <1>4, <1>5, <1>8, <2>2, <2>3
  <2> QED
    BY <2>4 DEF c
<1>9. CASE q # r.remaining
  <2>1. /\ Resting(c) = Resting(b)
        /\ \A id \in Resting(b) \ {x} : c.order_index[id] = b.order_index[id]
        /\ c.order_index[x].order = [r EXCEPT !.remaining = @ - q]
    BY <1>1, <1>2, <1>9, ShrunkSound
  <2>2. /\ c.order_index[x].order.remaining = r.remaining - q
        /\ c.order_index[x].order.side = r.side /\ c.order_index[x].order.price = r.price
    <3> HIDE DEF r
    <3> QED
      BY <1>1, <2>1 DEF Order
  <2>3. new = old
    <3>1. \A id \in Resting(b) : /\ c.order_index[id].order.side = b.order_index[id].order.side
                                 /\ c.order_index[id].order.price = b.order_index[id].order.price
      BY <2>1, <2>2, ZenonT(30)
    <3> QED
      BY <2>1, <3>1 DEF Acceptable
  <2>4. SumFunctionOnSet(Open(c), rest) = SumFunctionOnSet(Open(b), rest)
    BY <1>3, <1>7, <2>1
  <2>5. SumFunctionOnSet(Open(c), old) = (r.remaining - q) + SumFunctionOnSet(Open(c), rest)
    <3>1. Open(c)[x] = r.remaining - q /\ x \in old
      BY <1>1, <1>6, <2>1, <2>2, ZenonT(30)
    <3>2. \A id \in old : Open(c)[id] \in Int
      BY <1>1, <1>3, <1>6, <2>1, <3>1
    <3> HIDE DEF old, r
    <3> QED
      BY <1>3, <3>1, <3>2, SumTakesOut
  <2>6. SumFunctionOnSet(Open(c), new) = SumFunctionOnSet(Open(b), old) - q
    <3> HIDE DEF new, old, rest, r
    <3> QED
      BY <1>1, <1>4, <1>5, <2>3, <2>4, <2>5
  <2> QED
    BY <2>6 DEF c
<1> QED
  BY <1>8, <1>9

-----------------------------------------------------------------------------
(* The steps of a call.                                                    *)

\* The prologue of submit keeps the invariant, for a new order and for a
\* replaced one that is out of the book.
LEMMA BeginSubmitKeepsInv ==
  ASSUME TypeOK, pc = "idle", next_sequence' = next_sequence + 1,
         NEW b, BookInv(b), QuantitiesMatchQueues(b), Uncrossed(b),
         RestsBefore(b, next_sequence),
         NEW o \in Order, o.sequence = next_sequence,
         NEW from \in {"submit", "replace"},
         from = "replace" => /\ FitsBack(b, o)
                             /\ o.symbol = Symbol /\ o.quantity > 0,
         BeginSubmit(b, o, from)
  PROVE  EngineInv'
<1> DEFINE reason == submit_reject(b, o)
           a == [o EXCEPT !.remaining = o.quantity]
<1>1. /\ next_sequence \in Nat /\ next_sequence' \in Nat /\ next_match_id \in Nat
      /\ o.quantity \in Int
  BY DEF TypeOK, Order
<1>2. /\ reason \in {"None", "UnknownSymbol", "InvalidQuantity", "FokNotFillable"}
      /\ reason = "None" => o.symbol = Symbol /\ o.quantity > 0
      /\ from = "replace" => reason = "None"
      /\ reason = "None" /\ o.tif = "FOK" => ~(available_liquidity(b, o) < o.quantity)
  BY <1>1 DEF submit_reject, FitsBack
<1>3. /\ book' = b /\ op' = from /\ fills' = << >> /\ next_match_id' = next_match_id
      /\ reason = "None" => pc' = "match" /\ aggressor' = a /\ result' = NoResult
      /\ reason # "None" =>
           /\ result' = [reject_reason |-> reason, rested |-> FALSE,
                         remaining_after |-> o.quantity]
           /\ pc' = pc /\ aggressor' = aggressor
  BY DEF BeginSubmit
<1>4. /\ a \in Order /\ a.remaining = o.quantity /\ a.symbol = o.symbol
      /\ a.sequence = next_sequence /\ a.id = o.id
      /\ a.type = o.type /\ a.tif = o.tif /\ a.price = o.price /\ a.side = o.side
  BY DEF Order
<1> HIDE DEF reason, a
<1>5. RestsBefore(b, next_sequence')
  BY <1>1, BeforeTheNext
<1>6. fills' \in Seq(Fill)
  BY <1>3
<1>7. result' \in Result
  <2>1. CASE reason = "None"
    <3>1. result' = NoResult
      BY <1>3, <2>1
    <3> QED
      BY <3>1 DEF Result, RejectReasons, NoResult
  <2>2. CASE reason # "None"
    <3>1. reason \in RejectReasons
      BY <1>2 DEF RejectReasons
    <3>2. result' = [reject_reason |-> reason, rested |-> FALSE,
                     remaining_after |-> o.quantity]
      BY <1>3, <2>2
    <3> QED
      BY <1>1, <3>1, <3>2 DEF Result
  <2> QED
    BY <2>1, <2>2
<1>8. aggressor' \in IF pc' = "match" THEN Order ELSE {NoOrder}
  BY <1>3, <1>4 DEF TypeOK
<1>9. TypeOK'
  BY <1>1, <1>3, <1>6, <1>7, <1>8 DEF TypeOK, Operations, BookInv, WellFormed
<1>10. pc' = "match" => AggressorInv'
  <2> SUFFICES ASSUME pc' = "match" PROVE AggressorInv'
    OBVIOUS
  <2>1. reason = "None"
    BY <1>3
  <2>2. /\ aggressor' = a /\ book' = b /\ op' = from
        /\ o.symbol = Symbol /\ o.quantity > 0
    BY <1>2, <1>3, <2>1
  <2>3. from = "replace" => FitsBack(b, a)
    BY <1>4 DEF FitsBack
  <2>4. a.tif = "FOK" => a.remaining <= SumFunctionOnSet(Open(b), Acceptable(b, a))
    <3>1. Acceptable(b, a) = Acceptable(b, o)
      BY <1>4 DEF Acceptable
    <3>2. /\ available_liquidity(b, o) \in Int
          /\ available_liquidity(b, o) <= SumFunctionOnSet(Open(b), Acceptable(b, o))
          /\ SumFunctionOnSet(Open(b), Acceptable(b, o)) \in Int
      BY LiquidityIsThere, AcceptableSum
    <3> QED
      BY <1>1, <1>2, <1>4, <2>1, <3>1, <3>2
  <2> QED
    BY <1>1, <1>4, <2>2, <2>3, <2>4 DEF AggressorInv
<1>11. ReplaceKeepsOrder'
  BY <1>2, <1>3 DEF ReplaceKeepsOrder, NoResult
<1> QED
  BY <1>3, <1>5, <1>9, <1>10, <1>11 DEF EngineInv

\* submit up to the matching loop: a rejected order leaves the engine as it was.
LEMMA SubmitKeepsInv ==
  ASSUME EngineInv, NEW t \in Terms, Submit(t)
  PROVE  EngineInv'
<1> DEFINE o == Sequenced(t, next_sequence)
<1>1. o \in Order /\ o.sequence = next_sequence
  BY SequencedOrder DEF EngineInv, TypeOK
<1>2. /\ pc = "idle" /\ next_sequence' = next_sequence + 1
      /\ BeginSubmit(book, o, "submit")
  BY DEF Submit
<1> HIDE DEF o
<1> QED
  BY <1>1, <1>2, BeginSubmitKeepsInv DEF EngineInv

\* cancel takes one order out of the book, or none.
LEMMA CancelKeepsInv ==
  ASSUME EngineInv, NEW id \in OrderIds, Cancel(id)
  PROVE  EngineInv'
<1>1. /\ pc = "idle" /\ pc' = pc /\ op' = "cancel" /\ fills' = << >>
      /\ next_match_id' = next_match_id /\ next_sequence' = next_sequence
      /\ aggressor' = aggressor
      /\ book' = cancel(book, id).book
      /\ result'.reject_reason \in {"None", "UnknownOrder"}
      /\ result' \in Result
  BY DEF Cancel, Result, RejectReasons
<1>2. /\ BookInv(book') /\ QuantitiesMatchQueues(book')
      /\ Uncrossed(book') /\ RestsBefore(book', next_sequence)
  <2>1. CASE id \in Resting(book)
    <3>1. book' = Without(book, id)
      BY <1>1, <2>1 DEF cancel
    <3> QED
      BY <2>1, <3>1, WithoutSound, WithoutKeepsQuantities, WithoutKeepsTerms,
         LessIsUncrossed, Zenon DEF EngineInv
  <2>2. CASE id \notin Resting(book)
    <3>1. book' = book
      BY <1>1, <2>2 DEF cancel
    <3> QED
      BY <3>1 DEF EngineInv
  <2> QED
    BY <2>1, <2>2
<1>3. TypeOK'
  BY <1>1, <1>2 DEF EngineInv, TypeOK, Operations, BookInv, WellFormed
<1> QED
  BY <1>1, <1>2, <1>3 DEF EngineInv, ReplaceKeepsOrder

\* replace up to the loop: the order is out and its new terms are on the way.
LEMMA ReplaceKeepsInv ==
  ASSUME EngineInv, NEW id \in OrderIds, NEW p \in Int, NEW q \in Int,
         Replace(id, p, q)
  PROVE  EngineInv'
<1> DEFINE b == Without(book, id)
           o == book.order_index[id].order
           u == Updated(o, p, q, next_sequence)
           reason == replace_reject(book, id, p, q)
<1>1. /\ pc = "idle" /\ next_sequence \in Nat /\ next_sequence' = next_sequence + 1
  BY Zenon DEF Replace, EngineInv, TypeOK
<1>2. CASE reason = "None"
  <2>1. id \in Resting(book) /\ q > 0 /\ index_of(p) # NoIndex
    BY <1>1, <1>2 DEF replace_reject
  <2>2. BeginSubmit(b, u, "replace")
    BY <1>2, <2>1 DEF Replace, cancel
  <2>3. /\ o \in Order /\ o.id = id
        /\ o.type = "Limit" /\ o.tif = "Day" /\ o.symbol = Symbol
    BY <2>1, RestingOrder, Zenon DEF EngineInv, RestsBefore
  <2>4. /\ u \in Order /\ u.id = id /\ u.type = "Limit" /\ u.tif = "Day"
        /\ u.symbol = Symbol /\ u.price = p /\ u.quantity = q /\ u.remaining = q
        /\ u.sequence = next_sequence
    <3> HIDE DEF o
    <3> QED
      BY <1>1, <2>3, UpdatedOrder
  <2> HIDE DEF u
  <2>5. add_error(b, u) = "None"
    BY <2>1, <2>4, ReplacedFitsBack DEF EngineInv
  <2>6. /\ BookInv(b) /\ QuantitiesMatchQueues(b)
        /\ Uncrossed(b) /\ RestsBefore(b, next_sequence)
    BY <2>1, WithoutSound, WithoutKeepsQuantities, WithoutKeepsTerms,
       LessIsUncrossed DEF EngineInv
  <2> HIDE DEF b
  <2>7. b.live_count \in Int
    BY <2>6, BookTypes DEF BookInv
  <2>8. FitsBack(b, u)
    BY <2>4, <2>5, <2>7, BookAssumption DEF add_error, FitsBack
  <2> QED
    BY <1>1, <2>1, <2>2, <2>4, <2>6, <2>8, BeginSubmitKeepsInv DEF EngineInv
<1>3. CASE reason # "None"
  <2>1. reason \in {"UnknownOrder", "InvalidQuantity", "InvalidPrice"}
    BY <1>3 DEF replace_reject
  <2>2. /\ op' = "replace" /\ fills' = << >>
        /\ result' = [reject_reason |-> reason, rested |-> FALSE, remaining_after |-> 0]
        /\ book' = book /\ next_match_id' = next_match_id
        /\ pc' = pc /\ aggressor' = aggressor
    BY <1>3 DEF Replace
  <2> HIDE DEF reason
  <2>3. result' \in Result /\ result'.reject_reason = reason
    BY <2>1, <2>2 DEF Result, RejectReasons
  <2>4. TypeOK'
    BY <1>1, <2>2, <2>3 DEF EngineInv, TypeOK, Operations
  <2>5. RestsBefore(book, next_sequence + 1)
    BY <1>1, BeforeTheNext DEF EngineInv
  <2>6. ReplaceKeepsOrder'
    BY <2>1, <2>3 DEF ReplaceKeepsOrder
  <2> QED
    BY <1>1, <2>2, <2>4, <2>5, <2>6 DEF EngineInv
<1> QED
  BY <1>2, <1>3

\* One turn of the loop: the front of the best level can take the fill, so
\* reduce_quantity does not refuse it, and something is left of neither side
\* or of one.
LEMMA MatchOneStep ==
  ASSUME EngineInv, MatchOne
  PROVE  /\ EngineInv' /\ aggressor'.remaining \in 0 .. aggressor.remaining - 1
         /\ KeepsTerms(book, book')
<1> DEFINE s == opposite(aggressor.side)
           id == Head(Queue(book, s, best_index(book, s)))
           best == price_at(best_index(book, s))
           r == book.order_index[id].order
           fill_qty == fill_quantity(aggressor, r)
<1>1. /\ pc = "match" /\ aggressor \in Order /\ AggressorInv
      /\ aggressor.remaining > 0 /\ best_index(book, s) # NoIndex
  BY DEF MatchOne, Matchable, EngineInv, TypeOK
<1>2. s \in Sides /\ aggressor.remaining \in Int
  BY <1>1 DEF opposite, Sides, Order
<1>3. /\ id \in Resting(book) /\ r.id = id /\ front_at(book, s, best) = r
      /\ best_index(book, s) \in Indices
  BY <1>1, <1>2, FrontOfBest, Zenon DEF EngineInv
<1>4. r \in Order /\ r.remaining \in Int /\ r.remaining > 0
  BY <1>3, RestingOrder, ZenonT(30) DEF EngineInv
<1>5. /\ fill_qty \in Int /\ 0 < fill_qty
      /\ fill_qty <= r.remaining /\ fill_qty <= aggressor.remaining
  <2> HIDE DEF r
  <2> QED
    BY <1>1, <1>2, <1>4, FillIsSmaller
<1>6. /\ fills' = Append(fills,
                    [match_id |-> next_match_id,
                     resting_order_id |-> r.id,
                     resting_client_id |-> r.client,
                     aggressor_order_id |-> aggressor.id,
                     aggressor_client_id |-> aggressor.client,
                     price |-> best,
                     quantity |-> fill_qty,
                     aggressor_side |-> aggressor.side,
                     resting_fully_filled |-> fill_qty = r.remaining])
      /\ next_match_id' = next_match_id + 1
      /\ book' = reduce_quantity(book, r.id, fill_qty).book
      /\ aggressor' = [aggressor EXCEPT !.remaining = @ - fill_qty]
      /\ next_sequence' = next_sequence /\ pc' = pc /\ op' = op /\ result' = result
  BY <1>3, ZenonT(30) DEF MatchOne
<1>7. best \in Int
  BY <1>3, LadderAssumption, BookAssumption DEF price_at, Indices
<1>7a. id \in Acceptable(book, aggressor)
  BY <1>1, FrontIsAcceptable DEF EngineInv, MatchOne, Matchable
<1> HIDE DEF s, best, r, fill_qty
<1>8. BookInv(book') /\ QuantitiesMatchQueues(book') /\ KeepsTerms(book, book')
  BY <1>3, <1>5, <1>6, ReduceSound, ReduceKeepsQuantities, ZenonT(30) DEF EngineInv, r
<1>8a. SumFunctionOnSet(Open(book'), Acceptable(book', aggressor)) =
         SumFunctionOnSet(Open(book), Acceptable(book, aggressor)) - fill_qty
  BY <1>1, <1>3, <1>5, <1>6, <1>7a, FillTakesFromBoth, ZenonT(30) DEF EngineInv, r
<1> HIDE DEF id
<1>9. /\ Uncrossed(book') /\ RestsBefore(book', next_sequence)
      /\ RestsBefore(book', aggressor.sequence)
  BY <1>1, <1>8, LessIsUncrossed DEF EngineInv, AggressorInv
<1>10. /\ aggressor' \in Order
       /\ aggressor'.remaining = aggressor.remaining - fill_qty
       /\ aggressor'.sequence = aggressor.sequence
       /\ aggressor'.symbol = aggressor.symbol
       /\ aggressor'.id = aggressor.id /\ aggressor'.price = aggressor.price
       /\ aggressor'.type = aggressor.type /\ aggressor'.tif = aggressor.tif
       /\ aggressor'.side = aggressor.side
  BY <1>1, <1>2, <1>5, <1>6 DEF Order
<1>11. fills' \in Seq(Fill)
  <2>1. /\ next_match_id \in Nat
        /\ r.id \in OrderIds /\ r.client \in Clients
        /\ aggressor.id \in OrderIds /\ aggressor.client \in Clients
        /\ aggressor.side \in Sides /\ (fill_qty = r.remaining) \in BOOLEAN
    BY <1>1, <1>4 DEF EngineInv, TypeOK, Order
  <2>2. [match_id |-> next_match_id,
         resting_order_id |-> r.id,
         resting_client_id |-> r.client,
         aggressor_order_id |-> aggressor.id,
         aggressor_client_id |-> aggressor.client,
         price |-> best,
         quantity |-> fill_qty,
         aggressor_side |-> aggressor.side,
         resting_fully_filled |-> fill_qty = r.remaining] \in Fill
    BY <1>5, <1>7, <2>1 DEF Fill
  <2>3. fills \in Seq(Fill)
    BY DEF EngineInv, TypeOK
  <2> QED
    BY <1>6, <2>2, <2>3
<1>12. TypeOK'
  <2>1. next_match_id' \in Nat
    BY <1>6 DEF EngineInv, TypeOK
  <2> QED
    BY <1>1, <1>6, <1>8, <1>10, <1>11, <2>1 DEF EngineInv, TypeOK, BookInv, WellFormed
<1>13. aggressor'.remaining \in 0 .. aggressor.remaining - 1
  BY <1>2, <1>5, <1>10
<1>14. op = "replace" => FitsBack(book', aggressor')
  <2> SUFFICES ASSUME op = "replace" PROVE FitsBack(book', aggressor')
    OBVIOUS
  <2>1. FitsBack(book, aggressor) /\ Resting(book') \subseteq Resting(book)
    BY <1>1, <1>8 DEF AggressorInv, KeepsTerms
  <2>2. book'.live_count < MaxOrders
    BY <1>8, <2>1, LessLeavesRoom DEF EngineInv, FitsBack
  <2> QED
    BY <1>10, <2>1, <2>2 DEF FitsBack
<1>15. aggressor'.tif = "FOK" =>
         aggressor'.remaining <= SumFunctionOnSet(Open(book'), Acceptable(book', aggressor'))
  <2>1. Acceptable(book', aggressor') = Acceptable(book', aggressor)
    BY <1>10 DEF Acceptable
  <2>2. SumFunctionOnSet(Open(book), Acceptable(book, aggressor)) \in Int
    BY AcceptableSum DEF EngineInv
  <2>3. aggressor.tif = "FOK" =>
          aggressor.remaining <= SumFunctionOnSet(Open(book), Acceptable(book, aggressor))
    BY <1>1, ZenonT(30) DEF AggressorInv
  <2> QED
    BY <1>2, <1>5, <1>8a, <1>10, <2>1, <2>2, <2>3
<1>16. AggressorInv'
  BY <1>1, <1>2, <1>6, <1>9, <1>10, <1>13, <1>14, <1>15 DEF AggressorInv
<1>17. ReplaceKeepsOrder'
  BY <1>6 DEF EngineInv, ReplaceKeepsOrder
<1> QED
  BY <1>6, <1>8, <1>9, <1>12, <1>13, <1>16, <1>17 DEF EngineInv

\* A book stays uncrossed when it stores an order that no longer crosses the
\* touch of the other side.
LEMMA StoredDoesNotCross ==
  ASSUME NEW b, BookInv(b), Uncrossed(b), NEW o \in Order,
         NEW c, Resting(c) = Resting(b) \cup {o.id}, o.id \notin Resting(b),
         \A id \in Resting(b) : c.order_index[id] = b.order_index[id],
         c.order_index[o.id].order = o,
         LET best == best_index(b, opposite(o.side))
         IN  best # NoIndex => ~crosses(o.side, o.price, price_at(best))
  PROVE  Uncrossed(c)
<1>1. o.price \in Int /\ o.side \in Sides
  BY Zenon DEF Order
<1>2. ASSUME NEW id \in Resting(b), b.order_index[id].order.side = opposite(o.side)
      PROVE  /\ o.side = "Buy" => o.price < b.order_index[id].order.price
             /\ o.side = "Sell" => b.order_index[id].order.price < o.price
  <2> DEFINE r == b.order_index[id].order
             best == best_index(b, r.side)
  <2>1. best # NoIndex
    BY TouchBounds, Zenon
  <2>2. /\ r.side = "Sell" /\ ~(o.price >= price_at(best)) => o.price < r.price
        /\ r.side = "Buy" /\ ~(o.price <= price_at(best)) => r.price < o.price
    BY <1>1, CrossesOnlyThroughTouch, Zenon
  <2>3. ~crosses(o.side, o.price, price_at(best))
    BY <1>2, <2>1, Zenon
  <2> HIDE DEF r, best
  <2>4. /\ o.side = "Buy" => r.side = "Sell" /\ ~(o.price >= price_at(best))
        /\ o.side = "Sell" => r.side = "Buy" /\ ~(o.price <= price_at(best))
    BY <1>1, <1>2, <2>3, Zenon DEF crosses, opposite, r
  <2> QED
    BY <2>2, <2>4, Zenon DEF r
<1>3. ASSUME NEW bid \in Resting(c), NEW ask \in Resting(c),
             c.order_index[bid].order.side = "Buy",
             c.order_index[ask].order.side = "Sell"
      PROVE  c.order_index[bid].order.price < c.order_index[ask].order.price
  <2>1. CASE bid # o.id /\ ask # o.id
    BY <1>3, <2>1, Zenon DEF Uncrossed
  <2>2. CASE bid = o.id /\ ask # o.id
    BY <1>2, <1>3, <2>2, Zenon DEF opposite
  <2>3. CASE bid # o.id /\ ask = o.id
    BY <1>2, <1>3, <2>3, Zenon DEF opposite
  <2>4. CASE bid = o.id /\ ask = o.id
    BY <1>3, <2>4, Zenon
  <2> QED
    BY <2>1, <2>2, <2>3, <2>4, Zenon
<1> QED
  BY <1>3, Zenon DEF Uncrossed

\* The end of submit: the remainder is stored, dropped or turned down.
LEMMA FinishSubmitKeepsInv ==
  ASSUME EngineInv, FinishSubmit
  PROVE  EngineInv'
<1> DEFINE err == add_error(book, aggressor)
<1>1. /\ pc = "match" /\ aggressor \in Order /\ AggressorInv /\ ~Matchable
      /\ pc' = "idle" /\ aggressor' = NoOrder
      /\ next_match_id' = next_match_id /\ next_sequence' = next_sequence
      /\ op' = op /\ fills' = fills
  BY Zenon DEF FinishSubmit, EngineInv, TypeOK
<1>2. aggressor.remaining \in Int /\ aggressor.sequence \in Nat /\ next_sequence \in Nat
  BY <1>1 DEF Order, EngineInv, TypeOK
<1>3. SUFFICES /\ BookInv(book') /\ QuantitiesMatchQueues(book')
               /\ Uncrossed(book') /\ RestsBefore(book', next_sequence)
               /\ result' \in Result
               /\ ReplaceKeepsOrder'
  <2>1. TypeOK'
    BY <1>1, <1>3 DEF EngineInv, TypeOK, BookInv, WellFormed
  <2> QED
    BY <1>1, <1>3, <2>1 DEF EngineInv
<1>4. CASE ~Rests(aggressor)
  <2>1. /\ book' = book
        /\ result' = [reject_reason |-> "None", rested |-> FALSE,
                      remaining_after |-> aggressor.remaining]
    BY <1>4, Zenon DEF FinishSubmit
  <2> QED
    BY <1>2, <2>1, Zenon DEF EngineInv, ReplaceKeepsOrder, Result, RejectReasons
<1>5. CASE Rests(aggressor)
  <2>1. /\ book' = IF err = "None" THEN Rest(book, aggressor) ELSE book
        /\ result' = [reject_reason |-> IF err = "None" THEN "None"
                                        ELSE "BookCapacityExceeded",
                      rested |-> err = "None",
                      remaining_after |-> aggressor.remaining]
    BY <1>5 DEF FinishSubmit, add
  <2>2. op = "replace" => err = "None"
    <3>1. op = "replace" => FitsBack(book, aggressor)
      BY <1>1 DEF AggressorInv
    <3>2. book.live_count \in Int
      BY BookTypes DEF EngineInv, BookInv
    <3> QED
      BY <1>2, <1>5, <3>1, <3>2, BookAssumption DEF add_error, FitsBack, Rests
  <2> HIDE DEF err
  <2>3. result' \in Result
    BY <1>2, <2>1 DEF Result, RejectReasons
  <2>4. ReplaceKeepsOrder'
    BY <1>1, <2>1, <2>2 DEF ReplaceKeepsOrder
  <2>5. CASE err # "None"
    BY <2>1, <2>3, <2>4, <2>5 DEF EngineInv
  <2>6. CASE err = "None"
    <3> DEFINE c == Rest(book, aggressor)
    <3>1. /\ BookInv(c)
          /\ Resting(c) = Resting(book) \cup {aggressor.id}
          /\ \A id \in Resting(book) : c.order_index[id] = book.order_index[id]
          /\ c.order_index[aggressor.id].order = aggressor
      BY <1>1, <2>6, RestSound, Zenon DEF EngineInv, AggressorInv, RestsBefore, err
    <3>1a. QuantitiesMatchQueues(c)
      BY <1>1, <2>6, RestKeepsQuantities, Zenon DEF EngineInv, AggressorInv, RestsBefore, err
    <3>2. aggressor.id \notin Resting(book) /\ book' = c
      BY <2>1, <2>6 DEF add_error, err
    <3> HIDE DEF c
    <3>3. LET best == best_index(book, opposite(aggressor.side))
          IN  best # NoIndex => ~crosses(aggressor.side, aggressor.price, price_at(best))
      BY <1>1, <1>5 DEF Matchable, Rests
    <3>4. Uncrossed(c)
      BY <1>1, <3>1, <3>2, <3>3, StoredDoesNotCross, Zenon DEF EngineInv
    <3>5. RestsBefore(c, next_sequence)
      <4> SUFFICES ASSUME NEW id \in Resting(c)
                   PROVE  LET o == c.order_index[id].order
                          IN  /\ o.sequence < next_sequence
                              /\ o.type = "Limit" /\ o.tif = "Day" /\ o.symbol = Symbol
        BY DEF RestsBefore
      <4>1. CASE id = aggressor.id
        BY <1>1, <1>5, <3>1, <4>1, Zenon DEF AggressorInv, Rests
      <4>2. CASE id # aggressor.id
        BY <3>1, <4>2, ZenonT(30) DEF EngineInv, RestsBefore
      <4> QED
        BY <4>1, <4>2, ZenonT(30)
    <3> QED
      BY <2>3, <2>4, <3>1, <3>1a, <3>2, <3>4, <3>5
  <2> QED
    BY <2>5, <2>6
<1> QED
  BY <1>4, <1>5

-----------------------------------------------------------------------------
(* The theorems.                                                           *)

\* A fresh engine satisfies the inductive invariant.
LEMMA EngineStarts == Init => EngineInv
<1> SUFFICES ASSUME Init PROVE EngineInv
  OBVIOUS
<1>1. BookInv(book) /\ QuantitiesMatchQueues(book) /\ Resting(book) = {}
  BY EmptyBookSound, EmptyBookQuantities DEF Init
<1>2. TypeOK
  <2>1. result \in Result
    BY DEF Init, NoResult, Result, RejectReasons
  <2> QED
    BY <1>1, <2>1 DEF Init, TypeOK, Operations, BookInv, WellFormed
<1> QED
  BY <1>1, <1>2 DEF Init, EngineInv, Uncrossed, RestsBefore, ReplaceKeepsOrder

\* The invariant speaks of the variables of the engine only.
LEMMA EngineStutters == EngineInv /\ UNCHANGED vars => EngineInv'
  BY DEF EngineInv, TypeOK, AggressorInv, ReplaceKeepsOrder, vars, callVars

\* The inductive invariant of the engine, from the lemmas on its actions.
LEMMA EngineInvariant == Spec => []EngineInv
<1>1. EngineInv /\ [Next]_vars => EngineInv'
  <2> SUFFICES ASSUME EngineInv, [Next]_vars PROVE EngineInv'
    OBVIOUS
  <2>1. CASE Next
    BY <2>1, EngineAssumption, SubmitKeepsInv, CancelKeepsInv, ReplaceKeepsInv,
       MatchOneStep, FinishSubmitKeepsInv DEF Next
  <2>2. CASE UNCHANGED vars
    BY <2>2, EngineStutters
  <2> QED
    BY <2>1, <2>2
<1> QED
  BY EngineStarts, <1>1, PTL DEF Spec

\* The type invariant of the engine.
THEOREM EngineTypeCorrect == Spec => []TypeOK
<1>1. EngineInv => TypeOK
  BY DEF EngineInv
<1> QED
  BY <1>1, EngineInvariant, PTL

\* The parts of the book agree after every step of submit, cancel and
\* replace, the turns of the matching loop included.
THEOREM EngineStructured == Spec => []BookStructured
<1>1. EngineInv => BookStructured
  BY DEF EngineInv, BookInv, BookStructured
<1> QED
  BY <1>1, EngineInvariant, PTL

\* Between calls no resting buy order reaches the price of a resting sell
\* order.
THEOREM EngineNeverCrossed == Spec => []NeverCrossed
<1>1. EngineInv => NeverCrossed
  BY DEF EngineInv, Uncrossed, NeverCrossed
<1> QED
  BY <1>1, EngineInvariant, PTL

\* A fill-or-kill order that submit lets into the matching loop is filled
\* when the loop stops.
THEOREM EngineFillsOrKills == Spec => []FokAllOrNothing
<1>1. EngineInv => FokAllOrNothing
  <2> SUFFICES ASSUME EngineInv, pc = "match", aggressor.tif = "FOK", ~Matchable
               PROVE  aggressor.remaining = 0
    BY DEF FokAllOrNothing
  <2>1. /\ aggressor \in Order /\ aggressor.remaining \in Int /\ aggressor.remaining >= 0
        /\ aggressor.remaining <= SumFunctionOnSet(Open(book), Acceptable(book, aggressor))
    BY DEF EngineInv, AggressorInv, TypeOK, Order
  <2> SUFFICES ASSUME aggressor.remaining > 0 PROVE FALSE
    BY <2>1
  <2>2. Acceptable(book, aggressor) = {}
    BY <2>1, NothingAcceptable DEF EngineInv, Matchable
  <2>3. SumFunctionOnSet(Open(book), {}) = 0
    BY SumSteps, FS_EmptySet
  <2> QED
    BY <2>1, <2>2, <2>3
<1> QED
  BY <1>1, EngineInvariant, PTL

\* replace never returns with the order it cancelled neither traded nor back
\* in the book.
THEOREM EngineReplaceKeepsOrder == Spec => []ReplaceKeepsOrder
<1>1. EngineInv => ReplaceKeepsOrder
  BY DEF EngineInv
<1> QED
  BY <1>1, EngineInvariant, PTL

\* The open quantity of the aggressor is a variant of the matching loop.
THEOREM EngineLoopMakesProgress == Spec => LoopMakesProgress
<1> DEFINE Progress == pc = "match" /\ pc' = "match" =>
                         aggressor'.remaining \in 0 .. aggressor.remaining - 1
<1>1. EngineInv /\ [Next]_vars => [Progress]_vars
  <2> SUFFICES ASSUME EngineInv, Next, pc = "match", pc' = "match"
               PROVE  aggressor'.remaining \in 0 .. aggressor.remaining - 1
    OBVIOUS
  <2>1. MatchOne
    BY Zenon DEF Next, Submit, Cancel, Replace, FinishSubmit
  <2> QED
    BY <2>1, MatchOneStep
<1> QED
  BY <1>1, EngineInvariant, PTL DEF Spec, LoopMakesProgress

-----------------------------------------------------------------------------
(* The engine implements price-time priority.                              *)

\* No order is the one that stands for none.
LEMMA OrderIsNotNone ==
  ASSUME NEW o \in Order
  PROVE  o # NoOrder
<1> SUFFICES ASSUME o = NoOrder PROVE FALSE
  OBVIOUS
<1>1. DOMAIN NoOrder = {"id"}
  BY DEF NoOrder
<1>2. "price" \in DOMAIN o
  BY DEF Order
<1> QED
  BY <1>1, <1>2

\* What the abstract market sees of a book.
LEMMA OrdersOf ==
  ASSUME NEW b
  PROVE  /\ DOMAIN Orders(b) = Resting(b)
         /\ \A id \in Resting(b) : Orders(b)[id] = b.order_index[id].order
         /\ [id \in DOMAIN Orders(b) |-> Orders(b)[id].remaining] = Open(b)
  BY DEF Orders, Open

\* The sum that the abstract market speaks of is the usual one.
LEMMA SameSum ==
  ASSUME NEW f, NEW S
  PROVE  Market!SumFunctionOnSet(f, S) = SumFunctionOnSet(f, S)
  BY DEF Market!SumFunctionOnSet, Market!FoldFunctionOnSet, Market!MapThenFoldSet,
         SumFunctionOnSet, FoldFunctionOnSet, MapThenFoldSet

\* So is its count.
LEMMA SameCardinality ==
  ASSUME NEW S
  PROVE  Market!Cardinality(S) = Cardinality(S)
  BY DEF Market!Cardinality, Cardinality

\* The counterparts of the abstract market are the acceptable orders.
LEMMA CounterpartsAcceptable ==
  ASSUME BookInv(book), NEW o \in Order
  PROVE  Market!Counterparts(o) = Acceptable(book, o)
<1>1. o.side \in Sides /\ o.price \in Int
  BY DEF Order
<1>2. ASSUME NEW id \in Resting(book)
      PROVE  LET r == book.order_index[id].order
             IN  Market!Accepts(o, r) <=>
                   /\ r.side = opposite(o.side)
                   /\ o.type = "Market" \/ crosses(o.side, o.price, r.price)
  <2> DEFINE r == book.order_index[id].order
  <2>1. r.side \in Sides /\ r.price \in Int
    BY RestingOrder
  <2> HIDE DEF r
  <2>2. Market!Accepts(o, r) <=>
          /\ r.side = opposite(o.side)
          /\ o.type = "Market" \/ crosses(o.side, o.price, r.price)
    BY <1>1, <2>1 DEF Market!Accepts, crosses, opposite, Sides
  <2> QED
    BY <2>2 DEF r
<1> QED
  BY <1>2, OrdersOf DEF Market!Counterparts, Acceptable

\* The front of the best level has priority over every other order of its side.
LEMMA FrontPrecedes ==
  ASSUME NEW b, BookInv(b), NEW s \in Sides, best_index(b, s) # NoIndex,
         NEW k \in Resting(b), b.order_index[k].order.side = s,
         k # Head(Queue(b, s, best_index(b, s)))
  PROVE  LET r == b.order_index[Head(Queue(b, s, best_index(b, s)))].order
             o == b.order_index[k].order
         IN  \/ s = "Buy" /\ r.price > o.price
             \/ s = "Sell" /\ r.price < o.price
             \/ r.price = o.price /\ r.sequence < o.sequence
<1> DEFINE i == best_index(b, s)
           q == Queue(b, s, i)
           id == Head(q)
           r == b.order_index[id].order
           o == b.order_index[k].order
<1>1. /\ i \in Indices /\ id \in Resting(b) /\ r.price = price_at(i) /\ r.side = s
  BY FrontOfBest
<1>2. /\ o.price \in Int /\ price_at(i) \in Int
      /\ s = "Buy" => o.price <= price_at(i)
      /\ s = "Sell" => o.price >= price_at(i)
  BY <1>1, TouchBounds, RestingOrder, ZenonT(30)
<1>3. CASE o.price # price_at(i)
  <2> HIDE DEF i, r, o
  <2>1. \/ s = "Buy" /\ r.price > o.price
        \/ s = "Sell" /\ r.price < o.price
    BY <1>1, <1>2, <1>3 DEF Sides
  <2> QED
    BY <2>1, ZenonT(30) DEF i, r, o
<1>4. CASE o.price = price_at(i)
  <2>1. b.order_index[k].level_index = i
    <3>1. b.order_index[k].level_index \in Indices
      BY BookTypes DEF BookInv, Node
    <3>2. price_at(b.order_index[k].level_index) = price_at(i)
      BY <1>4, RestingAtPrice
    <3> HIDE DEF i
    <3> QED
      BY <1>1, <3>1, <3>2, BookAssumption, LadderAssumption DEF price_at, Indices
  <2>2. PICK n \in DOMAIN q : q[n] = k
    <3>1. \E n \in DOMAIN Queue(b, o.side, b.order_index[k].level_index) :
            Queue(b, o.side, b.order_index[k].level_index)[n] = k
      BY RestingInQueue, ZenonT(30)
    <3> QED
      BY <2>1, <3>1
  <2>3. q \in Seq(OrderIds)
    BY <1>1, BookTypes, ZenonT(30) DEF BookInv
  <2>4. q # << >> /\ id = q[1] /\ 1 \in DOMAIN q /\ n # 1 /\ n \in Nat /\ 1 < n
    <3> HIDE DEF q
    <3> QED
      BY <2>2, <2>3 DEF q
  <2>5. r.sequence < o.sequence
    BY <1>1, <2>2, <2>4, ZenonT(30) DEF BookInv, Structured, QueuesInTimeOrder, Queue
  <2> QED
    BY <1>1, <1>4, <2>5, ZenonT(30)
<1> QED
  BY <1>3, <1>4, ZenonT(30)

\* It is the one that the abstract market chooses.
LEMMA FrontIsFirst ==
  ASSUME BookInv(book), NEW o \in Order,
         LET best == best_index(book, opposite(o.side))
         IN  /\ best # NoIndex
             /\ o.type = "Limit" => crosses(o.side, o.price, price_at(best))
  PROVE  LET s == opposite(o.side)
         IN  /\ Head(Queue(book, s, best_index(book, s))) \in Acceptable(book, o)
             /\ Market!First(Acceptable(book, o)) = Head(Queue(book, s, best_index(book, s)))
<1> DEFINE s == opposite(o.side)
           id == Head(Queue(book, s, best_index(book, s)))
           C == Acceptable(book, o)
           P(j, k) == Market!Precedes(Orders(book)[j], Orders(book)[k])
<1>1. id \in C /\ s \in Sides
  BY FrontIsAcceptable DEF opposite, Sides
<1>2. /\ C \subseteq Resting(book)
      /\ \A k \in C : /\ Orders(book)[k].side = s
                       /\ Orders(book)[k].price \in Int /\ Orders(book)[k].sequence \in Int
  <2>1. \A k \in C : k \in Resting(book) /\ book.order_index[k].order.side = s
    BY DEF Acceptable
  <2>2. \A k \in Resting(book) : /\ book.order_index[k].order.price \in Int
                                  /\ book.order_index[k].order.sequence \in Int
    BY RestingOrder
  <2> HIDE DEF C, s
  <2> QED
    BY <2>1, <2>2, OrdersOf, ZenonT(30)
<1>3. ASSUME NEW k \in C, k # id PROVE P(id, k)
  <2>1. k \in Resting(book) /\ book.order_index[k].order.side = s
    BY <1>2, OrdersOf, ZenonT(30)
  <2>2. LET r == book.order_index[id].order
            q == book.order_index[k].order
        IN  \/ s = "Buy" /\ r.price > q.price
            \/ s = "Sell" /\ r.price < q.price
            \/ r.price = q.price /\ r.sequence < q.sequence
    BY <1>1, <1>3, <2>1, FrontPrecedes, ZenonT(30)
  <2> HIDE DEF id, s
  <2>3. /\ Orders(book)[id] = book.order_index[id].order
        /\ Orders(book)[k] = book.order_index[k].order
        /\ Orders(book)[id].side = s
    BY <1>1, <1>2, OrdersOf, Zenon
  <2> QED
    BY <2>2, <2>3, Zenon DEF Market!Precedes
<1>4. ASSUME NEW k \in C, k # id PROVE ~P(k, id)
  <2>1. P(id, k)
    BY <1>3, <1>4
  <2>2. /\ Orders(book)[id].price \in Int /\ Orders(book)[k].price \in Int
        /\ Orders(book)[id].sequence \in Int /\ Orders(book)[k].sequence \in Int
        /\ Orders(book)[id].side = s /\ Orders(book)[k].side = s
    BY <1>1, <1>2, ZenonT(30)
  <2> DEFINE a == Orders(book)[id].price
             b == Orders(book)[k].price
             m == Orders(book)[id].sequence
             n == Orders(book)[k].sequence
  <2>3. s = "Buy" \/ s = "Sell"
    BY <1>1 DEF Sides
  <2> HIDE DEF id, s
  <2>4. /\ P(id, k) <=> \/ s = "Buy" /\ a > b
                        \/ s = "Sell" /\ a < b
                        \/ a = b /\ m < n
        /\ P(k, id) <=> \/ s = "Buy" /\ b > a
                        \/ s = "Sell" /\ b < a
                        \/ b = a /\ n < m
    BY <2>2, Zenon DEF Market!Precedes
  <2>5. a \in Int /\ b \in Int /\ m \in Int /\ n \in Int
    BY <2>2, ZenonT(30)
  <2> HIDE DEF P, a, b, m, n
  <2> QED
    BY <2>1, <2>3, <2>4, <2>5, SMT
<1> HIDE DEF P, id, C
<1>5. Market!First(C) = CHOOSE j \in C : \A k \in C \ {j} : P(j, k)
  BY DEF Market!First, P
<1>6. \A j \in C : (\A k \in C \ {j} : P(j, k)) <=> j = id
  BY <1>1, <1>3, <1>4
<1>7. Market!First(C) = id
  BY <1>1, <1>5, <1>6
<1> QED
  BY <1>1, <1>7 DEF id, C

\* The prologue of submit: the order is refused or has arrived; the one that a
\* replace sends in again has been withdrawn.
LEMMA SubmitRefines ==
  ASSUME EngineInv, NEW t \in Terms, Submit(t)
  PROVE  Market!Next
<1> DEFINE o == Sequenced(t, next_sequence)
           a == [o EXCEPT !.remaining = o.quantity]
           reason == submit_reject(book, o)
<1>1. /\ pc = "idle" /\ aggressor = NoOrder /\ next_sequence \in Nat
      /\ BeginSubmit(book, o, "submit")
  BY DEF Submit, EngineInv, TypeOK
<1>2. o \in Order /\ o.sequence = next_sequence /\ o.quantity \in Int
  BY <1>1, SequencedOrder DEF Order
<1> HIDE DEF o
<1>3. /\ a \in Order /\ a.quantity = o.quantity /\ a.remaining = o.quantity
      /\ a.sequence = next_sequence /\ a.tif = o.tif
      /\ a.side = o.side /\ a.type = o.type /\ a.price = o.price
  BY <1>2 DEF Order
<1>4. /\ book' = book /\ fills' = << >>
      /\ reason = "None" => aggressor' = a
      /\ reason # "None" => aggressor' = aggressor
  BY <1>1 DEF BeginSubmit
<1> HIDE DEF a
<1>5. CASE reason # "None"
  BY <1>1, <1>4, <1>5 DEF Market!Next, Market!Refuse
<1>6. CASE reason = "None"
  <2>1. /\ o.quantity > 0
        /\ o.tif = "FOK" => ~(available_liquidity(book, o) < o.quantity)
    BY <1>2, <1>6 DEF submit_reject
  <2>2. Market!Fresh(a)
    <3>1. \A id \in DOMAIN Orders(book) : Orders(book)[id].sequence < next_sequence
      BY OrdersOf, ZenonT(30) DEF EngineInv, RestsBefore
    <3> QED
      BY <1>3, <2>1, <3>1 DEF Market!Fresh
  <2>3. a.tif = "FOK" => Market!Fillable(a)
    <3>1. Market!Counterparts(a) = Acceptable(book, a)
      BY <1>3, CounterpartsAcceptable DEF EngineInv
    <3>2. Acceptable(book, a) = Acceptable(book, o)
      BY <1>3 DEF Acceptable
    <3>3. /\ available_liquidity(book, o) \in Int
          /\ available_liquidity(book, o) <= SumFunctionOnSet(Open(book), Acceptable(book, o))
          /\ SumFunctionOnSet(Open(book), Acceptable(book, o)) \in Int
      BY <1>2, LiquidityIsThere, AcceptableSum DEF EngineInv
    <3>4. Market!Fillable(a) <=>
            SumFunctionOnSet(Open(book), Market!Counterparts(a)) >= a.quantity
      BY OrdersOf, SameSum, ZenonT(30) DEF Market!Fillable
    <3> QED
      BY <1>2, <1>3, <2>1, <3>1, <3>2, <3>3, <3>4
  <2>4. a # NoOrder
    BY <1>3, OrderIsNotNone
  <2>5. Market!Arrive
    BY <1>1, <1>4, <1>6, <2>2, <2>3, <2>4 DEF Market!Arrive
  <2> QED
    BY <2>5 DEF Market!Next
<1> QED
  BY <1>5, <1>6

\* The orders of a book that lost one.
LEMMA OrdersWithout ==
  ASSUME NEW b, BookInv(b), NEW x \in Resting(b)
  PROVE  Orders(Without(b, x)) = [k \in DOMAIN Orders(b) \ {x} |-> Orders(b)[k]]
<1>1. /\ Resting(Without(b, x)) = Resting(b) \ {x}
      /\ \A id \in Resting(b) \ {x} : Without(b, x).order_index[id] = b.order_index[id]
  BY WithoutSound
<1> QED
  BY <1>1 DEF Orders

\* cancel withdraws an order, or is refused.
LEMMA CancelRefines ==
  ASSUME EngineInv, NEW id \in OrderIds, Cancel(id)
  PROVE  Market!Next
<1>1. /\ aggressor = NoOrder /\ aggressor' = NoOrder /\ fills' = << >>
      /\ book' = cancel(book, id).book
  BY DEF Cancel, EngineInv, TypeOK
<1>2. CASE id \in Resting(book)
  <2>1. Orders(book') = [k \in DOMAIN Orders(book) \ {id} |-> Orders(book)[k]]
    BY <1>1, <1>2, OrdersWithout, Zenon DEF cancel, EngineInv
  <2>2. id \in DOMAIN Orders(book)
    BY <1>2, OrdersOf
  <2>3. Market!Withdraw
    BY <1>1, <2>1, <2>2 DEF Market!Withdraw
  <2> QED
    BY <2>3 DEF Market!Next
<1>3. CASE id \notin Resting(book)
  <2>1. book' = book
    BY <1>1, <1>3 DEF cancel
  <2>2. Market!Refuse
    BY <1>1, <2>1 DEF Market!Refuse
  <2> QED
    BY <2>2 DEF Market!Next
<1> QED
  BY <1>2, <1>3

LEMMA ReplaceRefines ==
  ASSUME EngineInv, NEW id \in OrderIds, NEW p \in Int, NEW q \in Int,
         Replace(id, p, q)
  PROVE  Market!Next
<1> DEFINE b == Without(book, id)
           o == book.order_index[id].order
           u == Updated(o, p, q, next_sequence)
           a == [u EXCEPT !.remaining = u.quantity]
<1>1. pc = "idle" /\ aggressor = NoOrder /\ next_sequence \in Nat
  BY ZenonT(30) DEF Replace, EngineInv, TypeOK
<1>2. CASE replace_reject(book, id, p, q) = "None"
  <2>1. id \in Resting(book) /\ q > 0
    BY <1>2 DEF replace_reject
  <2>2. BeginSubmit(b, u, "replace")
    BY <1>2, <2>1 DEF Replace, cancel
  <2>3. o \in Order /\ o.id = id /\ o.tif = "Day" /\ o.symbol = Symbol
    BY <2>1, RestingOrder, ZenonT(30) DEF EngineInv, RestsBefore
  <2>4. Orders(b) = [k \in DOMAIN Orders(book) \ {id} |-> Orders(book)[k]]
    BY <2>1, OrdersWithout DEF EngineInv
  <2>5. id \in DOMAIN Orders(book) /\ Orders(book)[id] = o
    BY <2>1, OrdersOf
  <2> HIDE DEF o, b
  <2>6. /\ u \in Order /\ u.symbol = Symbol /\ u.tif = "Day" /\ u.quantity = q
    BY <1>1, <2>3, UpdatedOrder
  <2>7. /\ a = [o EXCEPT !.price = p, !.quantity = q, !.remaining = q,
                         !.sequence = next_sequence]
        /\ a.price = p /\ a.quantity = q /\ a.remaining = q /\ a.sequence = next_sequence
    BY <1>1, <2>3, ZenonT(30) DEF Order, Updated
  <2> HIDE DEF u
  <2>8. submit_reject(b, u) = "None"
    BY <2>1, <2>6 DEF submit_reject
  <2>9. book' = b /\ aggressor' = a /\ fills' = << >>
    BY <2>2, <2>8 DEF BeginSubmit
  <2> HIDE DEF a
  <2>10. Market!Fresh(a)
    <3>1. \A k \in DOMAIN Orders(book) : Orders(book)[k].sequence < next_sequence
      BY OrdersOf, ZenonT(30) DEF EngineInv, RestsBefore
    <3> QED
      BY <2>1, <2>7, <3>1 DEF Market!Fresh
  <2>11. aggressor' = [Orders(book)[id] EXCEPT !.price = aggressor'.price,
                                               !.quantity = aggressor'.quantity,
                                               !.remaining = aggressor'.quantity,
                                               !.sequence = aggressor'.sequence]
    BY <2>5, <2>7, <2>9
  <2>12. Market!Withdraw
    BY <1>1, <2>4, <2>5, <2>9, <2>10, <2>11, Zenon DEF Market!Withdraw
  <2> QED
    BY <2>12 DEF Market!Next
<1>3. CASE replace_reject(book, id, p, q) # "None"
  <2>1. book' = book /\ aggressor' = aggressor /\ fills' = << >>
    BY <1>3 DEF Replace
  <2>2. Market!Refuse
    BY <1>1, <2>1 DEF Market!Refuse
  <2> QED
    BY <2>2 DEF Market!Next
<1> QED
  BY <1>2, <1>3

\* The orders of a book after a fill.
LEMMA OrdersReduced ==
  ASSUME NEW b, BookInv(b), NEW x \in Resting(b), NEW q \in Int,
         0 < q, q <= b.order_index[x].order.remaining
  PROVE  /\ q = Orders(b)[x].remaining =>
              Orders(reduce_quantity(b, x, q).book) =
                [k \in DOMAIN Orders(b) \ {x} |-> Orders(b)[k]]
         /\ q # Orders(b)[x].remaining =>
              Orders(reduce_quantity(b, x, q).book) =
                [Orders(b) EXCEPT ![x].remaining = @ - q]
<1> DEFINE r == b.order_index[x].order
           c == reduce_quantity(b, x, q).book
<1>1. r \in Order /\ r.remaining \in Int /\ Orders(b)[x] = r
  BY RestingOrder, OrdersOf, ZenonT(30)
<1>2. CASE q = r.remaining
  <2>1. c = Without(b, x)
    BY <1>2, ReduceSound, ZenonT(30)
  <2> QED
    BY <1>1, <1>2, <2>1, OrdersWithout, ZenonT(30)
<1>3. CASE q # r.remaining
  <2>1. c = Shrunk(b, x, q)
    BY <1>3, ReduceSound, ZenonT(30)
  <2>2. /\ Resting(c) = Resting(b)
        /\ \A id \in Resting(b) \ {x} : c.order_index[id] = b.order_index[id]
        /\ c.order_index[x].order = [r EXCEPT !.remaining = @ - q]
    BY <1>1, <1>3, <2>1, ShrunkSound
  <2> HIDE DEF c, r
  <2>3. Orders(c) = [k \in Resting(b) |-> IF k = x THEN [r EXCEPT !.remaining = @ - q]
                                                  ELSE b.order_index[k].order]
    BY <2>2 DEF Orders
  <2>4. [Orders(b) EXCEPT ![x].remaining = @ - q] =
          [k \in Resting(b) |-> IF k = x THEN [r EXCEPT !.remaining = @ - q]
                                         ELSE b.order_index[k].order]
    BY <1>1, ZenonT(30) DEF Orders
  <2>5. Orders(c) = [Orders(b) EXCEPT ![x].remaining = @ - q]
    BY <2>3, <2>4
  <2> QED
    BY <1>1, <1>3, <2>5 DEF c
<1> QED
  BY <1>2, <1>3

\* A turn of the matching loop is a trade with the order that has priority.
LEMMA MatchOneRefines ==
  ASSUME EngineInv, MatchOne
  PROVE  Market!Next
<1> DEFINE s == opposite(aggressor.side)
           id == Head(Queue(book, s, best_index(book, s)))
           best == price_at(best_index(book, s))
           r == book.order_index[id].order
           q == fill_quantity(aggressor, r)
           fill == [match_id |-> next_match_id,
                    resting_order_id |-> id,
                    resting_client_id |-> r.client,
                    aggressor_order_id |-> aggressor.id,
                    aggressor_client_id |-> aggressor.client,
                    price |-> r.price,
                    quantity |-> q,
                    aggressor_side |-> aggressor.side,
                    resting_fully_filled |-> q = r.remaining]
<1>1. /\ pc = "match" /\ aggressor \in Order /\ BookInv(book)
      /\ aggressor.remaining > 0 /\ best_index(book, s) # NoIndex
      /\ aggressor.type = "Limit" => crosses(aggressor.side, aggressor.price, best)
  BY DEF MatchOne, Matchable, EngineInv, TypeOK
<1>2. s \in Sides /\ aggressor.remaining \in Int /\ aggressor # NoOrder
  BY <1>1, OrderIsNotNone DEF opposite, Sides, Order
<1>3. /\ id \in Resting(book) /\ r.id = id /\ r.price = best
      /\ front_at(book, s, best) = r
  BY <1>1, <1>2, FrontOfBest, Zenon
<1>4. r.remaining \in Int /\ r.remaining > 0 /\ Orders(book)[id] = r
  BY <1>1, <1>3, RestingOrder, OrdersOf, ZenonT(30)
<1>5. /\ id \in Market!Counterparts(aggressor)
      /\ Market!First(Market!Counterparts(aggressor)) = id
  <2>1. Market!Counterparts(aggressor) = Acceptable(book, aggressor)
    BY <1>1, CounterpartsAcceptable
  <2>2. /\ id \in Acceptable(book, aggressor)
        /\ Market!First(Acceptable(book, aggressor)) = id
    BY <1>1, FrontIsFirst
  <2> QED
    BY <2>1, <2>2
<1>6. /\ q = IF aggressor.remaining < r.remaining THEN aggressor.remaining ELSE r.remaining
      /\ q \in Int /\ 0 < q /\ q <= r.remaining
  <2> HIDE DEF r
  <2> QED
    BY <1>1, <1>2, <1>4, FillIsSmaller, Zenon
<1>7. /\ fills' = Append(fills, fill)
      /\ book' = reduce_quantity(book, id, q).book
      /\ aggressor' = [aggressor EXCEPT !.remaining = @ - q]
  BY <1>3, ZenonT(30) DEF MatchOne
<1>8. Orders(book') = IF q = Orders(book)[id].remaining
                      THEN [k \in DOMAIN Orders(book) \ {id} |-> Orders(book)[k]]
                      ELSE [Orders(book) EXCEPT ![id].remaining = @ - q]
  <2>1. q <= book.order_index[id].order.remaining
    BY <1>6, Zenon
  <2> HIDE DEF s, id, r, q
  <2>2. /\ q = Orders(book)[id].remaining =>
             Orders(reduce_quantity(book, id, q).book) =
               [k \in DOMAIN Orders(book) \ {id} |-> Orders(book)[k]]
        /\ q # Orders(book)[id].remaining =>
             Orders(reduce_quantity(book, id, q).book) =
               [Orders(book) EXCEPT ![id].remaining = @ - q]
    BY <1>1, <1>3, <1>6, <2>1, OrdersReduced
  <2> QED
    BY <1>7, <2>2, ZenonT(30) DEF Orders, Resting
<1> HIDE DEF s, id, best, r, q
<1>9. fills'[Len(fills) + 1].match_id = next_match_id
  <2>1. fills \in Seq(Fill)
    BY DEF EngineInv, TypeOK
  <2>2. fills'[Len(fills) + 1] = fill
    <3> HIDE DEF fill
    <3> QED
      BY <1>7, <2>1
  <2> QED
    BY <2>2
<1>10. Market!Trade
  BY <1>1, <1>2, <1>4, <1>5, <1>6, <1>7, <1>8, <1>9, ZenonT(30) DEF Market!Trade
<1> QED
  BY <1>10 DEF Market!Next

\* The end of submit settles the order.
LEMMA FinishSubmitRefines ==
  ASSUME EngineInv, FinishSubmit
  PROVE  Market!Next
<1> DEFINE a == aggressor
           fits == /\ OnLadder(a.price)
                   /\ a.id \notin DOMAIN Orders(book)
                   /\ Cardinality(DOMAIN Orders(book)) < MaxOrders
<1>1. /\ pc = "match" /\ a \in Order /\ AggressorInv /\ ~Matchable /\ BookInv(book)
      /\ aggressor' = NoOrder /\ fills' = fills
  BY Zenon DEF FinishSubmit, EngineInv, TypeOK
<1>2. a.remaining \in Int /\ a.remaining >= 0 /\ a # NoOrder
  BY <1>1, OrderIsNotNone DEF AggressorInv, Order
<1>3. a.remaining = 0 \/ Market!Counterparts(a) = {}
  <2>1. CASE a.remaining # 0
    <3>1. Acceptable(book, a) = {}
      BY <1>1, <1>2, <2>1, NothingAcceptable DEF Matchable
    <3> QED
      BY <1>1, <3>1, CounterpartsAcceptable
  <2> QED
    BY <2>1
<1>4. Rests(a) => (add_error(book, a) = "None" <=> fits)
  <2>1. /\ book.live_count = Cardinality(Resting(book)) /\ book.live_count \in Int
        /\ DOMAIN Orders(book) = Resting(book)
    BY <1>1, BookTypes, OrdersOf DEF BookInv, Structured, NothingLeaked
  <2> QED
    BY <1>2, <2>1, BookAssumption DEF Rests, add_error, OnLadder
<1>5. book' = IF Rests(a) /\ fits THEN Rest(book, a) ELSE book
  BY <1>4, Zenon DEF FinishSubmit, add
<1>6. Orders(book') = IF Rests(a) /\ fits
                      THEN [k \in DOMAIN Orders(book) \cup {a.id} |->
                              IF k = a.id THEN a ELSE Orders(book)[k]]
                      ELSE Orders(book)
  <2>1. CASE Rests(a) /\ fits
    <3>1. /\ Resting(Rest(book, a)) = Resting(book) \cup {a.id}
          /\ \A id \in Resting(book) : Rest(book, a).order_index[id] = book.order_index[id]
          /\ Rest(book, a).order_index[a.id].order = a
      BY <1>1, <1>4, <2>1, RestSound, Zenon DEF AggressorInv, RestsBefore
    <3>2. a.id \notin Resting(book)
      BY <2>1, OrdersOf, ZenonT(30)
    <3> QED
      BY <1>5, <2>1, <3>1, <3>2 DEF Orders
  <2>2. CASE ~(Rests(a) /\ fits)
    BY <1>5, <2>2
  <2> QED
    BY <2>1, <2>2
<1> HIDE DEF a
<1>7. Market!Settle
  BY <1>1, <1>2, <1>3, <1>6, SameCardinality DEF Market!Settle, Rests, a
<1> QED
  BY <1>7 DEF Market!Next

\* For every size of the ladder, of the pool and of the sets of ids and
\* clients, submit, cancel and replace implement the abstract market: each
\* fill is with the order that has price-time priority, at its price, a
\* fill-or-kill order comes in only when it can fill, and an order rests only
\* when nothing is left that it could trade with.
THEOREM EngineImplementsPriority == Spec => ImplementsPriceTimePriority
<1>1. Init => Market!Init
  BY EmptyBookSound DEF Init, Market!Init, Orders
<1>2. EngineInv /\ [Next]_vars => [Market!Next]_Market!vars
  <2> SUFFICES ASSUME EngineInv, [Next]_vars PROVE [Market!Next]_Market!vars
    OBVIOUS
  <2>1. CASE Next
    BY <2>1, EngineAssumption, SubmitRefines, CancelRefines, ReplaceRefines,
       MatchOneRefines, FinishSubmitRefines DEF Next
  <2>2. CASE UNCHANGED vars
    BY <2>2 DEF vars, callVars, Market!vars
  <2> QED
    BY <2>1, <2>2
<1> QED
  BY <1>1, <1>2, EngineInvariant, PTL DEF Spec, ImplementsPriceTimePriority, Market!Spec
=============================================================================
