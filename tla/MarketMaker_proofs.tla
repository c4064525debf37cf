------------------------- MODULE MarketMaker_proofs -------------------------
(***************************************************************************)
(* For every configuration of the market maker and whatever the rest of    *)
(* the market does, the maker keeps track of its quotes and never trades   *)
(* with itself.                                                            *)
(***************************************************************************)
EXTENDS MarketMaker, MatchingEngine_proofs

\* A leaf is tried with the SMT solver, which gets more time than it has by
\* default, and then with Zenon.
USE SMTT(20), ZenonT(30), SMTT(21), SMTT(22)

-----------------------------------------------------------------------------
(* The inductive invariant.                                                *)

Message == [op : {"new", "replace", "cancel"}, id : MakerIds, side : Sides,
            price : Int, quantity : Int]

\* The ids that the maker m tracks are different, and were given out before.
IdsFresh(m) ==
  /\ m.next_order_id >= FirstOrderId
  /\ \A s \in Sides : m.resting_id[s] # NoId => m.resting_id[s] < m.next_order_id
  /\ m.resting_id["Buy"] = m.resting_id["Sell"] => m.resting_id["Buy"] = NoId

\* A message that quotes is about a tracked order, one that cancels is not.
MessageInv(m) ==
  /\ m.op # "cancel" => maker.resting_id[m.side] = m.id
  /\ m.op = "cancel" => \A s \in Sides : maker.resting_id[s] # m.id

\* QuotesTracked, with the range of the ids.
RestingTracked ==
  \A id \in Resting(book) :
    LET o == book.order_index[id].order
    IN  o.client = Maker =>
          /\ id \in MakerIds
          /\ \/ maker.resting_id[o.side] = id
             \/ \E m \in pending : m.op = "cancel" /\ m.id = id

\* The quote that is being matched is tracked as well.
AggressorTracked ==
  pc = "match" /\ aggressor.client = Maker =>
    /\ aggressor.id \in MakerIds
    /\ aggressor.type = "Limit"
    /\ maker.resting_id[aggressor.side] = aggressor.id

\* The maker quotes price p on side s: in the book, in a message on its way,
\* or in the order that is being matched.
QuotedAt(s, p) ==
  \/ \E id \in Resting(book) :
       LET o == book.order_index[id].order
       IN  o.client = Maker /\ o.side = s /\ o.price = p
  \/ \E m \in pending : m.op # "cancel" /\ m.side = s /\ m.price = p
  \/ pc = "match" /\ aggressor.client = Maker /\ aggressor.side = s /\ aggressor.price = p

\* Every bid of the maker, wherever it is, is below each of its asks.
QuotesApart ==
  \A p, q \in Int : QuotedAt("Buy", p) /\ QuotedAt("Sell", q) => p < q

MakerInv ==
  /\ EngineInv
  /\ maker \in MakerState /\ IdsFresh(maker)
  /\ pending \subseteq Message
  /\ \A m \in pending : MessageInv(m)
  /\ RestingTracked
  /\ AggressorTracked
  /\ QuotesApart
  /\ NoSelfTrade

-----------------------------------------------------------------------------
(* on_tick.                                                                *)

\* Ids of the maker are naturals, NoId is none of them.
LEMMA MakerIdsType == MakerIds \subseteq Nat /\ NoId \notin MakerIds /\ NoId \in Int
  BY MakerAssumption DEF MakerIds, NoId

\* The maker after it took over an id for side s.
LEMMA HoldingFields ==
  ASSUME NEW m \in MakerState, NEW s \in Sides, NEW id \in MakerIds \cup {NoId},
         NEW p \in Int, NEW n \in Nat
  PROVE  LET h == Holding(m, s, id, p, n)
         IN  /\ h \in MakerState
             /\ h.resting_id = [m.resting_id EXCEPT ![s] = id]
             /\ h.next_order_id = n
  BY DEF Holding, MakerState

\* What may become of side s of the maker m that wants to quote p: the id and
\* the messages of r.
SideQuoted(m, s, p, r) ==
  /\ r.maker \in MakerState /\ IdsFresh(r.maker)
  /\ r.maker.next_order_id \in m.next_order_id .. m.next_order_id + 1
  /\ r.maker.resting_id[s] \in {NoId, m.resting_id[s], m.next_order_id}
  /\ \A x \in Sides \ {s} : r.maker.resting_id[x] = m.resting_id[x]
  /\ r.messages \subseteq Message
  /\ \A msg \in r.messages :
       /\ msg.side = s
       /\ msg.op # "cancel" => r.maker.resting_id[s] = msg.id /\ msg.price = p
       /\ msg.op = "cancel" => /\ r.maker.resting_id[s] = NoId
                               /\ msg.id = m.resting_id[s]
  /\ \/ m.resting_id[s] = NoId
     \/ r.maker.resting_id[s] = m.resting_id[s]
     \/ \E msg \in r.messages : msg.op = "cancel" /\ msg.id = m.resting_id[s]

\* What quote does to side s of the maker m.
LEMMA QuoteSide ==
  ASSUME NEW m \in MakerState, IdsFresh(m), m.next_order_id <= LastOrderId,
         NEW s \in Sides, NEW p \in Int, NEW inv
  PROVE  SideQuoted(m, s, p, quote(m, s, p, inv))
<1> DEFINE r == quote(m, s, p, inv)
           id == m.resting_id[s]
           n == m.next_order_id
<1>1. /\ m.resting_id \in [Sides -> MakerIds \cup {NoId}] /\ n \in Nat
      /\ m.last_quoted[s] \in Int /\ id \in MakerIds \cup {NoId}
  BY DEF MakerState
<1>2. n \in MakerIds /\ n # NoId /\ n + 1 \in Nat
  BY <1>1, MakerAssumption, MakerIdsType DEF IdsFresh, MakerIds
<1>3. Sides = {"Buy", "Sell"}
  BY DEF Sides
<1>4. CASE ~allowed(s, inv)
  <2> DEFINE h == Holding(m, s, NoId, m.last_quoted[s], n)
  <2>1. r.maker = h /\ r.messages = pull(m, s)
    BY <1>4 DEF quote
  <2>2. h \in MakerState /\ h.resting_id = [m.resting_id EXCEPT ![s] = NoId]
        /\ h.next_order_id = n
    <3>1. NoId \in MakerIds \cup {NoId}
      OBVIOUS
    <3> QED BY <1>1, <3>1 DEF Holding, MakerState
  <2> HIDE DEF h, r
  <2>3. IdsFresh(h)
    BY <1>1, <1>3, <2>2 DEF IdsFresh
  <2>4. h.resting_id[s] = NoId /\ \A x \in Sides \ {s} : h.resting_id[x] = m.resting_id[x]
    BY <1>1, <2>2
  <2>5. CASE id = NoId
    <3>1. r.messages = {}
      BY <2>1, <2>5 DEF pull
    <3> QED BY <1>1, <2>1, <2>2, <2>3, <2>4, <2>5, <3>1 DEF r, SideQuoted
  <2>6. CASE id # NoId
    <3>1. r.messages = {make_cancel(id, s)}
      BY <2>1, <2>6 DEF pull
    <3>2. /\ make_cancel(id, s) \in Message
          /\ make_cancel(id, s).side = s /\ make_cancel(id, s).op = "cancel"
          /\ make_cancel(id, s).id = id
      BY <1>1, <2>6 DEF make_cancel, Message
    <3> QED BY <1>1, <2>1, <2>2, <2>3, <2>4, <3>1, <3>2 DEF r, SideQuoted
  <2> QED BY <2>5, <2>6
<1>5. CASE allowed(s, inv) /\ id = NoId
  <2> DEFINE h == Holding(m, s, n, p, n + 1)
             msg == make_new_order(n, s, p)
  <2>1. r.maker = h /\ r.messages = {msg}
    BY <1>5 DEF quote
  <2>2. h \in MakerState /\ h.resting_id = [m.resting_id EXCEPT ![s] = n]
        /\ h.next_order_id = n + 1
    BY <1>1, <1>2, HoldingFields
  <2>3. msg \in Message /\ msg.side = s /\ msg.op = "new" /\ msg.id = n /\ msg.price = p
    BY <1>2, MakerAssumption DEF make_new_order, Message
  <2> HIDE DEF h, r, msg
  <2>4. h.resting_id[s] = n /\ \A x \in Sides \ {s} : h.resting_id[x] = m.resting_id[x]
    BY <1>1, <2>2
  <2>5. IdsFresh(h)
    <3>1. \A x \in Sides : m.resting_id[x] # NoId => m.resting_id[x] \in Nat /\ m.resting_id[x] < n
      BY <1>1, MakerIdsType DEF IdsFresh
    <3>2. \A x \in Sides : h.resting_id[x] # NoId => h.resting_id[x] < n + 1
      BY <1>1, <2>4, <3>1
    <3>3. h.resting_id["Buy"] = h.resting_id["Sell"] => h.resting_id["Buy"] = NoId
      BY <1>1, <1>2, <1>3, <2>4, <3>1
    <3> QED BY <1>1, <2>2, <3>2, <3>3, MakerAssumption DEF IdsFresh
  <2> QED BY <1>1, <1>5, <2>1, <2>2, <2>3, <2>4, <2>5 DEF r, SideQuoted
<1>6. CASE allowed(s, inv) /\ id # NoId /\ m.last_quoted[s] # p
  <2> DEFINE h == Holding(m, s, id, p, n)
             msg == make_replace(id, s, p)
  <2>1. r.maker = h /\ r.messages = {msg}
    BY <1>6 DEF quote
  <2>2. h \in MakerState /\ h.resting_id = [m.resting_id EXCEPT ![s] = id]
        /\ h.next_order_id = n
    BY <1>1, HoldingFields
  <2>3. msg \in Message /\ msg.side = s /\ msg.op = "replace" /\ msg.id = id /\ msg.price = p
    BY <1>1, <1>6, MakerAssumption DEF make_replace, Message
  <2>4. h.resting_id = m.resting_id
    BY <1>1, <2>2
  <2> HIDE DEF h, r, msg
  <2>5. IdsFresh(h)
    BY <2>2, <2>4 DEF IdsFresh
  <2> QED BY <1>1, <2>1, <2>2, <2>3, <2>4, <2>5 DEF r, SideQuoted
<1>7. CASE allowed(s, inv) /\ id # NoId /\ m.last_quoted[s] = p
  <2>1. r.maker = m /\ r.messages = {}
    BY <1>7 DEF quote
  <2> QED BY <1>1, <2>1 DEF SideQuoted
<1> QED BY <1>4, <1>5, <1>6, <1>7

\* Halving the sum of two prices, whatever their sign, stays between them.
LEMMA HalfBetween ==
  ASSUME NEW a \in Int, NEW b \in Int, a < b
  PROVE  Half(a + b) \in Int /\ a <= Half(a + b) /\ Half(a + b) <= b
<1>1. CASE a + b >= 0
  BY <1>1 DEF Half
<1>2. CASE ~(a + b >= 0)
  BY <1>2 DEF Half
<1> QED BY <1>1, <1>2

\* The best price of a side, and that the two of them do not cross.
LEMMA BestPrices ==
  ASSUME EngineInv
  PROVE  /\ \A s \in Sides :
              best_index(book, s) # NoIndex => price_at(best_index(book, s)) \in Int
         /\ best_index(book, "Buy") # NoIndex /\ best_index(book, "Sell") # NoIndex
            => price_at(best_index(book, "Buy")) < price_at(best_index(book, "Sell"))
<1>1. ASSUME NEW s \in Sides, best_index(book, s) # NoIndex
      PROVE  \E id \in Resting(book) :
               /\ book.order_index[id].order.side = s
               /\ book.order_index[id].order.price = price_at(best_index(book, s))
               /\ book.order_index[id].order.price \in Int
  <2>1. BookInv(book)
    BY DEF EngineInv
  <2>2. \E id \in Resting(book) :
          /\ book.order_index[id].order.side = s
          /\ book.order_index[id].order.price = price_at(best_index(book, s))
    BY <1>1, <2>1, FrontOfBest
  <2> QED BY <2>1, <2>2, RestingOrder
<1>2. "Buy" \in Sides /\ "Sell" \in Sides
  BY DEF Sides
<1>3. Uncrossed(book)
  BY DEF EngineInv
<1> QED BY <1>1, <1>2, <1>3 DEF Uncrossed

\* Around the mid of the book, the targets of on_tick stay on their side of
\* every order that rests on the other.
LEMMA TargetsApart ==
  ASSUME EngineInv
  PROVE  LET mid == compute_mid(best_index(book, "Buy"), best_index(book, "Sell"))
         IN  /\ mid \in Int
             /\ target("Buy", mid) \in Int /\ target("Sell", mid) \in Int
             /\ target("Buy", mid) < target("Sell", mid)
             /\ \A id \in Resting(book) :
                  LET o == book.order_index[id].order
                  IN  /\ o.side = "Buy" => o.price < target("Sell", mid)
                      /\ o.side = "Sell" => target("Buy", mid) < o.price
<1> DEFINE bid == best_index(book, "Buy")
           ask == best_index(book, "Sell")
           b == price_at(bid)
           a == price_at(ask)
           mid == compute_mid(bid, ask)
           h == half_spread_ticks
<1>1. h \in Int /\ h >= 1 /\ initial_reference_price \in Int
  BY MakerAssumption
<1>2. /\ bid # NoIndex => b \in Int
      /\ ask # NoIndex => a \in Int
      /\ bid # NoIndex /\ ask # NoIndex => b < a
  BY BestPrices DEF Sides
<1>3. /\ mid \in Int
      /\ bid # NoIndex => b < mid + h
      /\ ask # NoIndex => mid - h < a
  <2> HIDE DEF bid, ask, h
  <2>1. CASE bid # NoIndex /\ ask # NoIndex
    <3> HIDE DEF b, a
    <3>1. mid = Half(b + a)
      BY <2>1 DEF compute_mid, a, b
    <3>2. mid \in Int /\ b <= mid /\ mid <= a
      BY <1>2, <2>1, <3>1, HalfBetween
    <3> HIDE DEF mid
    <3> QED BY <1>1, <1>2, <2>1, <3>2
  <2>2. CASE bid # NoIndex /\ ask = NoIndex
    <3> HIDE DEF b, a
    <3>1. mid = b + h
      BY <2>2 DEF compute_mid, b, h
    <3> HIDE DEF mid
    <3> QED BY <1>1, <1>2, <2>2, <3>1
  <2>3. CASE bid = NoIndex /\ ask # NoIndex
    <3> HIDE DEF b, a
    <3>1. mid = a - h
      BY <2>3 DEF compute_mid, a, h
    <3> HIDE DEF mid
    <3> QED BY <1>1, <1>2, <2>3, <3>1
  <2>4. CASE bid = NoIndex /\ ask = NoIndex
    BY <1>1, <2>4 DEF compute_mid
  <2> QED BY <2>1, <2>2, <2>3, <2>4
<1>4. target("Buy", mid) = mid - h /\ target("Sell", mid) = mid + h
  BY DEF target
<1>5. ASSUME NEW id \in Resting(book)
      PROVE  LET o == book.order_index[id].order
             IN  /\ o.side = "Buy" => o.price < mid + h
                 /\ o.side = "Sell" => mid - h < o.price
  <2> DEFINE o == book.order_index[id].order
  <2>1. /\ o.price \in Int
        /\ o.side = "Buy" => bid # NoIndex /\ o.price <= b
        /\ o.side = "Sell" => ask # NoIndex /\ o.price >= a
    BY TouchBounds DEF EngineInv
  <2> HIDE DEF o, mid, a, b, bid, ask, h
  <2> QED BY <1>1, <1>2, <1>3, <2>1 DEF o
<1> HIDE DEF mid, h, bid, ask, a, b
<1>6. mid - h \in Int /\ mid + h \in Int /\ mid - h < mid + h
  BY <1>1, <1>3
<1> QED BY <1>3, <1>4, <1>5, <1>6 DEF mid, bid, ask

-----------------------------------------------------------------------------
(* What the steps of the engine leave for the maker.                       *)

\* Orders a and o have the terms that the invariant speaks of in common.
SameQuote(a, o) ==
  a.client = o.client /\ a.side = o.side /\ a.price = o.price /\ a.type = o.type

\* Each order that rests after the step rested before it, or was being
\* matched.
RestsFromBefore ==
  \A id \in Resting(book') :
    LET o == book'.order_index[id].order
    IN  \/ id \in Resting(book) /\ SameQuote(o, book.order_index[id].order)
        \/ pc = "match" /\ id = aggressor.id /\ SameQuote(o, aggressor)

\* An order of the maker that is being matched after the step was being
\* matched before it, or a message on its way asked for it.
MatchedFromBefore ==
  pc' = "match" /\ aggressor'.client = Maker =>
    \/ pc = "match" /\ aggressor'.id = aggressor.id /\ SameQuote(aggressor', aggressor)
    \/ \E m \in pending :
         /\ m.op # "cancel" /\ aggressor'.id = m.id
         /\ aggressor'.side = m.side /\ aggressor'.price = m.price
         /\ aggressor'.type = "Limit"

\* A step that only moves quotes of the maker along, from a message to the
\* order being matched and from there into the book, keeps the invariant.
LEMMA MovingAlong ==
  ASSUME MakerInv, EngineInv', maker' = maker, pending' \subseteq pending,
         RestsFromBefore, MatchedFromBefore, NoSelfTrade',
         \A m \in pending \ pending' : m.op = "cancel" => m.id \notin Resting(book')
  PROVE  MakerInv'
<1>1. /\ maker' \in MakerState /\ IdsFresh(maker')
      /\ pending' \subseteq Message
      /\ \A m \in pending' : MessageInv(m)'
  BY DEF MakerInv, MessageInv
<1>2. RestingTracked'
  <2> SUFFICES ASSUME NEW id \in Resting(book'),
                      book'.order_index[id].order.client = Maker
               PROVE  /\ id \in MakerIds
                      /\ \/ maker.resting_id[book'.order_index[id].order.side] = id
                         \/ \E m \in pending' : m.op = "cancel" /\ m.id = id
    BY DEF RestingTracked
  <2>1. CASE id \in Resting(book) /\ SameQuote(book'.order_index[id].order,
                                               book.order_index[id].order)
    BY <2>1 DEF MakerInv, RestingTracked, SameQuote
  <2>2. CASE pc = "match" /\ id = aggressor.id
             /\ SameQuote(book'.order_index[id].order, aggressor)
    BY <2>2 DEF MakerInv, AggressorTracked, SameQuote
  <2> QED BY <2>1, <2>2 DEF RestsFromBefore
<1>3. AggressorTracked'
  <2> SUFFICES ASSUME pc' = "match", aggressor'.client = Maker
               PROVE  /\ aggressor'.id \in MakerIds
                      /\ aggressor'.type = "Limit"
                      /\ maker.resting_id[aggressor'.side] = aggressor'.id
    BY DEF AggressorTracked
  <2>1. CASE pc = "match" /\ aggressor'.id = aggressor.id /\ SameQuote(aggressor', aggressor)
    BY <2>1 DEF MakerInv, AggressorTracked, SameQuote
  <2>2. ASSUME NEW m \in pending,
               m.op # "cancel", aggressor'.id = m.id, aggressor'.side = m.side,
               aggressor'.type = "Limit"
        PROVE  /\ aggressor'.id \in MakerIds
               /\ aggressor'.type = "Limit"
               /\ maker.resting_id[aggressor'.side] = aggressor'.id
    <3>1. m \in Message /\ MessageInv(m)
      BY DEF MakerInv
    <3> QED BY <2>2, <3>1 DEF Message, MessageInv
  <2> QED BY <2>1, <2>2 DEF MatchedFromBefore
<1>4. ASSUME NEW s, NEW p, QuotedAt(s, p)'
      PROVE  QuotedAt(s, p)
  <2>1. ASSUME NEW id \in Resting(book'),
               book'.order_index[id].order.client = Maker,
               book'.order_index[id].order.side = s,
               book'.order_index[id].order.price = p
        PROVE  QuotedAt(s, p)
    BY <2>1 DEF RestsFromBefore, SameQuote, QuotedAt
  <2>2. CASE \E m \in pending' : m.op # "cancel" /\ m.side = s /\ m.price = p
    BY <2>2 DEF QuotedAt
  <2>3. CASE pc' = "match" /\ aggressor'.client = Maker /\ aggressor'.side = s
             /\ aggressor'.price = p
    BY <2>3 DEF MatchedFromBefore, SameQuote, QuotedAt
  <2> QED BY <1>4, <2>1, <2>2, <2>3, ZenonT(30) DEF QuotedAt
<1>5. QuotesApart'
  BY <1>4 DEF MakerInv, QuotesApart
<1> QED BY <1>1, <1>2, <1>3, <1>5 DEF MakerInv

\* The prologue of submit leaves the book it is given; the order that it
\* hands to the loop, if any, is the one it got.
LEMMA BeginSubmitQuote ==
  ASSUME pc = "idle", NEW b, NEW o \in Order, NEW from, BeginSubmit(b, o, from)
  PROVE  /\ book' = b /\ NoSelfTrade'
         /\ pc' = "match" => aggressor'.id = o.id /\ SameQuote(aggressor', o)
<1> DEFINE a == [o EXCEPT !.remaining = o.quantity]
<1>1. book' = b /\ fills' = << >> /\ (pc' = "match" => aggressor' = a)
  BY DEF BeginSubmit
<1>2. a.id = o.id /\ SameQuote(a, o)
  BY DEF Order, SameQuote
<1>3. NoSelfTrade'
  BY <1>1 DEF NoSelfTrade
<1> QED BY <1>1, <1>2, <1>3, ZenonT(30)

\* cancel leaves the terms of the orders that still rest.
LEMMA CancelQuote ==
  ASSUME NEW b, BookInv(b), NEW id, NEW c, c = cancel(b, id).book
  PROVE  /\ id \notin Resting(c)
         /\ \A k \in Resting(c) :
              k \in Resting(b) /\ SameQuote(c.order_index[k].order, b.order_index[k].order)
<1>1. CASE id \in Resting(b)
  <2>1. c = Without(b, id)
    BY <1>1 DEF cancel
  <2>2. KeepsTerms(b, c)
    BY <1>1, <2>1, WithoutKeepsTerms
  <2>3. Resting(c) = Resting(b) \ {id}
    BY <2>1 DEF Without, Resting
  <2> QED BY <2>2, <2>3, ZenonT(30) DEF KeepsTerms, SameQuote
<1>2. CASE id \notin Resting(b)
  BY <1>2 DEF cancel, SameQuote
<1> QED BY <1>1, <1>2

\* A new order, of the maker or of somebody else.
LEMMA SubmitMoves ==
  ASSUME MakerInv, NEW t \in Terms, Submit(t),
         maker' = maker, pending' \subseteq pending,
         \A m \in pending \ pending' : m.op # "cancel",
         t.client = Maker => \E m \in pending :
           m.op # "cancel" /\ t.id = m.id /\ t.side = m.side /\ t.price = m.price
           /\ t.type = "Limit"
  PROVE  MakerInv'
<1> DEFINE o == Sequenced(t, next_sequence)
<1>1. EngineInv /\ EngineInv'
  BY SubmitKeepsInv DEF MakerInv
<1>2. o \in Order /\ o.id = t.id /\ SameQuote(o, t)
  BY <1>1, SequencedOrder DEF EngineInv, TypeOK, Sequenced, SameQuote
<1>3. pc = "idle" /\ BeginSubmit(book, o, "submit")
  BY DEF Submit
<1> HIDE DEF o
<1>4. /\ book' = book /\ NoSelfTrade'
      /\ pc' = "match" => aggressor'.id = o.id /\ SameQuote(aggressor', o)
  BY <1>2, <1>3, BeginSubmitQuote
<1>5. RestsFromBefore
  BY <1>4 DEF RestsFromBefore, SameQuote
<1>6. MatchedFromBefore
  BY <1>2, <1>4 DEF MatchedFromBefore, SameQuote
<1> QED BY <1>1, <1>4, <1>5, <1>6, MovingAlong

\* A cancel, after which no message to cancel the same order is missed.
LEMMA CancelMoves ==
  ASSUME MakerInv, NEW id \in OrderIds, Cancel(id),
         maker' = maker, pending' \subseteq pending,
         \A m \in pending \ pending' : m.id = id
  PROVE  MakerInv'
<1>1. EngineInv /\ EngineInv'
  BY CancelKeepsInv DEF MakerInv
<1>2. /\ pc' = "idle" /\ fills' = << >> /\ book' = cancel(book, id).book
  BY DEF Cancel
<1>3. /\ id \notin Resting(book')
      /\ \A k \in Resting(book') :
           /\ k \in Resting(book)
           /\ SameQuote(book'.order_index[k].order, book.order_index[k].order)
  BY <1>1, <1>2, CancelQuote DEF EngineInv
<1>4. RestsFromBefore /\ MatchedFromBefore
  BY <1>2, <1>3 DEF RestsFromBefore, MatchedFromBefore
<1>5. NoSelfTrade'
  BY <1>2 DEF NoSelfTrade
<1> QED BY <1>1, <1>3, <1>4, <1>5, MovingAlong

\* A replace of a quote: it reaches the order on the side the maker means.
LEMMA ReplaceMoves ==
  ASSUME MakerInv, NEW m \in pending, m.op = "replace",
         Replace(m.id, m.price, m.quantity),
         maker' = maker, pending' = pending \ {m}
  PROVE  MakerInv'
<1> DEFINE id == m.id
           o == book.order_index[id].order
           u == Updated(o, m.price, m.quantity, next_sequence)
           reason == replace_reject(book, id, m.price, m.quantity)
<1>1. /\ EngineInv /\ m \in Message /\ MessageInv(m) /\ IdsFresh(maker)
      /\ RestingTracked /\ \A x \in pending : MessageInv(x)
      /\ pc = "idle"
  BY DEF MakerInv, Replace
<1>2. /\ id \in MakerIds /\ id \in OrderIds /\ id # NoId /\ m.side \in Sides
      /\ m.price \in Int /\ m.quantity \in Int
  BY <1>1, MakerAssumption, MakerIdsType DEF Message, MakerIds
<1>3. EngineInv'
  BY <1>1, <1>2, ReplaceKeepsInv
<1>4. \A x \in pending \ pending' : x.op # "cancel"
  OBVIOUS
<1>5. CASE reason = "None"
  <2>1. id \in Resting(book)
    BY <1>5 DEF replace_reject
  <2>2. BeginSubmit(cancel(book, id).book, u, "replace")
    BY <1>5 DEF Replace
  <2>3. o \in Order /\ o.type = "Limit" /\ o.side \in Sides /\ next_sequence \in Nat
    BY <1>1, <2>1, RestingOrder DEF EngineInv, RestsBefore, TypeOK
  <2>4. o.client = Maker => o.side = m.side
    <3> SUFFICES ASSUME o.client = Maker PROVE o.side = m.side
      OBVIOUS
    <3>1. maker.resting_id[m.side] = id
      BY <1>1 DEF MessageInv
    <3>2. ASSUME NEW x \in pending, x.op = "cancel" PROVE x.id # id
      BY <1>1, <1>2, <3>1, <3>2 DEF MessageInv
    <3>3. maker.resting_id[o.side] = id
      BY <1>1, <2>1, <3>2 DEF RestingTracked
    <3> HIDE DEF o, id
    <3> QED BY <1>1, <1>2, <2>3, <3>1, <3>3 DEF IdsFresh, Sides
  <2> HIDE DEF o
  <2>5. /\ u \in Order /\ u.id = o.id /\ u.side = o.side /\ u.type = o.type
        /\ u.client = o.client /\ u.price = m.price
    <3> DEFINE p == m.price
               q == m.quantity
    <3>1. p \in Int /\ q \in Int
      BY <1>2
    <3> HIDE DEF p, q
    <3>2. LET v == Updated(o, p, q, next_sequence)
          IN  /\ v \in Order /\ v.id = o.id /\ v.side = o.side /\ v.type = o.type
              /\ v.client = o.client /\ v.price = p
      BY <2>3, <3>1, UpdatedOrder
    <3> QED BY <3>2 DEF p, q
  <2> HIDE DEF u
  <2>6. o.id = id
    BY <1>1, <2>1, RestingOrder DEF EngineInv, o
  <2>7. /\ book' = cancel(book, id).book /\ NoSelfTrade'
        /\ pc' = "match" => aggressor'.id = u.id /\ SameQuote(aggressor', u)
    BY <1>1, <2>2, <2>5, BeginSubmitQuote, Zenon
  <2>8. RestsFromBefore
    <3>1. BookInv(book)
      BY <1>1 DEF EngineInv
    <3>2. \A k \in Resting(book') :
            k \in Resting(book) /\ SameQuote(book'.order_index[k].order, book.order_index[k].order)
      BY <2>7, <3>1, CancelQuote
    <3> QED BY <3>2, ZenonT(30) DEF RestsFromBefore
  <2>9. MatchedFromBefore
    BY <2>3, <2>4, <2>5, <2>6, <2>7 DEF MatchedFromBefore, SameQuote
  <2> QED BY <1>3, <1>4, <2>7, <2>8, <2>9, MovingAlong
<1>6. CASE reason # "None"
  <2>1. fills' = << >> /\ book' = book /\ pc' = pc /\ aggressor' = aggressor
    BY <1>6 DEF Replace
  <2>2. RestsFromBefore /\ MatchedFromBefore
    BY <1>1, <2>1 DEF RestsFromBefore, MatchedFromBefore, SameQuote
  <2>3. NoSelfTrade'
    BY <2>1 DEF NoSelfTrade
  <2> QED BY <1>3, <1>4, <2>2, <2>3, MovingAlong
<1> QED BY <1>5, <1>6

\* A turn of the matching loop: were the maker on both sides of the fill, a
\* bid of its would reach one of its asks.
LEMMA MatchMoves ==
  ASSUME MakerInv, MatchOne, maker' = maker, pending' = pending
  PROVE  MakerInv'
<1> DEFINE s == opposite(aggressor.side)
           id == Head(Queue(book, s, best_index(book, s)))
           best == price_at(best_index(book, s))
           r == book.order_index[id].order
<1>1. EngineInv /\ EngineInv' /\ KeepsTerms(book, book')
  BY MatchOneStep DEF MakerInv
<1>2. /\ pc = "match" /\ aggressor \in Order /\ best_index(book, s) # NoIndex
      /\ aggressor.type = "Limit" => crosses(aggressor.side, aggressor.price, best)
      /\ pc' = "match"
      /\ aggressor' = [aggressor EXCEPT !.remaining =
                         @ - fill_quantity(aggressor, front_at(book, s, best))]
  BY <1>1, Zenon DEF MatchOne, Matchable, EngineInv, TypeOK
<1>3. aggressor.side \in Sides /\ s \in Sides /\ aggressor.price \in Int
  BY <1>2 DEF opposite, Sides, Order
<1>4. /\ id \in Resting(book) /\ r.side = s /\ r.price = best
      /\ front_at(book, s, best) = r
  BY <1>1, <1>2, <1>3, FrontOfBest, Zenon DEF EngineInv
<1>5. r.price \in Int
  BY <1>1, <1>4, RestingOrder, ZenonT(30) DEF EngineInv
<1>6. aggressor'.id = aggressor.id /\ SameQuote(aggressor', aggressor)
  BY <1>2 DEF Order, SameQuote
<1>7. RestsFromBefore /\ MatchedFromBefore
  BY <1>1, <1>2, <1>6 DEF RestsFromBefore, MatchedFromBefore, KeepsTerms, SameQuote
<1>8. ~(aggressor.client = Maker /\ r.client = Maker)
  <2> SUFFICES ASSUME aggressor.client = Maker, r.client = Maker PROVE FALSE
    OBVIOUS
  <2>1. QuotedAt(aggressor.side, aggressor.price)
    BY <1>2 DEF QuotedAt
  <2>2. QuotedAt(s, r.price)
    BY <1>4, Zenon DEF QuotedAt
  <2>3. crosses(aggressor.side, aggressor.price, r.price)
    BY <1>2, <1>4, ZenonT(30) DEF MakerInv, AggressorTracked
  <2> HIDE DEF r
  <2>4. CASE aggressor.side = "Buy"
    BY <1>3, <1>5, <2>1, <2>2, <2>3, <2>4 DEF MakerInv, QuotesApart, crosses, opposite
  <2>5. CASE aggressor.side = "Sell"
    BY <1>3, <1>5, <2>1, <2>2, <2>3, <2>5 DEF MakerInv, QuotesApart, crosses, opposite
  <2> QED BY <1>3, <2>4, <2>5 DEF Sides
<1>9. NoSelfTrade'
  <2> DEFINE quantity == fill_quantity(aggressor, r)
             f == [match_id |-> next_match_id,
                   resting_order_id |-> r.id,
                   resting_client_id |-> r.client,
                   aggressor_order_id |-> aggressor.id,
                   aggressor_client_id |-> aggressor.client,
                   price |-> best,
                   quantity |-> quantity,
                   aggressor_side |-> aggressor.side,
                   resting_fully_filled |-> quantity = r.remaining]
  <2>1. /\ fills' = Append(fills, f)
        /\ f.aggressor_client_id = aggressor.client
        /\ f.resting_client_id = r.client
    BY <1>4, Zenon DEF MatchOne
  <2> HIDE DEF f
  <2>2. fills \in Seq(Fill)
    BY <1>1 DEF EngineInv, TypeOK
  <2>3. /\ Len(fills) \in Nat /\ DOMAIN fills = 1 .. Len(fills)
        /\ DOMAIN fills' = 1 .. Len(fills) + 1
        /\ \A k \in 1 .. Len(fills) : fills'[k] = fills[k]
        /\ fills'[Len(fills) + 1] = f
    BY <2>1, <2>2
  <2> HIDE DEF r
  <2> SUFFICES ASSUME NEW k \in DOMAIN fills'
               PROVE  ~(/\ fills'[k].aggressor_client_id = Maker
                        /\ fills'[k].resting_client_id = Maker)
    BY DEF NoSelfTrade
  <2>4. CASE k \in DOMAIN fills
    BY <2>3, <2>4 DEF MakerInv, NoSelfTrade
  <2>5. CASE k = Len(fills) + 1
    BY <1>8, <2>1, <2>3, <2>5
  <2> QED BY <2>3, <2>4, <2>5
<1> QED BY <1>1, <1>7, <1>9, MovingAlong

\* The end of submit, which stores what is left of the order or drops it.
LEMMA FinishMoves ==
  ASSUME MakerInv, FinishSubmit, maker' = maker, pending' = pending
  PROVE  MakerInv'
<1>1. EngineInv /\ EngineInv'
  BY FinishSubmitKeepsInv DEF MakerInv
<1>2. pc = "match" /\ pc' = "idle" /\ fills' = fills /\ aggressor \in Order
  BY <1>1 DEF FinishSubmit, EngineInv, TypeOK
<1>3. ASSUME book' = book PROVE RestsFromBefore
  BY <1>3 DEF RestsFromBefore, SameQuote
<1>4. ASSUME book' # book PROVE RestsFromBefore
  <2>1. book' = Rest(book, aggressor)
    BY <1>4 DEF FinishSubmit, add
  <2>2. /\ Resting(book') = Resting(book) \cup {aggressor.id}
        /\ \A k \in Resting(book') : book'.order_index[k].order =
             IF k = aggressor.id THEN aggressor ELSE book.order_index[k].order
    BY <2>1 DEF Rest, Resting
  <2> QED BY <1>2, <2>2 DEF RestsFromBefore, SameQuote
<1>5. MatchedFromBefore /\ NoSelfTrade'
  BY <1>2 DEF MatchedFromBefore, NoSelfTrade, MakerInv
<1>6. RestsFromBefore => MakerInv'
  BY <1>1, <1>5, MovingAlong
<1> QED BY <1>3, <1>4, <1>6

-----------------------------------------------------------------------------
(* The steps of the maker and of its caller.                               *)

\* on_tick keeps the invariant: ids that it gives out are new, an id that it
\* drops it asks to cancel, and it quotes around a mid between its quotes.
LEMMA TickKeepsInv ==
  ASSUME MakerInv, Tick
  PROVE  MakerInv'
<1> DEFINE mid == compute_mid(best_index(book, "Buy"), best_index(book, "Sell"))
           pb == target("Buy", mid)
           ps == target("Sell", mid)
           b == quote(maker, "Buy", pb, inventory)
           a == quote(b.maker, "Sell", ps, inventory)
           n == maker.next_order_id
<1>1. /\ EngineInv /\ maker \in MakerState /\ IdsFresh(maker)
      /\ RestingTracked /\ QuotesApart /\ NoSelfTrade
  BY DEF MakerInv
<1>2. /\ pc = "idle" /\ pending = {} /\ n + 1 <= LastOrderId
      /\ maker' = a.maker /\ pending' = b.messages \cup a.messages
      /\ UNCHANGED vars
  BY Zenon DEF Tick, on_tick
<1>3. pc' = pc /\ book' = book /\ fills' = fills /\ aggressor' = aggressor
  BY <1>2, ZenonT(30) DEF vars, callVars
<1>4. EngineInv'
  BY <1>1, <1>2, EngineStutters, ZenonT(30)
<1>5. /\ pb \in Int /\ ps \in Int /\ pb < ps
      /\ \A id \in Resting(book) :
           LET o == book.order_index[id].order
           IN  /\ o.side = "Buy" => o.price < ps
               /\ o.side = "Sell" => pb < o.price
  BY <1>1, TargetsApart, ZenonT(30)
<1>6. Sides = {"Buy", "Sell"} /\ n \in Nat /\ LastOrderId \in Nat
  BY <1>1, MakerAssumption DEF Sides, MakerState
<1> HIDE DEF mid, pb, ps
<1>7. /\ b.maker \in MakerState /\ IdsFresh(b.maker)
      /\ b.maker.next_order_id \in n .. n + 1
      /\ b.maker.resting_id["Buy"] \in {NoId, maker.resting_id["Buy"], n}
      /\ b.maker.resting_id["Sell"] = maker.resting_id["Sell"]
      /\ b.messages \subseteq Message
      /\ \A m \in b.messages :
           /\ m.side = "Buy"
           /\ m.op # "cancel" => b.maker.resting_id["Buy"] = m.id /\ m.price = pb
           /\ m.op = "cancel" => /\ b.maker.resting_id["Buy"] = NoId
                                 /\ m.id = maker.resting_id["Buy"]
      /\ \/ maker.resting_id["Buy"] = NoId
         \/ b.maker.resting_id["Buy"] = maker.resting_id["Buy"]
         \/ \E m \in b.messages : m.op = "cancel" /\ m.id = maker.resting_id["Buy"]
  <2>1. n <= LastOrderId
    BY <1>2, <1>6
  <2>2. SideQuoted(maker, "Buy", pb, b)
    <3>1. "Buy" \in Sides /\ maker.next_order_id <= LastOrderId
      BY <1>6, <2>1
    <3> QED BY <1>1, <1>5, <3>1, QuoteSide
  <2> HIDE DEF b
  <2>3. b.maker.resting_id["Sell"] = maker.resting_id["Sell"]
    BY <1>6, <2>2 DEF SideQuoted
  <2> QED BY <2>2, <2>3 DEF SideQuoted
<1> HIDE DEF b
<1> DEFINE c == b.maker
<1>8. c \in MakerState /\ IdsFresh(c) /\ c.next_order_id \in Nat
      /\ c.next_order_id <= LastOrderId
  BY <1>2, <1>6, <1>7
<1>9. /\ a.maker \in MakerState /\ IdsFresh(a.maker)
      /\ a.maker.resting_id["Sell"] \in {NoId, c.resting_id["Sell"], c.next_order_id}
      /\ a.maker.resting_id["Buy"] = c.resting_id["Buy"]
      /\ a.messages \subseteq Message
      /\ \A m \in a.messages :
           /\ m.side = "Sell"
           /\ m.op # "cancel" => a.maker.resting_id["Sell"] = m.id /\ m.price = ps
           /\ m.op = "cancel" => /\ a.maker.resting_id["Sell"] = NoId
                                 /\ m.id = c.resting_id["Sell"]
      /\ \/ c.resting_id["Sell"] = NoId
         \/ a.maker.resting_id["Sell"] = c.resting_id["Sell"]
         \/ \E m \in a.messages : m.op = "cancel" /\ m.id = c.resting_id["Sell"]
  <2> HIDE DEF c
  <2>1. SideQuoted(c, "Sell", ps, a)
    <3>1. "Sell" \in Sides
      BY <1>6
    <3>2. a = quote(c, "Sell", ps, inventory)
      BY DEF c
    <3> HIDE DEF a
    <3> QED BY <1>5, <1>8, <3>1, <3>2, QuoteSide
  <2> HIDE DEF a
  <2>2. a.maker.resting_id["Buy"] = c.resting_id["Buy"]
    BY <1>6, <2>1 DEF SideQuoted
  <2> QED BY <2>1, <2>2 DEF SideQuoted
<1> HIDE DEF a
<1>10. maker' \in MakerState /\ IdsFresh(maker') /\ pending' \subseteq Message
  BY <1>2, <1>7, <1>9
<1>11. ASSUME NEW m \in pending' PROVE MessageInv(m)'
  <2>1. m.id \in MakerIds /\ m.id # NoId
    BY <1>10, MakerIdsType DEF Message
  <2>2. CASE m.op # "cancel"
    BY <1>2, <1>7, <1>9, <2>2 DEF MessageInv
  <2>3. CASE m.op = "cancel" /\ m \in b.messages
    <3>1. /\ m.id = maker.resting_id["Buy"] /\ m.id < n /\ m.id \in Int
          /\ m.id # maker.resting_id["Sell"]
      <4>1. m.id = maker.resting_id["Buy"] /\ m.id \in Int
        <5>1. m.id = maker.resting_id["Buy"]
          BY <1>7, <2>3
        <5>2. m.id \in Int
          BY <2>1, MakerAssumption DEF MakerIds
        <5> QED BY <5>1, <5>2
      <4>2. m.id < n
        BY <1>1, <1>6, <2>1, <4>1 DEF IdsFresh
      <4>3. m.id # maker.resting_id["Sell"]
        BY <1>1, <2>1, <4>1 DEF IdsFresh
      <4> QED BY <4>1, <4>2, <4>3
    <3>2. maker'.resting_id["Buy"] # m.id
      BY <1>2, <1>7, <1>9, <2>1, <2>3
    <3>3. maker'.resting_id["Sell"] # m.id
      <4>1. maker'.resting_id["Sell"]
              \in {NoId, maker.resting_id["Sell"], c.next_order_id}
        BY <1>2, <1>7, <1>9, Zenon
      <4>2. c.next_order_id >= n
        BY <1>6, <1>7
      <4> HIDE DEF c, n
      <4> QED BY <1>6, <1>8, <2>1, <3>1, <4>1, <4>2
    <3> QED BY <1>6, <2>3, <3>2, <3>3 DEF MessageInv
  <2>4. CASE m.op = "cancel" /\ m \in a.messages
    <3>1. /\ m.id = maker.resting_id["Sell"] /\ m.id < n /\ m.id \in Int
          /\ m.id # maker.resting_id["Buy"]
      <4>1. m.id = maker.resting_id["Sell"] /\ m.id \in Int
        <5>1. m.id = maker.resting_id["Sell"]
          BY <1>7, <1>9, <2>4
        <5>2. m.id \in Int
          BY <2>1, MakerAssumption DEF MakerIds
        <5> QED BY <5>1, <5>2
      <4>2. m.id < n
        BY <1>1, <1>6, <2>1, <4>1 DEF IdsFresh
      <4>3. m.id # maker.resting_id["Buy"]
        BY <1>1, <2>1, <4>1 DEF IdsFresh
      <4> QED BY <4>1, <4>2, <4>3
    <3>2. maker'.resting_id["Buy"] # m.id
      <4>1. maker'.resting_id["Buy"] \in {NoId, maker.resting_id["Buy"], n}
        BY <1>2, <1>7, <1>9, Zenon
      <4> HIDE DEF n
      <4> QED BY <1>6, <2>1, <3>1, <4>1
    <3>3. maker'.resting_id["Sell"] # m.id
      BY <1>2, <1>9, <2>1, <2>4, Zenon
    <3> QED BY <1>6, <2>4, <3>2, <3>3 DEF MessageInv
  <2> QED BY <1>2, <2>2, <2>3, <2>4
<1>12. RestingTracked'
  <2> SUFFICES ASSUME NEW id \in Resting(book), book.order_index[id].order.client = Maker
               PROVE  /\ id \in MakerIds
                      /\ \/ maker'.resting_id[book.order_index[id].order.side] = id
                         \/ \E m \in pending' : m.op = "cancel" /\ m.id = id
    BY <1>3 DEF RestingTracked
  <2> DEFINE s == book.order_index[id].order.side
  <2>1. id \in MakerIds /\ id # NoId /\ maker.resting_id[s] = id
    BY <1>1, <1>2, MakerIdsType DEF RestingTracked
  <2>2. s \in Sides
    BY <1>1, RestingOrder DEF EngineInv
  <2> HIDE DEF s
  <2>3. ASSUME s = "Buy"
        PROVE  maker'.resting_id[s] = id \/ \E m \in pending' : m.op = "cancel" /\ m.id = id
    <3>1. \/ maker'.resting_id["Buy"] = maker.resting_id["Buy"]
          \/ \E m \in b.messages : m.op = "cancel" /\ m.id = maker.resting_id["Buy"]
      <4>1. maker'.resting_id["Buy"] = b.maker.resting_id["Buy"]
        BY <1>2, <1>9
      <4> QED BY <1>7, <2>1, <2>3, <4>1
    <3> QED BY <1>2, <2>1, <2>3, <3>1
  <2>4. ASSUME s = "Sell"
        PROVE  maker'.resting_id[s] = id \/ \E m \in pending' : m.op = "cancel" /\ m.id = id
    <3>1. \/ maker'.resting_id["Sell"] = maker.resting_id["Sell"]
          \/ \E m \in a.messages : m.op = "cancel" /\ m.id = maker.resting_id["Sell"]
      <4>1. c.resting_id["Sell"] = maker.resting_id["Sell"] /\ maker' = a.maker
        BY <1>2, <1>7
      <4> HIDE DEF c
      <4> QED BY <1>9, <2>1, <2>4, <4>1
    <3> QED BY <1>2, <2>1, <2>4, <3>1
  <2> QED BY <1>6, <2>1, <2>2, <2>3, <2>4, ZenonT(30) DEF s
<1>13. AggressorTracked' /\ NoSelfTrade'
  BY <1>1, <1>2, <1>3 DEF AggressorTracked, NoSelfTrade
<1>14. QuotesApart'
  <2> SUFFICES ASSUME NEW p \in Int, NEW q \in Int,
                      QuotedAt("Buy", p)', QuotedAt("Sell", q)'
               PROVE  p < q
    BY DEF QuotesApart
  <2> DEFINE RestsAt(s, x) == \E id \in Resting(book) :
                               LET o == book.order_index[id].order
                               IN  o.client = Maker /\ o.side = s /\ o.price = x
  <2>1. RestsAt("Buy", p) \/ p = pb
    BY <1>2, <1>3, <1>7, <1>9, Zenon DEF QuotedAt
  <2>2. RestsAt("Sell", q) \/ q = ps
    BY <1>2, <1>3, <1>7, <1>9, Zenon DEF QuotedAt
  <2>3. CASE RestsAt("Buy", p) /\ RestsAt("Sell", q)
    BY <1>1, <2>3, ZenonT(30) DEF QuotesApart, QuotedAt
  <2>4. CASE RestsAt("Buy", p) /\ q = ps
    BY <1>5, <2>4
  <2>5. CASE p = pb /\ RestsAt("Sell", q)
    BY <1>5, <2>5
  <2>6. CASE p = pb /\ q = ps
    BY <1>5, <2>6
  <2> QED BY <2>1, <2>2, <2>3, <2>4, <2>5, <2>6, Zenon
<1> QED BY <1>4, <1>10, <1>11, <1>12, <1>13, <1>14 DEF MakerInv

\* A message that is submitted moves the quote along.
LEMMA SendKeepsInv ==
  ASSUME MakerInv, NEW m \in pending, Send(m)
  PROVE  MakerInv'
<1>1. maker' = maker /\ pending' = pending \ {m} /\ m \in Message
  BY DEF Send, MakerInv
<1>2. /\ m.id \in OrderIds /\ m.side \in Sides /\ m.price \in Int /\ m.quantity \in Int
  BY <1>1, MakerAssumption DEF Message, MakerIds
<1>3. CASE m.op = "new" /\ Submit(TermsOf(m))
  <2> DEFINE t == TermsOf(m)
  <2>1. /\ t \in Terms /\ t.id = m.id /\ t.side = m.side /\ t.price = m.price
        /\ t.type = "Limit"
    BY <1>2, MakerAssumption, EngineAssumption, ZenonT(30)
       DEF TermsOf, Terms, OrderTypes, TimesInForce
  <2> HIDE DEF t
  <2>2. Submit(t)
    BY <1>3 DEF t
  <2> QED BY <1>1, <1>3, <2>1, <2>2, SubmitMoves
<1>4. CASE m.op = "replace" /\ Replace(m.id, m.price, m.quantity)
  BY <1>1, <1>4, ReplaceMoves
<1>5. CASE m.op = "cancel" /\ Cancel(m.id)
  <2> DEFINE id == m.id
  <2>1. id \in OrderIds /\ Cancel(id) /\ \A x \in pending \ pending' : x.id = id
    BY <1>1, <1>2, <1>5
  <2> HIDE DEF id
  <2> QED BY <1>1, <2>1, CancelMoves
<1> QED BY <1>3, <1>4, <1>5 DEF Send

\* notify_order_gone forgets an order that does not rest.
LEMMA NotifyKeepsInv ==
  ASSUME MakerInv, NEW id \in MakerIds, NotifyGone(id)
  PROVE  MakerInv'
<1>1. /\ EngineInv /\ maker \in MakerState /\ IdsFresh(maker)
      /\ RestingTracked /\ QuotesApart /\ NoSelfTrade
  BY DEF MakerInv
<1>2. /\ pc = "idle" /\ pending = {} /\ pending' = pending /\ id \notin Resting(book)
      /\ maker' = notify_order_gone(maker, id) /\ UNCHANGED vars
  BY DEF NotifyGone
<1>3. pc' = pc /\ book' = book /\ fills' = fills /\ aggressor' = aggressor
  BY <1>2 DEF vars, callVars
<1>4. EngineInv'
  BY <1>1, <1>2, EngineStutters
<1>5. /\ maker' \in MakerState
      /\ maker'.next_order_id = maker.next_order_id
      /\ \A s \in Sides : maker'.resting_id[s] =
           IF maker.resting_id[s] = id THEN NoId ELSE maker.resting_id[s]
  BY <1>1, <1>2 DEF notify_order_gone, MakerState
<1>6. IdsFresh(maker')
  BY <1>1, <1>5 DEF IdsFresh, Sides
<1>7. RestingTracked'
  <2> SUFFICES ASSUME NEW k \in Resting(book), book.order_index[k].order.client = Maker
               PROVE  /\ k \in MakerIds
                      /\ maker'.resting_id[book.order_index[k].order.side] = k
    BY <1>3 DEF RestingTracked
  <2>1. k \in MakerIds /\ maker.resting_id[book.order_index[k].order.side] = k
    BY <1>1, <1>2, Zenon DEF RestingTracked
  <2>2. book.order_index[k].order.side \in Sides
    BY <1>1, RestingOrder, ZenonT(30) DEF EngineInv
  <2> QED BY <1>2, <1>5, <2>1, <2>2, Zenon
<1>8. AggressorTracked' /\ NoSelfTrade'
  BY <1>1, <1>2, <1>3, ZenonT(30) DEF AggressorTracked, NoSelfTrade
<1>9. QuotesApart'
  <2>1. \A s, p : QuotedAt(s, p)' <=> QuotedAt(s, p)
    BY <1>2, <1>3, ZenonT(30) DEF QuotedAt
  <2> QED BY <1>1, <2>1, ZenonT(30) DEF QuotesApart
<1> QED BY <1>2, <1>4, <1>5, <1>6, <1>7, <1>8, <1>9 DEF MakerInv

\* Calls of others, who do not use the client id of the maker, and the rest
\* of any call.
LEMMA TradeKeepsInv ==
  ASSUME MakerInv, Trade
  PROVE  MakerInv'
<1>1. maker' = maker /\ pending' = pending /\ pending \ pending' = {}
  BY DEF Trade
<1>2. ASSUME NEW t \in NewOrders, Submit(t) PROVE MakerInv'
  <2>1. t \in Terms /\ t.client # Maker
    BY EngineAssumption, MakerAssumption
  <2> QED BY <1>1, <1>2, <2>1, SubmitMoves
<1>3. ASSUME NEW id \in Resting(book), Cancel(id) PROVE MakerInv'
  <2>1. id \in OrderIds
    BY RestingOrder DEF MakerInv, EngineInv
  <2> QED BY <1>1, <1>3, <2>1, CancelMoves
<1>4. ASSUME MatchOne PROVE MakerInv'
  BY <1>1, <1>4, MatchMoves
<1>5. ASSUME FinishSubmit PROVE MakerInv'
  BY <1>1, <1>5, FinishMoves
<1> QED BY <1>2, <1>3, <1>4, <1>5 DEF Trade

-----------------------------------------------------------------------------
(* The theorems.                                                           *)

\* The inductive invariant of the maker in its market.
LEMMA MakerInvariant == MakerSpec => []MakerInv
<1>1. MakerInit => MakerInv
  <2> SUFFICES ASSUME MakerInit PROVE MakerInv
    OBVIOUS
  <2>1. /\ EngineInv /\ book = EmptyBook /\ pc = "idle" /\ fills = << >>
        /\ pending = {}
        /\ maker = [resting_id |-> [s \in Sides |-> NoId],
                    last_quoted |-> [s \in Sides |-> 0],
                    next_order_id |-> FirstOrderId]
    BY EngineStarts DEF MakerInit, Init
  <2>2. maker \in MakerState /\ IdsFresh(maker)
    BY <2>1, MakerAssumption DEF MakerState, IdsFresh, Sides
  <2>3. Resting(book) = {}
    BY <2>1, EmptyBookSound
  <2>4. RestingTracked /\ AggressorTracked /\ QuotesApart
    BY <2>1, <2>3 DEF RestingTracked, AggressorTracked, QuotesApart, QuotedAt
  <2>5. NoSelfTrade
    BY <2>1 DEF NoSelfTrade
  <2> QED BY <2>1, <2>2, <2>4, <2>5 DEF MakerInv
<1>2. MakerInv /\ [MakerNext]_makerVars => MakerInv'
  <2>1. MakerInv /\ MakerNext => MakerInv'
    BY TickKeepsInv, SendKeepsInv, NotifyKeepsInv, TradeKeepsInv DEF MakerNext
  <2>2. ASSUME MakerInv, UNCHANGED makerVars PROVE MakerInv'
    <3>1. /\ UNCHANGED vars /\ maker' = maker /\ pending' = pending
      BY <2>2 DEF makerVars
    <3>2. pc' = pc /\ book' = book /\ fills' = fills /\ aggressor' = aggressor
      BY <3>1 DEF vars, callVars
    <3>3. EngineInv'
      BY <2>2, <3>1, EngineStutters DEF MakerInv
    <3>4. maker' \in MakerState /\ IdsFresh(maker') /\ pending' \subseteq Message
      BY <2>2, <3>1 DEF MakerInv
    <3>5. \A m \in pending' : MessageInv(m)'
      BY <2>2, <3>1 DEF MakerInv, MessageInv
    <3>6. RestingTracked' /\ AggressorTracked'
      BY <2>2, <3>1, <3>2, Zenon DEF MakerInv, RestingTracked, AggressorTracked
    <3>7. QuotesApart'
      BY <2>2, <3>1, <3>2, Zenon DEF MakerInv, QuotesApart, QuotedAt
    <3>8. NoSelfTrade'
      BY <2>2, <3>2 DEF MakerInv, NoSelfTrade
    <3> QED BY <3>3, <3>4, <3>5, <3>6, <3>7, <3>8 DEF MakerInv
  <2> QED BY <2>1, <2>2
<1> QED BY <1>1, <1>2, PTL DEF MakerSpec

\* The maker never loses track of a quote that rests: it can always replace
\* or pull it, or has asked for its cancel (on_tick, notify_order_gone).
THEOREM MakerTracksQuotes == MakerSpec => []QuotesTracked
<1>1. MakerInv => QuotesTracked
  BY Zenon DEF MakerInv, RestingTracked, QuotesTracked
<1> QED BY <1>1, MakerInvariant, PTL

\* The bid and the ask of the maker never trade with each other, for every
\* spread of at least one tick and every reference price (on_tick,
\* compute_mid).
THEOREM MakerNeverSelfTrades == MakerSpec => []NoSelfTrade
<1>1. MakerInv => NoSelfTrade
  BY DEF MakerInv
<1> QED BY <1>1, MakerInvariant, PTL
=============================================================================
