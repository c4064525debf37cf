----------------------- MODULE MakerInventory_proofs -----------------------
(***************************************************************************)
(* For every limit and every quote size, the position of the market maker  *)
(* overshoots max_inventory by less than two quotes.                       *)
(*                                                                         *)
(* The maker has one quote open on a side at most.  The argument bounds    *)
(* what its position becomes if all that it has open on a side trades, and *)
(* what it may become by the time a message that is on its way arrives.    *)
(***************************************************************************)
EXTENDS MarketMaker_proofs

\* A leaf is tried with the SMT solver, which gets more time than it has by
\* default, and then with Zenon.
USE SMTT(20), ZenonT(30), SMTT(21), SMTT(22)

-----------------------------------------------------------------------------
(* The position and what is open.                                          *)

\* The position of the maker as side s sees it: a fill of a quote on that side
\* adds to it, a fill on the other takes from it.
Held(s) == IF s = "Buy" THEN inventory ELSE 0 - inventory

\* The resting orders of the maker on side s.
Quotes(s) ==
  {id \in Resting(book) :
     book.order_index[id].order.client = Maker /\ book.order_index[id].order.side = s}

\* The order that is being matched is a quote of the maker on side s.
Matched(s) == pc = "match" /\ aggressor.client = Maker /\ aggressor.side = s

\* If all that the maker has open on side s trades, its position is at most n.
Within(s, n) ==
  /\ Held(s) <= n
  /\ \A id \in Quotes(s) : Held(s) + book.order_index[id].order.remaining <= n
  /\ Matched(s) => Held(s) + aggressor.remaining <= n

PositionLimit == max_inventory + 2 * (quote_size - 1)

\* A new quote was allowed when the maker had nothing on that side, and
\* nothing can have traded there since; a replace was allowed when it had one
\* quote at most, of which some may have traded.
MessageBound(m) ==
  /\ m.op # "cancel" => m.quantity = quote_size
  /\ m.op = "new" => /\ Quotes(m.side) = {} /\ ~Matched(m.side)
                     /\ Within(m.side, max_inventory - 1)
  /\ m.op = "replace" => Within(m.side, max_inventory - 1 + quote_size)
  /\ m.op = "cancel" => /\ maker.resting_id[m.side] = NoId
                        /\ \A s \in Sides : m.id \in Quotes(s) => s = m.side

\* The inductive invariant of the position.  Quotes are of one size and the
\* ids of the maker are its own, so that it has one quote open on a side.
InventoryInv ==
  /\ inventory \in Int
  /\ \A s \in Sides : Within(s, PositionLimit)
  /\ \A m \in pending : MessageBound(m)
  /\ \A m, n \in pending : m.side = n.side => m = n
  /\ \A id \in Resting(book) :
       /\ id \in MakerIds => book.order_index[id].order.client = Maker
       /\ book.order_index[id].order.client = Maker =>
            book.order_index[id].order.remaining <= quote_size
  /\ pc = "match" /\ aggressor.id \in MakerIds => aggressor.client = Maker
  /\ pc = "match" /\ aggressor.client = Maker =>
       aggressor.remaining <= quote_size /\ aggressor.id \notin Resting(book)

\* The maker has one quote open on a side at most: what it tracks there, or
\* what it has asked to cancel.
LEMMA OneQuote ==
  ASSUME MakerInv, InventoryInv, NEW s \in Sides
  PROVE  /\ \A id, k \in Quotes(s) : id = k
         /\ Matched(s) => Quotes(s) = {}
         /\ maker.resting_id[s] = NoId /\ pending = {} => Quotes(s) = {}
<1>1. ASSUME NEW id \in Quotes(s)
      PROVE  /\ id # NoId
             /\ \/ maker.resting_id[s] = id
                \/ \E m \in pending : /\ m.op = "cancel" /\ m.id = id /\ m.side = s
                                      /\ maker.resting_id[s] = NoId
  <2>1. id \in Resting(book) /\ book.order_index[id].order.client = Maker
        /\ book.order_index[id].order.side = s
    BY DEF Quotes
  <2>2. id \in MakerIds /\ \/ maker.resting_id[s] = id
                           \/ \E m \in pending : m.op = "cancel" /\ m.id = id
    BY <2>1, Zenon DEF MakerInv, RestingTracked
  <2>3. ASSUME NEW m \in pending, m.op = "cancel", m.id = id
        PROVE  m.side = s /\ maker.resting_id[s] = NoId
    <3>1. MessageBound(m)
      BY DEF InventoryInv
    <3> QED
      BY <2>3, <3>1 DEF MessageBound
  <2> QED
    BY <2>2, <2>3, MakerIdsType
<1>2. ASSUME NEW id \in Quotes(s), NEW k \in Quotes(s) PROVE id = k
  <2>1. CASE maker.resting_id[s] # NoId
    BY <1>1, <2>1
  <2>2. CASE maker.resting_id[s] = NoId
    <3>1. PICK m \in pending : m.id = id /\ m.side = s
      BY <1>1, <2>2
    <3>2. PICK n \in pending : n.id = k /\ n.side = s
      BY <1>1, <2>2
    <3>3. m = n
      BY <3>1, <3>2 DEF InventoryInv
    <3> QED
      BY <3>1, <3>2, <3>3
  <2> QED
    BY <2>1, <2>2
<1>3. ASSUME Matched(s), NEW id \in Quotes(s) PROVE FALSE
  <2>1. /\ maker.resting_id[s] = aggressor.id /\ aggressor.id \in MakerIds
        /\ aggressor.id \notin Resting(book)
    BY <1>3 DEF Matched, MakerInv, AggressorTracked, InventoryInv
  <2>2. aggressor.id # NoId
    BY <2>1, MakerIdsType
  <2> QED
    BY <1>1, <1>3, <2>1, <2>2 DEF Quotes
<1>4. ASSUME maker.resting_id[s] = NoId, pending = {}, NEW id \in Quotes(s) PROVE FALSE
  BY <1>1, <1>4
<1> QED
  BY <1>2, <1>3, <1>4

\* An order that the maker wants to quote or to move, if it rests, is its
\* quote on the side of the message.
LEMMA TrackedQuote ==
  ASSUME MakerInv, InventoryInv, NEW m \in pending, m.op # "cancel", m.id \in Resting(book)
  PROVE  m.id \in Quotes(m.side)
<1> DEFINE o == book.order_index[m.id].order
<1>1. /\ m.id \in MakerIds /\ m.side \in Sides /\ maker.resting_id[m.side] = m.id
      /\ \A x \in pending : x.op = "cancel" => x.id # m.id
      /\ m.id # NoId
  BY MakerIdsType DEF MakerInv, Message, MessageInv
<1>2. o.client = Maker /\ o.side \in Sides
  BY <1>1, RestingOrder DEF InventoryInv, MakerInv, EngineInv
<1>3. maker.resting_id[o.side] = m.id
  BY <1>1, <1>2, ZenonT(30) DEF MakerInv, RestingTracked
<1> HIDE DEF o
<1>4. o.side = m.side
  BY <1>1, <1>2, <1>3 DEF MakerInv, IdsFresh, Sides
<1> QED
  BY <1>2, <1>4 DEF Quotes, o

\* Each order that rests after the step rested before it with the same terms
\* and as much open, or was being matched.
QuotesFromBefore ==
  \A id \in Resting(book') :
    LET o == book'.order_index[id].order
    IN  \/ /\ id \in Resting(book) /\ SameQuote(o, book.order_index[id].order)
           /\ o.remaining = book.order_index[id].order.remaining
        \/ /\ pc = "match" /\ id = aggressor.id /\ SameQuote(o, aggressor)
           /\ o.remaining = aggressor.remaining

\* A step that trades nothing keeps the invariant, if on the sides outside S,
\* where a quote may begin to be matched, there is room for it.
LEMMA QuietStep ==
  ASSUME MakerInv, InventoryInv, QuotesFromBefore,
         inventory' = inventory, maker' = maker, NEW S \in SUBSET Sides,
         \A m \in pending' : m \in pending /\ m.side \in S,
         \A s \in S : ~Matched(s)',
         \A s \in Sides \ S : Within(s, PositionLimit)',
         pc' = "match" /\ aggressor'.id \in MakerIds => aggressor'.client = Maker,
         pc' = "match" /\ aggressor'.client = Maker =>
           aggressor'.remaining <= quote_size /\ aggressor'.id \notin Resting(book')
  PROVE  InventoryInv'
<1>1. ASSUME NEW s \in Sides, NEW id \in Quotes(s)'
      PROVE  \/ /\ id \in Quotes(s)
                /\ book'.order_index[id].order.remaining = book.order_index[id].order.remaining
             \/ /\ Matched(s) /\ id = aggressor.id
                /\ book'.order_index[id].order.remaining = aggressor.remaining
  BY Zenon DEF Quotes, Matched, QuotesFromBefore, SameQuote
<1>2. \A s \in Sides : Held(s)' = Held(s)
  BY DEF Held
<1>3. ASSUME NEW s \in S, NEW n, Within(s, n) PROVE Within(s, n)'
  <2>1. s \in Sides
    OBVIOUS
  <2>2. Held(s)' <= n
    BY <1>2, <1>3 DEF Within
  <2>3. ASSUME NEW id \in Quotes(s)'
        PROVE  Held(s)' + book'.order_index[id].order.remaining <= n
    BY <1>1, <1>2, <1>3, <2>1 DEF Within
  <2> QED
    BY <2>2, <2>3 DEF Within
<1>4. \A s \in Sides : Within(s, PositionLimit)'
  BY <1>3 DEF InventoryInv
<1>5. ASSUME NEW m \in pending' PROVE MessageBound(m)'
  <2>1. m \in pending /\ MessageBound(m) /\ m.side \in S /\ m.side \in Sides /\ MessageInv(m)
    BY DEF InventoryInv, MakerInv
  <2>2. m.op # "cancel" => m.quantity = quote_size
    BY <2>1 DEF MessageBound
  <2>3. m.op = "new" => /\ Quotes(m.side)' = {} /\ ~Matched(m.side)'
                        /\ Within(m.side, max_inventory - 1)'
    BY <1>1, <1>3, <2>1 DEF MessageBound
  <2>4. m.op = "replace" => Within(m.side, max_inventory - 1 + quote_size)'
    BY <1>3, <2>1 DEF MessageBound
  <2>5. ASSUME m.op = "cancel"
        PROVE  /\ maker'.resting_id[m.side] = NoId
               /\ \A s \in Sides : m.id \in Quotes(s)' => s = m.side
    <3>1. /\ maker.resting_id[m.side] = NoId
          /\ \A s \in Sides : m.id \in Quotes(s) => s = m.side
          /\ \A s \in Sides : maker.resting_id[s] # m.id
      BY <2>1, <2>5 DEF MessageBound, MessageInv
    <3>2. \A s \in Sides : ~(Matched(s) /\ m.id = aggressor.id)
      BY <3>1 DEF Matched, MakerInv, AggressorTracked
    <3> QED
      BY <1>1, <3>1, <3>2
  <2> QED
    BY <2>2, <2>3, <2>4, <2>5 DEF MessageBound
<1>6. ASSUME NEW id \in Resting(book')
      PROVE  /\ id \in MakerIds => book'.order_index[id].order.client = Maker
             /\ book'.order_index[id].order.client = Maker =>
                  book'.order_index[id].order.remaining <= quote_size
  BY DEF InventoryInv, QuotesFromBefore, SameQuote
<1> QED
  BY <1>4, <1>5, <1>6 DEF InventoryInv

-----------------------------------------------------------------------------
(* Calls and fills.                                                        *)

\* cancel leaves the other orders as they are.
LEMMA CancelLeaves ==
  ASSUME NEW b, BookInv(b), NEW id, NEW c, c = cancel(b, id).book
  PROVE  /\ id \notin Resting(c)
         /\ \A k \in Resting(c) : k \in Resting(b) /\ c.order_index[k] = b.order_index[k]
<1>1. CASE id \in Resting(b)
  <2>1. c = Without(b, id)
    BY <1>1 DEF cancel
  <2>2. /\ Resting(c) = Resting(b) \ {id}
        /\ \A k \in Resting(b) \ {id} : c.order_index[k] = b.order_index[k]
    BY <2>1 DEF Without, Resting
  <2> QED
    BY <2>2
<1>2. CASE id \notin Resting(b)
  BY <1>2 DEF cancel
<1> QED
  BY <1>1, <1>2

\* An order that goes on to the matching loop is all open.
LEMMA BeginSubmitOpen ==
  ASSUME pc = "idle", NEW b, NEW o \in Order, NEW from, BeginSubmit(b, o, from)
  PROVE  pc' = "match" => aggressor'.remaining = o.quantity
<1>1. pc' = "match" => aggressor' = [o EXCEPT !.remaining = o.quantity]
  BY DEF BeginSubmit
<1> QED
  BY <1>1 DEF Order

\* A new order of somebody else.
LEMMA OthersSubmit ==
  ASSUME MakerInv, InventoryInv, NEW t \in NewOrders, Submit(t),
         inventory' = inventory, maker' = maker, pending' = pending
  PROVE  InventoryInv'
<1> DEFINE o == Sequenced(t, next_sequence)
<1>1. t \in Terms /\ t.client # Maker /\ t.id \notin MakerIds
  BY EngineAssumption, MakerAssumption DEF MakerIds
<1>2. o \in Order /\ o.id = t.id /\ SameQuote(o, t)
  BY <1>1, SequencedOrder DEF MakerInv, EngineInv, TypeOK, Sequenced, SameQuote
<1>3. pc = "idle" /\ BeginSubmit(book, o, "submit")
  BY DEF Submit
<1> HIDE DEF o
<1>4. /\ book' = book
      /\ pc' = "match" => aggressor'.id = o.id /\ SameQuote(aggressor', o)
  BY <1>2, <1>3, BeginSubmitQuote
<1>5. pc' = "match" => aggressor'.client # Maker /\ aggressor'.id \notin MakerIds
  BY <1>1, <1>2, <1>4 DEF SameQuote
<1>6. QuotesFromBefore
  BY <1>4 DEF QuotesFromBefore, SameQuote
<1>7. /\ \A s \in Sides : ~Matched(s)'
      /\ \A m \in pending : m.side \in Sides
  BY <1>5 DEF Matched, MakerInv, Message
<1> QED
  BY <1>5, <1>6, <1>7, QuietStep

\* A cancel, by whomever.
LEMMA CancelIsQuiet ==
  ASSUME MakerInv, InventoryInv, NEW id \in OrderIds, Cancel(id),
         inventory' = inventory, maker' = maker, pending' \subseteq pending
  PROVE  InventoryInv'
<1>1. pc' = "idle" /\ book' = cancel(book, id).book
  BY DEF Cancel
<1>2. \A k \in Resting(book') : /\ k \in Resting(book)
                                /\ book'.order_index[k] = book.order_index[k]
  BY <1>1, CancelLeaves DEF MakerInv, EngineInv
<1>3. QuotesFromBefore
  BY <1>2 DEF QuotesFromBefore, SameQuote
<1>4. /\ \A s \in Sides : ~Matched(s)'
      /\ \A m \in pending' : m \in pending /\ m.side \in Sides
  BY <1>1 DEF Matched, MakerInv, Message
<1> QED
  BY <1>1, <1>3, <1>4, QuietStep

\* The end of submit: what is left of a quote rests, or is dropped.
LEMMA FinishIsQuiet ==
  ASSUME MakerInv, InventoryInv, FinishSubmit,
         inventory' = inventory, maker' = maker, pending' = pending
  PROVE  InventoryInv'
<1>1. pc = "match" /\ pc' = "idle"
  BY DEF FinishSubmit
<1>2. ASSUME book' = book PROVE QuotesFromBefore
  BY <1>2 DEF QuotesFromBefore, SameQuote
<1>3. ASSUME book' # book PROVE QuotesFromBefore
  <2>1. book' = Rest(book, aggressor)
    BY <1>3 DEF FinishSubmit, add
  <2>2. /\ Resting(book') = Resting(book) \cup {aggressor.id}
        /\ \A k \in Resting(book') : book'.order_index[k].order =
             IF k = aggressor.id THEN aggressor ELSE book.order_index[k].order
    BY <2>1 DEF Rest, Resting
  <2> QED
    BY <1>1, <2>2 DEF QuotesFromBefore, SameQuote
<1>4. /\ \A s \in Sides : ~Matched(s)'
      /\ \A m \in pending' : m \in pending /\ m.side \in Sides
  BY <1>1 DEF Matched, MakerInv, Message
<1> QED
  BY <1>1, <1>2, <1>3, <1>4, QuietStep

\* A quote that begins to be matched fits, if the position leaves room for it
\* and the maker has no other on that side.
LEMMA QuoteSent ==
  ASSUME MakerInv, InventoryInv, NEW m \in pending, m.op # "cancel", QuotesFromBefore,
         pc = "idle", inventory' = inventory, maker' = maker, pending' = pending \ {m},
         Quotes(m.side)' = {}, m.id \notin Resting(book'),
         Held(m.side) + quote_size <= PositionLimit,
         pc' = "match" => /\ aggressor'.id = m.id /\ aggressor'.client = Maker
                          /\ aggressor'.side = m.side /\ aggressor'.remaining = m.quantity
  PROVE  InventoryInv'
<1>1. m.side \in Sides /\ m.quantity = quote_size /\ quote_size \in Nat
  BY MakerAssumption DEF MakerInv, Message, InventoryInv, MessageBound
<1>2. /\ Held(m.side)' = Held(m.side) /\ Held(m.side) \in Int
      /\ Held(m.side) <= PositionLimit
  BY <1>1 DEF Held, InventoryInv, Within
<1>3. Within(m.side, PositionLimit)'
  BY <1>1, <1>2 DEF Within, Matched
<1> DEFINE S == Sides \ {m.side}
<1>4. \A x \in pending' : x \in pending /\ x.side \in S
  BY ZenonT(30) DEF InventoryInv, MakerInv, Message
<1>5. \A s \in S : ~Matched(s)'
  BY DEF Matched
<1>6. \A s \in Sides \ S : Within(s, PositionLimit)'
  BY <1>3
<1>7. /\ pc' = "match" /\ aggressor'.id \in MakerIds => aggressor'.client = Maker
      /\ pc' = "match" /\ aggressor'.client = Maker =>
           aggressor'.remaining <= quote_size /\ aggressor'.id \notin Resting(book')
  BY <1>1
<1>8. S \in SUBSET Sides
  OBVIOUS
<1> HIDE DEF S
<1> QED
  BY <1>4, <1>5, <1>6, <1>7, <1>8, QuietStep

\* A new quote: the maker had nothing on that side.
LEMMA NewQuote ==
  ASSUME MakerInv, InventoryInv, NEW m \in pending, m.op = "new", Submit(TermsOf(m)),
         inventory' = inventory, maker' = maker, pending' = pending \ {m}
  PROVE  InventoryInv'
<1> DEFINE t == TermsOf(m)
           o == Sequenced(t, next_sequence)
<1>1. /\ m \in Message /\ MessageBound(m)
      /\ m.id \in OrderIds /\ m.side \in Sides /\ m.price \in Int /\ m.quantity \in Int
  BY MakerAssumption DEF MakerInv, InventoryInv, Message, MakerIds
<1>2. /\ t \in Terms /\ t.client = Maker
      /\ t.id = m.id /\ t.side = m.side /\ t.quantity = m.quantity
  BY <1>1, EngineAssumption, MakerAssumption DEF TermsOf, Terms, OrderTypes, TimesInForce
<1>3. pc = "idle" /\ BeginSubmit(book, o, "submit")
  BY DEF Submit
<1> HIDE DEF t
<1>4. o \in Order /\ o.id = t.id /\ SameQuote(o, t) /\ o.quantity = t.quantity
  BY <1>2, SequencedOrder DEF MakerInv, EngineInv, TypeOK, Sequenced, SameQuote
<1> HIDE DEF o
<1>5. /\ book' = book
      /\ pc' = "match" => /\ aggressor'.id = o.id /\ SameQuote(aggressor', o)
                          /\ aggressor'.remaining = o.quantity
  BY <1>3, <1>4, BeginSubmitQuote, BeginSubmitOpen
<1>6. pc' = "match" => /\ aggressor'.id = m.id /\ aggressor'.client = Maker
                       /\ aggressor'.side = m.side /\ aggressor'.remaining = m.quantity
  BY <1>2, <1>4, <1>5 DEF SameQuote
<1>7. QuotesFromBefore
  BY <1>5 DEF QuotesFromBefore, SameQuote
<1>8. /\ Quotes(m.side) = {} /\ Held(m.side) <= max_inventory - 1
  BY <1>1 DEF MessageBound, Within
<1>9. Quotes(m.side)' = {} /\ m.id \notin Resting(book')
  BY <1>5, <1>8, TrackedQuote, ZenonT(30) DEF Quotes
<1>10. Held(m.side) + quote_size <= PositionLimit
  BY <1>1, <1>8, MakerAssumption DEF Held, PositionLimit, InventoryInv
<1> QED
  BY <1>3, <1>6, <1>7, <1>9, <1>10, QuoteSent

\* A replace: the quote was open with one unit at least, which it takes out
\* of the book before it is matched again with its full size.
LEMMA ReplacedQuote ==
  ASSUME MakerInv, InventoryInv, NEW m \in pending, m.op = "replace",
         Replace(m.id, m.price, m.quantity),
         inventory' = inventory, maker' = maker, pending' = pending \ {m}
  PROVE  InventoryInv'
<1> DEFINE id == m.id
           o == book.order_index[id].order
           u == Updated(o, m.price, m.quantity, next_sequence)
           reason == replace_reject(book, id, m.price, m.quantity)
<1>1. /\ m \in Message /\ MessageBound(m) /\ m.side \in Sides
      /\ m.price \in Int /\ m.quantity \in Int /\ BookInv(book) /\ next_sequence \in Nat
  BY DEF MakerInv, InventoryInv, Message, EngineInv, TypeOK
<1>2. pc = "idle"
  BY DEF Replace
<1>3. CASE reason = "None"
  <2>1. id \in Resting(book)
    BY <1>3 DEF replace_reject
  <2>2. BeginSubmit(cancel(book, id).book, u, "replace")
    BY <1>3 DEF Replace
  <2>3. id \in Quotes(m.side)
    BY <2>1, TrackedQuote
  <2>4. /\ o \in Order /\ o.id = id /\ o.remaining \in Int /\ o.remaining > 0
        /\ o.client = Maker /\ o.side = m.side
    BY <1>1, <2>1, <2>3, RestingOrder DEF Quotes
  <2>5. Held(m.side) + o.remaining <= max_inventory - 1 + quote_size
    BY <1>1, <2>3 DEF MessageBound, Within
  <2> HIDE DEF o
  <2>6. /\ u \in Order /\ u.id = id /\ u.side = m.side /\ u.client = Maker
        /\ u.quantity = m.quantity
    <3> DEFINE p == m.price
               q == m.quantity
    <3>1. p \in Int /\ q \in Int
      BY <1>1
    <3> HIDE DEF p, q
    <3>2. LET v == Updated(o, p, q, next_sequence)
          IN  /\ v \in Order /\ v.id = o.id /\ v.side = o.side
              /\ v.client = o.client /\ v.quantity = q
      BY <1>1, <2>4, <3>1, UpdatedOrder
    <3> QED
      BY <2>4, <3>2 DEF p, q
  <2> HIDE DEF u
  <2>7. /\ book' = cancel(book, id).book
        /\ pc' = "match" => /\ aggressor'.id = u.id /\ SameQuote(aggressor', u)
                            /\ aggressor'.remaining = u.quantity
    BY <1>2, <2>2, <2>6, BeginSubmitQuote, BeginSubmitOpen
  <2>8. /\ id \notin Resting(book')
        /\ \A k \in Resting(book') : /\ k \in Resting(book)
                                     /\ book'.order_index[k] = book.order_index[k]
    BY <1>1, <2>7, CancelLeaves
  <2>9. QuotesFromBefore
    BY <2>8 DEF QuotesFromBefore, SameQuote
  <2>10. Quotes(m.side)' = {}
    <3> SUFFICES ASSUME NEW k \in Quotes(m.side)' PROVE FALSE
      OBVIOUS
    <3>1. k \in Quotes(m.side) /\ k # id
      BY <2>8 DEF Quotes
    <3> QED
      BY <1>1, <2>3, <3>1, OneQuote
  <2>11. Held(m.side) + quote_size <= PositionLimit
    BY <1>1, <2>4, <2>5, MakerAssumption DEF Held, PositionLimit, InventoryInv
  <2>12. pc' = "match" => /\ aggressor'.id = m.id /\ aggressor'.client = Maker
                          /\ aggressor'.side = m.side /\ aggressor'.remaining = m.quantity
    BY <2>6, <2>7 DEF SameQuote
  <2> QED
    BY <1>2, <2>8, <2>9, <2>10, <2>11, <2>12, QuoteSent
<1>4. CASE reason # "None"
  <2>1. book' = book /\ pc' = pc
    BY <1>4 DEF Replace
  <2>2. QuotesFromBefore
    BY <2>1 DEF QuotesFromBefore, SameQuote
  <2>3. /\ \A s \in Sides : ~Matched(s)'
        /\ \A x \in pending' : x \in pending /\ x.side \in Sides
    BY <1>2, <2>1 DEF Matched, MakerInv, Message
  <2> QED
    BY <1>2, <2>1, <2>2, <2>3, QuietStep
<1> QED
  BY <1>3, <1>4

\* What reduce_quantity does to the resting orders.
LEMMA ReducedQuotes ==
  ASSUME NEW b, BookInv(b), NEW x \in Resting(b), NEW q \in Int,
         0 < q, q <= b.order_index[x].order.remaining,
         NEW c, c = reduce_quantity(b, x, q).book
  PROVE  /\ Resting(c) \subseteq Resting(b)
         /\ \A k \in Resting(c) :
              /\ SameQuote(c.order_index[k].order, b.order_index[k].order)
              /\ c.order_index[k].order.remaining =
                   IF k = x THEN b.order_index[k].order.remaining - q
                            ELSE b.order_index[k].order.remaining
<1> DEFINE r == b.order_index[x].order
<1>1. r \in Order /\ r.remaining \in Int
  BY RestingOrder, ZenonT(30)
<1>2. CASE q = r.remaining
  <2>1. c = Without(b, x)
    BY <1>2, ReduceSound, ZenonT(30)
  <2>2. /\ Resting(c) = Resting(b) \ {x}
        /\ \A k \in Resting(b) \ {x} : c.order_index[k] = b.order_index[k]
    BY <2>1, WithoutSound
  <2> QED
    BY <2>2 DEF SameQuote
<1>3. CASE q # r.remaining
  <2>1. c = Shrunk(b, x, q)
    BY <1>3, ReduceSound, ZenonT(30)
  <2>2. /\ Resting(c) = Resting(b)
        /\ \A k \in Resting(b) \ {x} : c.order_index[k] = b.order_index[k]
        /\ c.order_index[x].order = [r EXCEPT !.remaining = @ - q]
    BY <1>1, <1>3, <2>1, ShrunkSound
  <2> HIDE DEF r
  <2>3. SameQuote(c.order_index[x].order, r) /\ c.order_index[x].order.remaining = r.remaining - q
    BY <1>1, <2>2 DEF SameQuote, Order
  <2> QED
    BY <2>2, <2>3, ZenonT(30) DEF SameQuote, r
<1> QED
  BY <1>2, <1>3

\* A fill takes as much from what is open as it adds to the position.
LEMMA FillKeepsBound ==
  ASSUME MakerInv, MakerInv', InventoryInv, MatchOne, maker' = maker, pending' = pending,
         inventory' = inventory + PositionChange(fills'[Len(fills')])
  PROVE  InventoryInv'
<1> DEFINE a == aggressor.side
           s == opposite(a)
           id == Head(Queue(book, s, best_index(book, s)))
           best == price_at(best_index(book, s))
           r == book.order_index[id].order
           q == fill_quantity(aggressor, r)
<1>1. EngineInv /\ BookInv(book) /\ fills \in Seq(Fill)
  BY DEF MakerInv, EngineInv, TypeOK
<1>2. /\ pc = "match" /\ pc' = "match" /\ aggressor \in Order /\ best_index(book, s) # NoIndex
      /\ aggressor.remaining > 0
  BY <1>1, ZenonT(30) DEF MatchOne, Matchable, EngineInv, TypeOK
<1>3. a \in Sides /\ s \in Sides /\ s # a /\ aggressor.remaining \in Int
  BY <1>2 DEF opposite, Sides, Order
<1>4. /\ id \in Resting(book) /\ r.side = s /\ front_at(book, s, best) = r /\ r.id = id
  BY <1>1, <1>2, <1>3, FrontOfBest, Zenon
<1>5. r.remaining \in Int /\ r.remaining > 0
  BY <1>1, <1>4, RestingOrder, ZenonT(30)
<1>6. q \in Int /\ 0 < q /\ q <= r.remaining /\ q <= aggressor.remaining
  BY <1>2, <1>3, <1>5, FillIsSmaller, ZenonT(30)
<1>7. /\ aggressor' = [aggressor EXCEPT !.remaining = @ - q]
      /\ book' = reduce_quantity(book, id, q).book
  BY <1>4, ZenonT(30) DEF MatchOne
<1>8. /\ aggressor'.id = aggressor.id /\ aggressor'.client = aggressor.client
      /\ aggressor'.side = a /\ aggressor'.remaining = aggressor.remaining - q
  BY <1>2, <1>7 DEF Order
<1> DEFINE left(k) == book.order_index[k].order.remaining
<1>9. /\ Resting(book') \subseteq Resting(book)
      /\ \A k \in Resting(book') : /\ left(k) \in Int /\ left(k)' <= left(k)
                                   /\ left(k)' = IF k = id THEN left(k) - q ELSE left(k)
                                   /\ SameQuote(book'.order_index[k].order,
                                                book.order_index[k].order)
  <2>1. /\ BookInv(book) /\ id \in Resting(book)
        /\ q \in Int /\ 0 < q /\ q <= book.order_index[id].order.remaining
        /\ book' = reduce_quantity(book, id, q).book
    BY <1>1, <1>4, <1>6, <1>7, Zenon
  <2> HIDE DEF id, r, q
  <2>2. /\ Resting(book') \subseteq Resting(book)
        /\ \A k \in Resting(book') :
             /\ SameQuote(book'.order_index[k].order, book.order_index[k].order)
             /\ book'.order_index[k].order.remaining =
                  IF k = id THEN book.order_index[k].order.remaining - q
                            ELSE book.order_index[k].order.remaining
    BY <2>1, ReducedQuotes
  <2>3. \A k \in Resting(book) : left(k) \in Int
    BY <1>1, RestingOrder, ZenonT(30)
  <2>4. \A k \in Resting(book') : left(k)' = IF k = id THEN left(k) - q ELSE left(k)
    BY <2>2
  <2> HIDE DEF left
  <2> QED BY <2>1, <2>2, <2>3, <2>4
<1> DEFINE f == [match_id |-> next_match_id,
                 resting_order_id |-> r.id,
                 resting_client_id |-> r.client,
                 aggressor_order_id |-> aggressor.id,
                 aggressor_client_id |-> aggressor.client,
                 price |-> best,
                 quantity |-> q,
                 aggressor_side |-> aggressor.side,
                 resting_fully_filled |-> q = r.remaining]
<1>10. /\ fills' = Append(fills, f)
       /\ f.aggressor_client_id = aggressor.client /\ f.resting_client_id = r.client
       /\ f.quantity = q /\ f.aggressor_side = a
  BY <1>4, ZenonT(30) DEF MatchOne
<1> HIDE DEF f
<1>11. fills'[Len(fills')] = f /\ Len(fills') \in DOMAIN fills'
  BY <1>1, <1>10
<1>12. ~(aggressor.client = Maker /\ r.client = Maker)
  BY <1>10, <1>11, Zenon DEF MakerInv, NoSelfTrade
<1> HIDE DEF s, id, best, r, q, a, left
<1>13. inventory \in Int /\ inventory' = inventory + PositionChange(f)
  BY <1>11 DEF InventoryInv
<1>14. ASSUME NEW x \in Sides
       PROVE  /\ Held(x) \in Int /\ Held(x)' \in Int
              /\ aggressor.client = Maker => Held(x)' = IF x = a THEN Held(x) + q ELSE Held(x) - q
              /\ r.client = Maker => Held(x)' = IF x = s THEN Held(x) + q ELSE Held(x) - q
              /\ aggressor.client # Maker /\ r.client # Maker => Held(x)' = Held(x)
  <2>1. PositionChange(f) = IF aggressor.client = Maker THEN IF a = "Buy" THEN q ELSE 0 - q
                            ELSE IF r.client = Maker THEN IF a = "Buy" THEN 0 - q ELSE q
                            ELSE 0
    BY <1>6, <1>10, <1>12 DEF PositionChange
  <2>2. s = IF a = "Buy" THEN "Sell" ELSE "Buy"
    BY DEF s, opposite
  <2>3. CASE x = "Buy"
    BY <1>3, <1>6, <1>12, <1>13, <2>1, <2>2, <2>3 DEF Held, Sides
  <2>4. CASE x = "Sell"
    BY <1>3, <1>6, <1>12, <1>13, <2>1, <2>2, <2>4 DEF Held, Sides
  <2> QED BY <2>3, <2>4, ZenonT(30) DEF Sides
<1>15. ASSUME NEW x \in Sides
       PROVE  /\ Quotes(x)' \subseteq Quotes(x)
              /\ Matched(x)' <=> Matched(x)
  BY <1>2, <1>8, <1>9 DEF Quotes, Matched, SameQuote, a
<1>16. ASSUME NEW x \in Sides, NEW n \in Int, Within(x, n)
       PROVE  Within(x, n)'
  <2>1. ASSUME Held(x)' <= Held(x), Held(x) \in Int, Held(x)' \in Int PROVE Within(x, n)'
    <3>1. \A k \in Quotes(x)' : /\ k \in Resting(book') /\ k \in Quotes(x)
                                /\ left(k) \in Int /\ left(k)' \in Int /\ left(k)' <= left(k)
      BY <1>6, <1>9, <1>15 DEF Quotes
    <3>2. \A k \in Quotes(x) : Held(x) + left(k) <= n
      BY <1>16, ZenonT(30) DEF Within, left
    <3>3. \A k \in Quotes(x)' : Held(x)' + left(k)' <= n
      BY <2>1, <3>1, <3>2
    <3>4. Matched(x)' => Held(x)' + aggressor'.remaining <= n
      BY <1>3, <1>6, <1>8, <1>15, <1>16, <2>1 DEF Within
    <3>5. Held(x)' <= n
      BY <1>16, <2>1 DEF Within
    <3> QED BY <3>3, <3>4, <3>5, Zenon DEF Within, left
  <2>2. CASE x = a /\ aggressor.client = Maker
    <3>1. Matched(x) /\ Quotes(x)' = {}
      BY <1>2, <1>15, <2>2, OneQuote DEF Matched, a
    <3>2. Held(x) + aggressor.remaining <= n
      BY <1>16, <3>1 DEF Within
    <3>3. Held(x)' <= n /\ Held(x)' + aggressor'.remaining <= n
      BY <1>3, <1>6, <1>8, <1>14, <2>2, <3>2
    <3> QED BY <3>1, <3>3, Zenon DEF Within
  <2>3. CASE x = s /\ r.client = Maker
    <3>1. id \in Quotes(x)
      BY <1>4, <2>3 DEF Quotes, r
    <3>2. Held(x) + r.remaining <= n
      BY <1>16, <3>1, Zenon DEF Within, r
    <3>3. Held(x)' <= n /\ Held(x)' + (r.remaining - q) <= n
      BY <1>5, <1>6, <1>14, <2>3, <3>2
    <3>4. \A k \in Quotes(x)' : k = id /\ left(k)' = r.remaining - q
      <4>1. \A k \in Quotes(x)' : k = id /\ k \in Resting(book')
        BY <1>15, <3>1, OneQuote DEF Quotes
      <4> QED BY <1>9, <4>1 DEF left, r
    <3>5. ~Matched(x)'
      BY <1>3, <1>15, <2>3 DEF Matched, a
    <3> QED BY <3>3, <3>4, <3>5, Zenon DEF Within, left
  <2>4. ASSUME ~(x = a /\ aggressor.client = Maker), ~(x = s /\ r.client = Maker)
        PROVE  Held(x)' <= Held(x)
    BY <1>3, <1>6, <1>14, <2>4
  <2> QED BY <1>14, <2>1, <2>2, <2>3, <2>4
<1>17. max_inventory - 1 \in Int /\ max_inventory - 1 + quote_size \in Int /\ PositionLimit \in Int
  BY MakerAssumption DEF PositionLimit
<1>18. \A x \in Sides : Within(x, PositionLimit)'
  BY <1>16, <1>17 DEF InventoryInv
<1>19. ASSUME NEW m \in pending' PROVE MessageBound(m)'
  <2>1. MessageBound(m) /\ m.side \in Sides
    BY DEF InventoryInv, MakerInv, Message
  <2>2. m.op = "new" => /\ Quotes(m.side)' = {} /\ ~Matched(m.side)'
                        /\ Within(m.side, max_inventory - 1)'
    BY <1>15, <1>16, <1>17, <2>1 DEF MessageBound
  <2>3. m.op = "replace" => Within(m.side, max_inventory - 1 + quote_size)'
    BY <1>16, <1>17, <2>1 DEF MessageBound
  <2>4. m.op = "cancel" => /\ maker'.resting_id[m.side] = NoId
                           /\ \A x \in Sides : m.id \in Quotes(x)' => x = m.side
    BY <1>15, <2>1 DEF MessageBound
  <2> QED BY <2>1, <2>2, <2>3, <2>4, ZenonT(30) DEF MessageBound
<1>20. ASSUME NEW k \in Resting(book')
       PROVE  /\ k \in MakerIds => book'.order_index[k].order.client = Maker
              /\ book'.order_index[k].order.client = Maker =>
                   book'.order_index[k].order.remaining <= quote_size
  <2>1. k \in Resting(book) /\ left(k) \in Int /\ left(k)' \in Int /\ left(k)' <= left(k)
    BY <1>6, <1>9
  <2>2. book'.order_index[k].order.client = book.order_index[k].order.client
    BY <1>9 DEF SameQuote
  <2>3. /\ k \in MakerIds => book.order_index[k].order.client = Maker
        /\ book.order_index[k].order.client = Maker => left(k) <= quote_size
    BY <2>1, ZenonT(30) DEF InventoryInv, left
  <2>4. book'.order_index[k].order.client = Maker => left(k)' <= quote_size
    BY <2>1, <2>2, <2>3, MakerAssumption
  <2> QED BY <2>2, <2>3, <2>4, Zenon DEF left
<1>21. /\ aggressor'.id \in MakerIds => aggressor'.client = Maker
       /\ aggressor'.client = Maker =>
            aggressor'.remaining <= quote_size /\ aggressor'.id \notin Resting(book')
  <2>1. /\ aggressor.id \in MakerIds => aggressor.client = Maker
        /\ aggressor.client = Maker =>
             aggressor.remaining <= quote_size /\ aggressor.id \notin Resting(book)
    BY <1>2, ZenonT(30) DEF InventoryInv
  <2>2. Resting(book') \subseteq Resting(book)
    BY <1>9
  <2> QED BY <1>3, <1>6, <1>8, <2>1, <2>2, MakerAssumption
<1>22. inventory' \in Int
  <2>1. Held("Buy")' \in Int
    BY <1>14 DEF Sides
  <2> QED BY <2>1 DEF Held
<1>23. \A m, n \in pending' : m.side = n.side => m = n
  BY DEF InventoryInv
<1> QED
  BY <1>13, <1>18, <1>19, <1>20, <1>21, <1>22, <1>23, Zenon DEF InventoryInv

-----------------------------------------------------------------------------
(* The maker.                                                              *)

\* What the messages r.messages for side s say, when m is the maker before
\* and r.maker the maker after it dealt with that side.
AsksFor(m, s, inv, r) ==
  /\ DOMAIN r.maker.resting_id = Sides
  /\ \A x \in Sides \ {s} : r.maker.resting_id[x] = m.resting_id[x]
  /\ \A x, y \in r.messages : x = y
  /\ \A x \in r.messages :
       /\ x.side = s
       /\ x.op # "cancel" => allowed(s, inv) /\ x.quantity = quote_size
       /\ x.op = "new" => m.resting_id[s] = NoId
       /\ x.op = "cancel" => r.maker.resting_id[s] = NoId /\ x.id = m.resting_id[s]

\* Inventory allows what quote asks for, other than a cancel.
LEMMA QuoteAsks ==
  ASSUME NEW m, DOMAIN m.resting_id = Sides, NEW s \in Sides, NEW p, NEW inv
  PROVE  AsksFor(m, s, inv, quote(m, s, p, inv))
<1> DEFINE r == quote(m, s, p, inv)
           id == m.resting_id[s]
           n == m.next_order_id
           Tracks(k) == /\ DOMAIN r.maker.resting_id = Sides /\ r.maker.resting_id[s] = k
                        /\ \A x \in Sides \ {s} : r.maker.resting_id[x] = m.resting_id[x]
<1>1. ASSUME NEW k, NEW v, NEW w, r.maker = Holding(m, s, k, v, w)
      PROVE  Tracks(k)
  <2> HIDE DEF r
  <2>1. r.maker.resting_id = [m.resting_id EXCEPT ![s] = k]
    BY <1>1 DEF Holding
  <2> QED BY <2>1
<1>2. CASE ~allowed(s, inv)
  <2>1. r.maker = Holding(m, s, NoId, m.last_quoted[s], n) /\ r.messages = pull(m, s)
    BY <1>2, ZenonT(30) DEF quote
  <2>2. Tracks(NoId)
    BY <1>1, <2>1, Zenon
  <2> HIDE DEF r
  <2>3. \A x \in r.messages : x = make_cancel(id, s)
    BY <2>1 DEF pull
  <2>4. \A x \in r.messages : x.side = s /\ x.op = "cancel" /\ x.id = id
    BY <2>3 DEF make_cancel
  <2>5. AsksFor(m, s, inv, r)
    BY <2>2, <2>3, <2>4 DEF AsksFor
  <2> QED BY <2>5 DEF r
<1>3. CASE allowed(s, inv) /\ id = NoId
  <2>1. r.maker = Holding(m, s, n, p, n + 1) /\ r.messages = {make_new_order(n, s, p)}
    BY <1>3, ZenonT(30) DEF quote
  <2>2. Tracks(n)
    BY <1>1, <2>1, ZenonT(30)
  <2> HIDE DEF r
  <2>3. \A x \in r.messages : x.side = s /\ x.op = "new" /\ x.quantity = quote_size
    <3>1. LET x == make_new_order(n, s, p)
          IN  x.side = s /\ x.op = "new" /\ x.quantity = quote_size
      BY DEF make_new_order
    <3> QED BY <2>1, <3>1, ZenonT(30)
  <2>4. AsksFor(m, s, inv, r)
    BY <1>3, <2>1, <2>2, <2>3 DEF AsksFor
  <2> QED BY <2>4 DEF r
<1>4. CASE allowed(s, inv) /\ id # NoId /\ m.last_quoted[s] # p
  <2>1. r.maker = Holding(m, s, id, p, n) /\ r.messages = {make_replace(id, s, p)}
    BY <1>4, ZenonT(30) DEF quote
  <2>2. Tracks(id)
    BY <1>1, <2>1, Zenon
  <2> HIDE DEF r
  <2>3. \A x \in r.messages : x.side = s /\ x.op = "replace" /\ x.quantity = quote_size
    <3>1. LET x == make_replace(id, s, p)
          IN  x.side = s /\ x.op = "replace" /\ x.quantity = quote_size
      BY DEF make_replace
    <3> QED BY <2>1, <3>1, ZenonT(30)
  <2>4. AsksFor(m, s, inv, r)
    BY <1>4, <2>1, <2>2, <2>3, ZenonT(30) DEF AsksFor
  <2> QED BY <2>4 DEF r
<1>5. CASE allowed(s, inv) /\ id # NoId /\ m.last_quoted[s] = p
  <2>1. r.maker = m /\ r.messages = {}
    BY <1>5, ZenonT(30) DEF quote
  <2> QED BY <2>1 DEF AsksFor
<1> QED BY <1>2, <1>3, <1>4, <1>5

\* A step between calls that leaves the market alone keeps the invariant, if
\* what it asks for is within the bounds.
LEMMA MarketAlone ==
  ASSUME MakerInv, InventoryInv, UNCHANGED vars, inventory' = inventory, pc = "idle",
         \A m \in pending' :
           /\ m.op # "cancel" => m.quantity = quote_size
           /\ m.op = "new" => Quotes(m.side) = {} /\ Within(m.side, max_inventory - 1)
           /\ m.op = "replace" => Within(m.side, max_inventory - 1 + quote_size)
           /\ m.op = "cancel" => /\ maker'.resting_id[m.side] = NoId
                                 /\ \A s \in Sides : m.id \in Quotes(s) => s = m.side,
         \A m, n \in pending' : m.side = n.side => m = n
  PROVE  InventoryInv'
<1>1. pc' = pc /\ book' = book /\ aggressor' = aggressor
  BY DEF vars, callVars
<1>2. ASSUME NEW s
      PROVE  /\ Quotes(s)' = Quotes(s) /\ ~Matched(s)' /\ Held(s)' = Held(s)
             /\ ~Matched(s)
  BY <1>1 DEF Quotes, Matched, Held
<1>3. ASSUME NEW s, NEW n, Within(s, n) PROVE Within(s, n)'
  BY <1>1, <1>2, <1>3, Zenon DEF Within
<1>4. \A m \in pending' : MessageBound(m)'
  BY <1>2, <1>3, ZenonT(30) DEF MessageBound
<1>5. \A s \in Sides : Within(s, PositionLimit)'
  BY <1>3, Zenon DEF InventoryInv, PositionLimit
<1> QED BY <1>1, <1>4, <1>5, ZenonT(30) DEF InventoryInv

\* on_tick asks for no more than inventory allows on each side.
LEMMA TickKeepsBound ==
  ASSUME MakerInv, InventoryInv, Tick
  PROVE  InventoryInv'
<1> DEFINE mid == compute_mid(best_index(book, "Buy"), best_index(book, "Sell"))
           b == quote(maker, "Buy", target("Buy", mid), inventory)
           c == b.maker
           a == quote(c, "Sell", target("Sell", mid), inventory)
<1>1. /\ maker \in MakerState /\ IdsFresh(maker) /\ RestingTracked
      /\ inventory \in Int
  BY DEF MakerInv, InventoryInv
<1>2. /\ pc = "idle" /\ pending = {} /\ UNCHANGED vars /\ inventory' = inventory
      /\ maker' = a.maker /\ pending' = b.messages \cup a.messages
  BY Zenon DEF Tick, on_tick
<1>3. Sides = {"Buy", "Sell"} /\ DOMAIN maker.resting_id = Sides
  BY <1>1 DEF Sides, MakerState
<1> HIDE DEF mid
<1>4. AsksFor(maker, "Buy", inventory, b)
  BY <1>3, QuoteAsks
<1> HIDE DEF b
<1>5. DOMAIN c.resting_id = Sides /\ c.resting_id["Sell"] = maker.resting_id["Sell"]
  BY <1>3, <1>4 DEF AsksFor
<1> HIDE DEF c
<1>6. AsksFor(c, "Sell", inventory, a)
  BY <1>3, <1>5, QuoteAsks
<1> HIDE DEF a
<1>7. maker'.resting_id["Buy"] = c.resting_id["Buy"]
  BY <1>2, <1>3, <1>6 DEF AsksFor
<1>8. ASSUME NEW m \in pending'
      PROVE  /\ m.side \in Sides
             /\ m.op # "cancel" => allowed(m.side, inventory) /\ m.quantity = quote_size
             /\ m.op = "new" => maker.resting_id[m.side] = NoId
             /\ m.op = "cancel" => /\ maker'.resting_id[m.side] = NoId
                                   /\ m.id = maker.resting_id[m.side]
  <2>1. CASE m \in b.messages
    BY <1>3, <1>4, <1>7, <2>1 DEF AsksFor, c
  <2>2. CASE m \in a.messages
    BY <1>2, <1>3, <1>5, <1>6, <2>2 DEF AsksFor
  <2> QED BY <1>2, <2>1, <2>2
<1>9. \A m, n \in pending' : m.side = n.side => m = n
  BY <1>2, <1>4, <1>6 DEF AsksFor
<1>10. ASSUME NEW s \in Sides, allowed(s, inventory)
       PROVE  /\ Held(s) \in Int /\ Held(s) <= max_inventory - 1 /\ ~Matched(s)
              /\ maker.resting_id[s] = NoId => Quotes(s) = {}
  <2>1. Held(s) \in Int /\ Held(s) <= max_inventory - 1
    BY <1>1, <1>3, <1>10, MakerAssumption DEF Held, allowed
  <2> QED BY <1>2, <2>1, OneQuote DEF Matched
<1>11. ASSUME NEW m \in pending', m.op = "new"
       PROVE  Quotes(m.side) = {} /\ Within(m.side, max_inventory - 1)
  BY <1>8, <1>10, <1>11 DEF Within
<1>12. ASSUME NEW m \in pending', m.op = "replace"
       PROVE  Within(m.side, max_inventory - 1 + quote_size)
  <2> DEFINE s == m.side
  <2>1. s \in Sides /\ Held(s) \in Int /\ Held(s) <= max_inventory - 1 /\ ~Matched(s)
    BY <1>8, <1>10, <1>12
  <2> HIDE DEF s
  <2>2. ASSUME NEW id \in Quotes(s)
        PROVE  Held(s) + book.order_index[id].order.remaining <= max_inventory - 1 + quote_size
    <3>1. /\ book.order_index[id].order.remaining \in Int
          /\ book.order_index[id].order.remaining <= quote_size
      BY RestingOrder, ZenonT(30) DEF Quotes, InventoryInv, MakerInv, EngineInv
    <3> QED BY <2>1, <3>1, MakerAssumption
  <2>3. Held(s) <= max_inventory - 1 + quote_size
    BY <2>1, MakerAssumption
  <2> QED BY <2>1, <2>2, <2>3 DEF Within, s
<1>13. ASSUME NEW m \in pending', m.op = "cancel", NEW x \in Sides, m.id \in Quotes(x)
       PROVE  x = m.side
  <2>1. /\ m.id \in MakerIds /\ maker.resting_id[x] = m.id
    BY <1>1, <1>2, <1>13 DEF Quotes, RestingTracked
  <2>2. m.side \in Sides /\ maker.resting_id[m.side] = maker.resting_id[x]
    BY <1>8, <1>13, <2>1
  <2> QED BY <1>1, <1>3, <2>1, <2>2, MakerIdsType DEF IdsFresh
<1> QED BY <1>2, <1>8, <1>9, <1>11, <1>12, <1>13, MarketAlone, ZenonT(30)

\* Every step keeps the invariant of the position.
LEMMA InventoryStep ==
  ASSUME MakerInv, MakerInv', InventoryInv, [MakerNext]_makerVars
  PROVE  InventoryInv'
<1>1. CASE Tick
  BY <1>1, TickKeepsBound
<1>2. ASSUME NEW m \in pending, Send(m) PROVE InventoryInv'
  <2>1. /\ maker' = maker /\ inventory' = inventory /\ pending' = pending \ {m}
        /\ m.id \in OrderIds
    BY <1>2, MakerAssumption DEF Send, MakerInv, Message, MakerIds
  <2>2. CASE m.op = "cancel" /\ Cancel(m.id)
    <3> DEFINE id == m.id
    <3>1. id \in OrderIds /\ Cancel(id) /\ pending' \subseteq pending
      BY <2>1, <2>2
    <3> HIDE DEF id
    <3> QED BY <2>1, <3>1, CancelIsQuiet
  <2> QED BY <1>2, <2>1, <2>2, NewQuote, ReplacedQuote DEF Send
<1>3. ASSUME NEW id \in MakerIds, NotifyGone(id) PROVE InventoryInv'
  <2>1. /\ pc = "idle" /\ pending' = {} /\ UNCHANGED vars /\ inventory' = inventory
    BY <1>3 DEF NotifyGone
  <2> QED BY <2>1, MarketAlone
<1>4. CASE Trade
  <2>1. maker' = maker /\ pending' = pending
    BY <1>4 DEF Trade
  <2>2. ASSUME NEW id \in Resting(book), Cancel(id), inventory' = inventory
        PROVE  InventoryInv'
    <3>1. id \in OrderIds
      BY RestingOrder, ZenonT(30) DEF MakerInv, EngineInv
    <3> QED BY <2>1, <2>2, <3>1, CancelIsQuiet
  <2>3. CASE FinishSubmit /\ inventory' = inventory
    BY <2>1, <2>3, FinishIsQuiet
  <2>4. CASE MatchOne /\ inventory' = inventory + PositionChange(fills'[Len(fills')])
    BY <2>1, <2>4, FillKeepsBound
  <2>5. ASSUME NEW t \in NewOrders, Submit(t), inventory' = inventory
        PROVE  InventoryInv'
    BY <2>1, <2>5, OthersSubmit
  <2> QED BY <1>4, <2>2, <2>3, <2>4, <2>5 DEF Trade
<1>5. CASE UNCHANGED makerVars
  <2>1. /\ pc' = pc /\ book' = book /\ aggressor' = aggressor
        /\ maker' = maker /\ inventory' = inventory /\ pending' = pending
    BY <1>5 DEF makerVars, vars, callVars
  <2>2. ASSUME NEW s
        PROVE  /\ Quotes(s)' = Quotes(s) /\ Held(s)' = Held(s)
               /\ Matched(s)' <=> Matched(s)
    BY <2>1 DEF Quotes, Matched, Held
  <2>3. ASSUME NEW s, NEW n, Within(s, n) PROVE Within(s, n)'
    BY <2>1, <2>2, <2>3, Zenon DEF Within
  <2>4. ASSUME NEW m \in pending PROVE MessageBound(m)'
    <3>1. MessageBound(m)
      BY DEF InventoryInv
    <3>2. m.op = "new" => /\ Quotes(m.side)' = {} /\ ~Matched(m.side)'
                          /\ Within(m.side, max_inventory - 1)'
      BY <2>2, <2>3, <3>1, ZenonT(30) DEF MessageBound
    <3>3. m.op = "replace" => Within(m.side, max_inventory - 1 + quote_size)'
      BY <2>3, <3>1, Zenon DEF MessageBound
    <3>4. m.op = "cancel" => /\ maker'.resting_id[m.side] = NoId
                             /\ \A s \in Sides : m.id \in Quotes(s)' => s = m.side
      BY <2>1, <2>2, <3>1 DEF MessageBound
    <3> QED BY <3>1, <3>2, <3>3, <3>4, Zenon DEF MessageBound
  <2>5. \A s \in Sides : Within(s, PositionLimit)'
    BY <2>3, Zenon DEF InventoryInv, PositionLimit
  <2> QED BY <2>1, <2>4, <2>5, Zenon DEF InventoryInv
<1> QED BY <1>1, <1>2, <1>3, <1>4, <1>5 DEF MakerNext

-----------------------------------------------------------------------------
(* The theorem.                                                            *)

\* The position of the maker stays within max_inventory and less than two
\* quotes more, for every max_inventory and quote_size (on_tick with the
\* fills that reach the maker between its ticks).
THEOREM InventoryStaysBounded == MakerSpec => []InventoryBounded
<1>1. MakerInit => InventoryInv
  <2> SUFFICES ASSUME MakerInit PROVE InventoryInv
    OBVIOUS
  <2>1. book = EmptyBook /\ pc = "idle" /\ inventory = 0 /\ pending = {}
    BY DEF MakerInit, Init
  <2>2. Resting(book) = {}
    BY <2>1, EmptyBookSound
  <2>3. ASSUME NEW s \in Sides PROVE Within(s, PositionLimit)
    <3>1. 0 <= PositionLimit
      BY MakerAssumption DEF PositionLimit
    <3> QED BY <2>1, <2>2, <3>1 DEF Within, Held, Quotes, Matched
  <2>4. /\ \A m \in pending : MessageBound(m)
        /\ \A m, n \in pending : m.side = n.side => m = n
    BY <2>1, ZenonT(30)
  <2>5. pc # "match" /\ inventory \in Int
    BY <2>1
  <2> QED BY <2>2, <2>3, <2>4, <2>5, ZenonT(30) DEF InventoryInv
<1>2. InventoryInv => InventoryBounded
  <2> SUFFICES ASSUME InventoryInv PROVE InventoryBounded
    OBVIOUS
  <2>1. inventory \in Int /\ inventory <= PositionLimit /\ 0 - inventory <= PositionLimit
    BY DEF InventoryInv, Within, Held, Sides
  <2> QED BY <2>1, MakerAssumption DEF InventoryBounded, PositionLimit
<1>3. MakerInv /\ MakerInv' /\ InventoryInv /\ [MakerNext]_makerVars => InventoryInv'
  BY InventoryStep
<1> QED BY <1>1, <1>2, <1>3, MakerInvariant, PTL DEF MakerSpec
=============================================================================
