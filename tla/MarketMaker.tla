----------------------------- MODULE MarketMaker -----------------------------
(***************************************************************************)
(* The market maker (strategy/market_maker.hpp) in the market it quotes    *)
(* into: the matching engine, which it shares with everybody else.         *)
(*                                                                         *)
(* on_tick hands its caller messages; the caller submits them one by one,  *)
(* in either order, and orders of others may be sequenced before each.     *)
(* The caller ticks again once it has submitted all of them, and tells the *)
(* maker of an order that no longer rests.  Fills move the position that   *)
(* RiskEngine keeps for the maker, its inventory.                          *)
(***************************************************************************)
EXTENDS MatchingEngine

CONSTANTS Maker,                    \* its client id
          FirstOrderId,
          LastOrderId,              \* bound: order ids it may use
          half_spread_ticks, quote_size, max_inventory,
          initial_reference_price   \* MarketMakerConfig

ASSUME MakerAssumption ==
  /\ Maker \in Clients
  /\ FirstOrderId \in Nat /\ LastOrderId \in Nat
  /\ FirstOrderId .. LastOrderId \subseteq OrderIds
  /\ half_spread_ticks \in Nat \ {0}
  /\ quote_size \in Nat \ {0}
  /\ max_inventory \in Nat
  /\ initial_reference_price \in Int
  /\ \A t \in NewOrders : t.client # Maker /\ t.id \notin FirstOrderId .. LastOrderId

VARIABLES maker,       \* the MarketMaker object
          inventory,   \* position of the maker
          pending      \* messages of the last tick not submitted yet

makerVars == <<vars, maker, inventory, pending>>

MakerIds == FirstOrderId .. LastOrderId

NoId == 0 - 1

MakerState == [resting_id : [Sides -> MakerIds \cup {NoId}],
               last_quoted : [Sides -> Int],
               next_order_id : Nat]

MakerInit ==
  /\ Init
  /\ maker = [resting_id |-> [s \in Sides |-> NoId],
              last_quoted |-> [s \in Sides |-> 0],
              next_order_id |-> FirstOrderId]
  /\ inventory = 0
  /\ pending = {}

-----------------------------------------------------------------------------
(* on_tick.                                                                *)

\* Division of C++, which truncates.
Half(n) == IF n >= 0 THEN n \div 2 ELSE 0 - ((0 - n) \div 2)

\* From the indices of the best bid and the best ask.
compute_mid(bid, ask) ==
  IF bid # NoIndex /\ ask # NoIndex THEN Half(price_at(bid) + price_at(ask))
  ELSE IF bid # NoIndex THEN price_at(bid) + half_spread_ticks
  ELSE IF ask # NoIndex THEN price_at(ask) - half_spread_ticks
  ELSE initial_reference_price

\* A defect in which both targets lie below the mid.
target_below(s, mid) == mid - half_spread_ticks

target(s, mid) ==
  IF s = "Buy" THEN mid - half_spread_ticks ELSE mid + half_spread_ticks

\* A defect in which the test of the ask serves both sides.
allowed_short_test(s, inv) == inv > 0 - max_inventory

allowed(s, inv) ==
  IF s = "Buy" THEN inv < max_inventory ELSE inv > 0 - max_inventory

make_new_order(id, s, p) ==
  [op |-> "new", id |-> id, side |-> s, price |-> p, quantity |-> quote_size]

make_replace(id, s, p) ==
  [op |-> "replace", id |-> id, side |-> s, price |-> p, quantity |-> quote_size]

make_cancel(id, s) ==
  [op |-> "cancel", id |-> id, side |-> s, price |-> 0, quantity |-> 0]

\* A defect in which the maker forgets the quote instead of pulling it.
pull_untracked(m, s) == {}

\* What is sent when inventory keeps the maker from quoting side s.
pull(m, s) ==
  IF m.resting_id[s] = NoId THEN {} ELSE {make_cancel(m.resting_id[s], s)}

\* The maker m with another id, quoted price and next id for side s.
Holding(m, s, id, p, next) ==
  [resting_id |-> [m.resting_id EXCEPT ![s] = id],
   last_quoted |-> [m.last_quoted EXCEPT ![s] = p],
   next_order_id |-> next]

\* The maker m once it dealt with side s, and the message for that side.
quote(m, s, p, inv) ==
  LET id == m.resting_id[s]
      next == m.next_order_id
  IN  IF ~allowed(s, inv)
      THEN [maker |-> Holding(m, s, NoId, m.last_quoted[s], next), messages |-> pull(m, s)]
      ELSE IF id = NoId
      THEN [maker |-> Holding(m, s, next, p, next + 1),
            messages |-> {make_new_order(next, s, p)}]
      ELSE IF m.last_quoted[s] # p
      THEN [maker |-> Holding(m, s, id, p, next), messages |-> {make_replace(id, s, p)}]
      ELSE [maker |-> m, messages |-> {}]

on_tick(m, bid, ask, inv) ==
  LET mid == compute_mid(bid, ask)
      b == quote(m, "Buy", target("Buy", mid), inv)
      a == quote(b.maker, "Sell", target("Sell", mid), inv)
  IN  [maker |-> a.maker, messages |-> b.messages \cup a.messages]

notify_order_gone(m, id) ==
  [resting_id |-> [s \in Sides |-> IF m.resting_id[s] = id THEN NoId ELSE m.resting_id[s]],
   last_quoted |-> m.last_quoted,
   next_order_id |-> m.next_order_id]

-----------------------------------------------------------------------------
(* The maker, its caller and the market.                                   *)

Tick ==
  LET r == on_tick(maker, best_index(book, "Buy"), best_index(book, "Sell"), inventory)
  IN  /\ pc = "idle"
      /\ pending = {}
      /\ maker.next_order_id + 1 <= LastOrderId
      /\ maker' = r.maker
      /\ pending' = r.messages
      /\ UNCHANGED <<vars, inventory>>

\* The order a NewOrder message of the maker asks for.
TermsOf(m) ==
  [id |-> m.id, client |-> Maker, symbol |-> Symbol, side |-> m.side,
   type |-> "Limit", tif |-> "Day", price |-> m.price, quantity |-> m.quantity]

Send(m) ==
  /\ \/ m.op = "new" /\ Submit(TermsOf(m))
     \/ m.op = "replace" /\ Replace(m.id, m.price, m.quantity)
     \/ m.op = "cancel" /\ Cancel(m.id)
  /\ pending' = pending \ {m}
  /\ UNCHANGED <<maker, inventory>>

\* The caller sees that the order it tracks does not rest (any more).
NotifyGone(id) ==
  /\ pc = "idle"
  /\ pending = {}
  /\ id \notin Resting(book)
  /\ \E s \in Sides : maker.resting_id[s] = id
  /\ maker' = notify_order_gone(maker, id)
  /\ UNCHANGED <<vars, inventory, pending>>

\* What a fill does to the position of the maker.
PositionChange(f) ==
  LET bought == IF f.aggressor_side = "Buy" THEN f.quantity ELSE 0 - f.quantity
  IN  (IF f.aggressor_client_id = Maker THEN bought ELSE 0)
        - (IF f.resting_client_id = Maker THEN bought ELSE 0)

\* Calls of others, and the rest of any call.
Trade ==
  /\ \/ \E t \in NewOrders : Submit(t) /\ UNCHANGED inventory
     \/ \E id \in Resting(book) \ MakerIds : Cancel(id) /\ UNCHANGED inventory
     \/ MatchOne /\ inventory' = inventory + PositionChange(fills'[Len(fills')])
     \/ FinishSubmit /\ UNCHANGED inventory
  /\ UNCHANGED <<maker, pending>>

MakerNext ==
  \/ Tick
  \/ \E m \in pending : Send(m)
  \/ \E id \in MakerIds : NotifyGone(id)
  \/ Trade

MakerSpec == MakerInit /\ [][MakerNext]_makerVars

-----------------------------------------------------------------------------
\* An order of the maker that rests is one it tracks, on the side it rests
\* on, or one it has already asked to cancel: it never loses the means to
\* replace or to pull a quote, whatever was filled, rejected or reordered
\* since (the comment in on_tick tells of a version that did).
QuotesTracked ==
  \A id \in Resting(book) :
    LET o == book.order_index[id].order
    IN  o.client = Maker =>
          \/ maker.resting_id[o.side] = id
          \/ \E m \in pending : m.op = "cancel" /\ m.id = id

\* The position overshoots max_inventory by less than two quotes: the limit
\* stops new quotes only, and while a replace is on its way the order that it
\* will fill up again may trade.  (QuotesWithinLimit is what the configuration
\* promises instead.)
InventoryBounded ==
  inventory \in 0 - (max_inventory + 2 * (quote_size - 1))
                  .. max_inventory + 2 * (quote_size - 1)

\* What the comment on max_inventory says: quoting a side stops "once
\* |position| would exceed this".  No tick asks for a quote, new or moved,
\* that would take the position past the limit if it were filled.  The code
\* compares the position before the fill, so it does.
QuotesWithinLimit ==
  [][pending = {} =>
       \A m \in pending' :
         m.op # "cancel" =>
           m.quantity + (IF m.side = "Buy" THEN inventory ELSE 0 - inventory)
             <= max_inventory]_makerVars

\* The maker never trades with itself, although its bid and its ask move one
\* after the other and the market may move in between: the mid it quotes
\* around lies between its own resting quotes.
NoSelfTrade ==
  \A k \in DOMAIN fills :
    ~(fills[k].aggressor_client_id = Maker /\ fills[k].resting_client_id = Maker)
=============================================================================
