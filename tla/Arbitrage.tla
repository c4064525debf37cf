------------------------------ MODULE Arbitrage ------------------------------
(***************************************************************************)
(* The arbitrage strategy (strategy/arbitrage.hpp) between two venues,     *)
(* each a matching engine: that of MatchingEngine trades symbol_a, a       *)
(* second one, B, trades symbol_b.  One thread drives both, with one       *)
(* sequencer.  Between check and each of the two legs that it asks for,    *)
(* others may trade on either venue.                                       *)
(***************************************************************************)
EXTENDS MatchingEngine, SequencesExt

CONSTANTS symbol_b,
          VenueOrders,            \* what others ask for, on either venue
          Arbitrageur,            \* client id of the strategy
          FirstLegId,
          LastLegId,              \* bound: order ids it may use
          clip_size, min_edge_ticks

ASSUME ArbitrageAssumption ==
  /\ symbol_b \in Symbols \ {Symbol}
  /\ VenueOrders \subseteq Terms
  /\ Arbitrageur \in Clients
  /\ FirstLegId \in Nat /\ LastLegId \in Nat
  /\ FirstLegId .. LastLegId \subseteq OrderIds
  /\ clip_size \in Nat \ {0} /\ min_edge_ticks \in Nat \ {0}
  /\ \A t \in VenueOrders : t.client # Arbitrageur /\ t.id \notin FirstLegId .. LastLegId

VARIABLES
  book_b, next_match_id_b, pc_b, op_b, aggressor_b, fills_b, result_b,  \* of B
  next_leg_id,  \* next_order_id_
  action,       \* the legs that check asked for last
  legs,         \* those of them not submitted yet
  account       \* what they bought, sold, paid and received

B == INSTANCE MatchingEngine WITH
       Symbol <- symbol_b, book <- book_b, next_match_id <- next_match_id_b,
       pc <- pc_b, op <- op_b, aggressor <- aggressor_b, fills <- fills_b,
       result <- result_b

\* Of either venue, without the sequencer.
venueVars == <<book, next_match_id, callVars>>
venueVarsB == <<book_b, next_match_id_b, pc_b, op_b, aggressor_b, fills_b, result_b>>

strategyVars == <<next_leg_id, action, legs, account>>
arbitrageVars == <<venueVars, venueVarsB, next_sequence, strategyVars>>

NoAction == [edge_ticks |-> 0]

NothingTraded == [bought |-> 0, sold |-> 0, paid |-> 0, received |-> 0]

ArbitrageInit ==
  /\ Init
  /\ B!Init
  /\ next_leg_id = FirstLegId
  /\ action = NoAction
  /\ legs = {}
  /\ account = NothingTraded

-----------------------------------------------------------------------------
(* check.                                                                  *)

\* A defect in which the rest of a leg that is not filled stays in the book.
make_leg_resting(id, symbol, side, i) ==
  [id |-> id, client |-> Arbitrageur, symbol |-> symbol, side |-> side,
   type |-> "Limit", tif |-> "Day", price |-> price_at(i), quantity |-> clip_size]

\* A leg at the price of ladder index i.
make_leg(id, symbol, side, i) ==
  [id |-> id, client |-> Arbitrageur, symbol |-> symbol, side |-> side,
   type |-> "Limit", tif |-> "IOC", price |-> price_at(i), quantity |-> clip_size]

make_action(buy_symbol, buy, sell_symbol, sell) ==
  [buy_leg |-> make_leg(next_leg_id, buy_symbol, "Buy", buy),
   sell_leg |-> make_leg(next_leg_id + 1, sell_symbol, "Sell", sell),
   edge_ticks |-> sell - buy]

\* Whether selling into the bid pays enough over buying at the ask.
HasEdge(bid, ask) == bid # NoIndex /\ ask # NoIndex /\ bid - ask >= min_edge_ticks

check(a_bid, a_ask, b_bid, b_ask) ==
  IF HasEdge(b_bid, a_ask) THEN make_action(Symbol, a_ask, symbol_b, b_bid)
  ELSE IF HasEdge(a_bid, b_ask) THEN make_action(symbol_b, b_ask, Symbol, a_bid)
  ELSE NoAction

-----------------------------------------------------------------------------
BothIdle == pc = "idle" /\ pc_b = "idle"

Check ==
  LET found == check(best_index(book, "Buy"), best_index(book, "Sell"),
                     best_index(book_b, "Buy"), best_index(book_b, "Sell"))
  IN  /\ BothIdle
      /\ legs = {}
      /\ next_leg_id + 1 <= LastLegId
      /\ found # NoAction
      /\ action' = found
      /\ legs' = {found.buy_leg, found.sell_leg}
      /\ next_leg_id' = next_leg_id + 2
      /\ account' = NothingTraded
      /\ UNCHANGED <<venueVars, venueVarsB, next_sequence>>

SendLeg(leg) ==
  /\ BothIdle
  /\ \/ leg.symbol = Symbol /\ Submit(leg) /\ UNCHANGED venueVarsB
     \/ leg.symbol = symbol_b /\ B!Submit(leg) /\ UNCHANGED venueVars
  /\ legs' = legs \ {leg}
  /\ UNCHANGED <<next_leg_id, action, account>>

\* The account after fill f.
Booked(f) ==
  IF f.aggressor_client_id # Arbitrageur THEN account
  ELSE IF f.aggressor_side = "Buy"
  THEN [account EXCEPT !.bought = @ + f.quantity, !.paid = @ + f.quantity * f.price]
  ELSE [account EXCEPT !.sold = @ + f.quantity, !.received = @ + f.quantity * f.price]

\* Calls of others, and the rest of any call.
TradeOnA ==
  /\ pc_b = "idle"
  /\ \/ \E t \in VenueOrders : Submit(t) /\ UNCHANGED account
     \/ \E id \in Resting(book) : Cancel(id) /\ UNCHANGED account
     \/ MatchOne /\ account' = Booked(Last(fills'))
     \/ FinishSubmit /\ UNCHANGED account
  /\ UNCHANGED <<venueVarsB, next_leg_id, action, legs>>

TradeOnB ==
  /\ pc = "idle"
  /\ \/ \E t \in VenueOrders : B!Submit([t EXCEPT !.symbol = symbol_b]) /\ UNCHANGED account
     \/ \E id \in Resting(book_b) : B!Cancel(id) /\ UNCHANGED account
     \/ B!MatchOne /\ account' = Booked(Last(fills_b'))
     \/ B!FinishSubmit /\ UNCHANGED account
  /\ UNCHANGED <<venueVars, next_leg_id, action, legs>>

ArbitrageNext ==
  \/ Check
  \/ \E leg \in legs : SendLeg(leg)
  \/ TradeOnA
  \/ TradeOnB

ArbitrageSpec == ArbitrageInit /\ [][ArbitrageNext]_arbitrageVars

-----------------------------------------------------------------------------
RestsFor(b, client) == \E id \in Resting(b) : b.order_index[id].order.client = client

\* However the venues move between check and the legs, the strategy buys at
\* the ask it saw or below, sells at the bid it saw or above, no more than
\* clip_size of each, and leaves nothing behind in a book: what it bought and
\* sold again earned the edge, and only the difference is at risk.
LegsKeepEdge ==
  /\ ~RestsFor(book, Arbitrageur) /\ ~RestsFor(book_b, Arbitrageur)
  /\ action # NoAction =>
       /\ account.bought <= clip_size /\ account.sold <= clip_size
       /\ account.paid <= account.bought * action.buy_leg.price
       /\ account.received >= account.sold * action.sell_leg.price
       /\ account.bought = account.sold =>
            account.received - account.paid >= account.sold * min_edge_ticks
=============================================================================
