--------------------------- MODULE MatchingEngine ---------------------------
(***************************************************************************)
(* The matching engine of one symbol (matching/matching_engine.hpp) and    *)
(* the sequencer that calls it.                                            *)
(*                                                                         *)
(* submit and replace are loops, so a call is several steps: the prologue  *)
(* up to match_against_book, one step per iteration of its while loop, and *)
(* the rest of submit.  Exactly one thread calls the engine, so no other   *)
(* call runs between the steps of one; pc says whether one is under way.   *)
(* cancel, and a call that an early return ends, are a single step.        *)
(***************************************************************************)
EXTENDS OrderBook

CONSTANTS Symbol,        \* the symbol of this book
          NewOrders,     \* what a new order may ask for
          Prices,        \* new prices of a replace
          Quantities,    \* new quantities of a replace
          MaxSequence    \* bound: sequence numbers given out

ASSUME EngineAssumption ==
  /\ Symbol \in Symbols
  /\ NewOrders \subseteq Terms
  /\ Prices \subseteq Int
  /\ Quantities \subseteq Int
  /\ MaxSequence \in Nat

VARIABLES
  book,
  next_match_id,
  next_sequence,  \* of the sequencer in front of the engine
  pc,             \* "idle" between calls, "match" in match_against_book
  op,             \* the call under way, or the last one
  aggressor,      \* the incoming order of the call under way
  fills,          \* out_fills of the call under way, or of the last one
  result          \* what the last call returned

callVars == <<pc, op, aggressor, fills, result>>
vars == <<book, next_match_id, next_sequence, callVars>>

Fill == [match_id : Nat, resting_order_id : OrderIds, resting_client_id : Clients,
         aggressor_order_id : OrderIds, aggressor_client_id : Clients,
         price : Int, quantity : Int, aggressor_side : Sides,
         resting_fully_filled : BOOLEAN]

RejectReasons == {"None", "UnknownSymbol", "InvalidQuantity", "FokNotFillable",
                  "BookCapacityExceeded", "UnknownOrder", "InvalidPrice"}

Result == [reject_reason : RejectReasons, rested : BOOLEAN, remaining_after : Int]

Operations == {"none", "submit", "cancel", "replace"}

\* No call is under way.
NoOrder == [id |-> "none"]

NoResult == [reject_reason |-> "None", rested |-> FALSE, remaining_after |-> 0]

Init ==
  /\ book = EmptyBook
  /\ next_match_id = 1
  /\ next_sequence = 1
  /\ pc = "idle"
  /\ op = "none"
  /\ aggressor = NoOrder
  /\ fills = << >>
  /\ result = NoResult

-----------------------------------------------------------------------------
(* The pieces of submit.                                                   *)

\* A defect in which an order does not trade at exactly its limit.
crosses_strictly(s, p, q) == IF s = "Buy" THEN p > q ELSE p < q

\* Whether an order of side s limited to price p trades at price q.
crosses(s, p, q) == IF s = "Buy" THEN p >= q ELSE p <= q

\* A defect in which the pre-check counts liquidity beyond the limit.
liquidity_at_any_price(b, o) ==
  LET side == b.ladder[opposite(o.side)]
  IN  MapThenSumSet(LAMBDA i : side.levels[i].total_quantity, side.occupied)

\* One visit of for_each_level, on the side opposite to o.  A walk w is at the
\* index to visit next (NoIndex once it has ended) and has a sum.
visit(b, o, w) ==
  LET s == opposite(o.side)
      side == b.ladder[s]
      sum == w.total + side.levels[w.at].total_quantity
  IN  IF \/ w.at = NoIndex
         \/ o.type # "Market" /\ ~crosses(o.side, o.price, price_at(w.at))
      THEN [at |-> NoIndex, total |-> w.total]
      ELSE [at |-> IF sum < o.quantity THEN next_after(s, side.occupied, w.at)
                                       ELSE NoIndex,
            total |-> sum]

\* What o can trade at once, or as much of it as the walk had to count.
available_liquidity(b, o) ==
  LET walk[n \in 0 .. NumLevels] ==
        IF n = 0 THEN [at |-> best_index(b, opposite(o.side)), total |-> 0]
                 ELSE visit(b, o, walk[n - 1])
  IN  walk[NumLevels].total

\* Why submit returns before it matches anything, "None" when it goes on.
submit_reject(b, o) ==
  IF o.symbol # Symbol THEN "UnknownSymbol"
  ELSE IF o.quantity <= 0 THEN "InvalidQuantity"
  ELSE IF o.tif = "FOK" /\ available_liquidity(b, o) < o.quantity
  THEN "FokNotFillable"
  ELSE "None"

\* The call to submit for order o on book b, up to its loop.
BeginSubmit(b, o, from) ==
  LET reason == submit_reject(b, o)
  IN  /\ book' = b
      /\ op' = from
      /\ fills' = << >>
      /\ IF reason = "None"
         THEN /\ pc' = "match"
              /\ aggressor' = [o EXCEPT !.remaining = o.quantity]
              /\ result' = NoResult
         ELSE /\ result' = [reject_reason |-> reason, rested |-> FALSE,
                            remaining_after |-> o.quantity]
              /\ UNCHANGED <<pc, aggressor>>
      /\ UNCHANGED next_match_id

\* A defect in which the whole resting order trades.
whole_resting(o, r) == r.remaining

fill_quantity(o, r) == Min({o.remaining, r.remaining})

\* Whether the loop of match_against_book takes another turn.
Matchable ==
  LET best == best_index(book, opposite(aggressor.side))
  IN  /\ aggressor.remaining > 0
      /\ best # NoIndex
      /\ aggressor.type = "Limit" =>
           crosses(aggressor.side, aggressor.price, price_at(best))

\* One turn of the loop: the aggressor trades with the front of the best
\* level of the opposite side, at that level's price.
MatchOne ==
  LET s == opposite(aggressor.side)
      best == price_at(best_index(book, s))
      resting == front_at(book, s, best)
      fill_qty == fill_quantity(aggressor, resting)
  IN  /\ pc = "match"
      /\ Matchable
      /\ fills' = Append(fills,
                    [match_id |-> next_match_id,
                     resting_order_id |-> resting.id,
                     resting_client_id |-> resting.client,
                     aggressor_order_id |-> aggressor.id,
                     aggressor_client_id |-> aggressor.client,
                     price |-> best,
                     quantity |-> fill_qty,
                     aggressor_side |-> aggressor.side,
                     resting_fully_filled |-> fill_qty = resting.remaining])
      /\ next_match_id' = next_match_id + 1
      /\ book' = reduce_quantity(book, resting.id, fill_qty).book
      /\ aggressor' = [aggressor EXCEPT !.remaining = @ - fill_qty]
      /\ UNCHANGED <<next_sequence, pc, op, result>>

Rests(o) == o.remaining > 0 /\ o.type = "Limit" /\ o.tif = "Day"

\* The loop is over: the remainder of a Day limit order is added to the
\* book, any other remainder is dropped, and the call returns.
FinishSubmit ==
  LET added == add(book, aggressor)
  IN  /\ pc = "match"
      /\ ~Matchable
      /\ IF Rests(aggressor)
         THEN /\ book' = added.book
              /\ result' = [reject_reason |-> IF added.error = "None" THEN "None"
                                              ELSE "BookCapacityExceeded",
                            rested |-> added.error = "None",
                            remaining_after |-> aggressor.remaining]
         ELSE /\ result' = [reject_reason |-> "None", rested |-> FALSE,
                            remaining_after |-> aggressor.remaining]
              /\ UNCHANGED book
      /\ pc' = "idle"
      /\ aggressor' = NoOrder
      /\ UNCHANGED <<next_match_id, next_sequence, op, fills>>

-----------------------------------------------------------------------------
(* The calls of the engine.                                                *)

Submit(t) ==
  /\ pc = "idle"
  /\ next_sequence <= MaxSequence
  /\ next_sequence' = next_sequence + 1
  /\ BeginSubmit(book, Sequenced(t, next_sequence), "submit")

Cancel(id) ==
  LET cancelled == cancel(book, id)
  IN  /\ pc = "idle"
      /\ book' = cancelled.book
      /\ op' = "cancel"
      /\ fills' = << >>
      /\ result' = [reject_reason |-> IF cancelled.error = "None" THEN "None"
                                      ELSE "UnknownOrder",
                    rested |-> FALSE, remaining_after |-> 0]
      /\ UNCHANGED <<next_match_id, next_sequence, pc, aggressor>>

\* A defect in which the new price is left to add to check.
replace_reject_any_price(b, id, p, q) ==
  IF id \notin Resting(b) THEN "UnknownOrder"
  ELSE IF q <= 0 THEN "InvalidQuantity"
  ELSE "None"

replace_reject(b, id, p, q) ==
  IF id \notin Resting(b) THEN "UnknownOrder"
  ELSE IF q <= 0 THEN "InvalidQuantity"
  ELSE IF index_of(p) = NoIndex THEN "InvalidPrice"
  ELSE "None"

\* Cancel the order and submit it again with its new terms.
Replace(id, p, q) ==
  LET reason == replace_reject(book, id, p, q)
  IN  /\ pc = "idle"
      /\ next_sequence <= MaxSequence
      /\ next_sequence' = next_sequence + 1
      /\ IF reason = "None"
         THEN BeginSubmit(cancel(book, id).book,
                          Updated(book.order_index[id].order, p, q, next_sequence),
                          "replace")
         ELSE /\ op' = "replace"
              /\ fills' = << >>
              /\ result' = [reject_reason |-> reason, rested |-> FALSE,
                            remaining_after |-> 0]
              /\ UNCHANGED <<book, next_match_id, pc, aggressor>>

Next ==
  \/ \E t \in NewOrders : Submit(t)
  \/ \E id \in OrderIds : Cancel(id)
  \/ \E id \in OrderIds, p \in Prices, q \in Quantities : Replace(id, p, q)
  \/ MatchOne
  \/ FinishSubmit

Spec == Init /\ [][Next]_vars

-----------------------------------------------------------------------------
(* Invariants.                                                             *)

TypeOK ==
  /\ Resting(book) \subseteq OrderIds
  /\ book \in BookWith(Resting(book))
  /\ next_match_id \in Nat
  /\ next_sequence \in Nat
  /\ pc \in {"idle", "match"}
  /\ op \in Operations
  /\ aggressor \in IF pc = "match" THEN Order ELSE {NoOrder}
  /\ fills \in Seq(Fill)
  /\ result \in Result

\* Between calls the best bid is below the best ask: whatever was submitted,
\* replaced or cancelled, submit never leaves two orders resting that could
\* trade (check_book_invariants, and the contract of match_against_book).
NeverCrossed ==
  pc = "idle" =>
    \A bid, ask \in Resting(book) :
      /\ book.order_index[bid].order.side = "Buy"
      /\ book.order_index[ask].order.side = "Sell"
      => book.order_index[bid].order.price < book.order_index[ask].order.price

\* When the loop of match_against_book stops on a fill-or-kill order, the
\* order is filled: the pre-check of submit counts exactly the liquidity
\* that the loop can reach.
FokAllOrNothing ==
  pc = "match" /\ aggressor.tif = "FOK" /\ ~Matchable => aggressor.remaining = 0

\* A replace that passes its own validation is never turned down afterwards:
\* the cancelled order is back in the book or has traded, it is not lost.
ReplaceKeepsOrder ==
  op = "replace" =>
    result.reject_reason \in {"None", "UnknownOrder", "InvalidQuantity", "InvalidPrice"}

\* Queues, index, bitmaps, best prices and pool agree after every step, those
\* inside a call included.
BookStructured == Structured(book)

\* Every turn of the loop of match_against_book takes something from what
\* the aggressor has open, and never more than that: the loop terminates.
LoopMakesProgress ==
  [][pc = "match" /\ pc' = "match" =>
       aggressor'.remaining \in 0 .. aggressor.remaining - 1]_vars

-----------------------------------------------------------------------------
(* The engine implements price-time priority.                              *)

\* The prices that are on the ladder.
OnLadder(p) == index_of(p) # NoIndex

\* The orders of the book, without the queues they stand in.
Orders(b) == [id \in Resting(b) |-> b.order_index[id].order]

Market == INSTANCE PriceTimePriority WITH
            Room <- MaxOrders,
            Listed <- OnLadder,
            resting <- Orders(book),
            incoming <- aggressor,
            trades <- fills

\* Every step of the engine is a step of the abstract market: each fill is
\* with the resting order that has price-time priority, at its price.
ImplementsPriceTimePriority == Market!Spec

-----------------------------------------------------------------------------
(* A comment of the code that the code does not live up to.                *)

\* matching_engine.hpp says of the failure of add in submit: "Only reachable
\* if the book's order pool is exhausted".  Neither submit nor its caller
\* checks the price range or the id of a new order.
CapacityRejectMeansPoolFull ==
  result.reject_reason = "BookCapacityExceeded" => book.live_count = MaxOrders
=============================================================================
