---------------------------- MODULE ReplayEngine ----------------------------
(***************************************************************************)
(* The exchange: the driver loop of replay/replay_engine.hpp, which        *)
(* composes the matching engine, the pre-trade risk engine                 *)
(* (risk/risk_engine.hpp) and the market data feed                         *)
(* (marketdata/publisher.hpp).                                             *)
(*                                                                         *)
(* A request is handled to its end before the next one is read.  The       *)
(* handler of a new order or of a replace is a chain of steps: the entry   *)
(* (sequence number, risk check, prologue of the engine call), the steps   *)
(* of the engine, one step per turn of apply_fills, and the end (level     *)
(* updates, execution report).  stage is "busy" in between.                *)
(*                                                                         *)
(* The feed is modelled by its effect on a subscriber that applies every   *)
(* level update: mirror is the book that the subscriber has.               *)
(***************************************************************************)
EXTENDS MatchingEngine

CONSTANTS MaxOrderSize,      \* Limits::max_order_size
          MaxPosition,       \* Limits::max_position
          MaxLossPerClient   \* Limits::max_loss_per_client, a negative floor

ASSUME LimitsAssumption ==
  MaxOrderSize \in Int /\ MaxPosition \in Nat /\ MaxLossPerClient \in Int

VARIABLES
  exposure,             \* from client to its account, once it has traded
  kill_switch_engaged,
  mirror,               \* the book a subscriber of the feed has built
  stage,                \* "ready" for a request, or "busy" with one
  request,              \* what the handler under way still has to know
  applied,              \* turns of apply_fills done
  report                \* the last execution report published

driverVars == <<exposure, kill_switch_engaged, mirror, stage, request, applied, report>>
replayVars == <<vars, driverVars>>

Account == [position : Int, cash_flow : Int, last_mark_price : Int]

MirrorLevel == [aggregate_quantity : Int, order_count : Int]

ExecTypes == {"New", "PartialFill", "Fill", "Cancelled", "Replaced", "Rejected"}

NoRequest == [kind |-> "none"]

NoReport == [exec_type |-> "none"]

\* The level that a subscriber which has not heard of it assumes.
NoLevel == [aggregate_quantity |-> 0, order_count |-> 0]

ReplayInit ==
  /\ Init
  /\ exposure = << >>
  /\ kill_switch_engaged = FALSE
  /\ mirror = [s \in Sides |-> [i \in Indices |-> NoLevel]]
  /\ stage = "ready"
  /\ request = NoRequest
  /\ applied = 0
  /\ report = NoReport

-----------------------------------------------------------------------------
(* The risk engine.  Only this book's symbol ever trades, so an account is *)
(* known by its client; an order in another symbol finds no account.       *)

mark_to_market_pnl(a) == a.cash_flow + a.position * a.last_mark_price

HasAccount(o) == o.symbol = Symbol /\ o.client \in DOMAIN exposure

Prospective(o) ==
  (IF HasAccount(o) THEN exposure[o.client].position ELSE 0)
    + (IF o.side = "Buy" THEN o.quantity ELSE -o.quantity)

check_new_order(o) ==
  IF kill_switch_engaged THEN "RiskKillSwitch"
  ELSE IF o.quantity > MaxOrderSize THEN "RiskMaxOrderSize"
  ELSE IF Prospective(o) > MaxPosition \/ Prospective(o) < -MaxPosition
  THEN "RiskMaxPosition"
  ELSE IF HasAccount(o) /\ mark_to_market_pnl(exposure[o.client]) < MaxLossPerClient
  THEN "RiskMaxLoss"
  ELSE "None"

\* A defect in which a sale pays cash out like a purchase.
cash_paid_always(s, price, quantity) == -(price * quantity)

\* Buying pays cash out, selling receives it.
cash_received(s, price, quantity) ==
  IF s = "Sell" THEN price * quantity ELSE -(price * quantity)

record_fill(e, client, s, price, quantity) ==
  LET a == IF client \in DOMAIN e THEN e[client]
           ELSE [position |-> 0, cash_flow |-> 0, last_mark_price |-> 0]
      signed_qty == IF s = "Buy" THEN quantity ELSE -quantity
  IN  [c \in DOMAIN e \cup {client} |->
         IF c = client
         THEN [position |-> a.position + signed_qty,
               cash_flow |-> a.cash_flow + cash_received(s, price, quantity),
               last_mark_price |-> price]
         ELSE e[c]]

\* While the driver is between requests, an operator flips the kill switch.
FlipKillSwitch ==
  /\ stage = "ready"
  /\ kill_switch_engaged' = ~kill_switch_engaged
  /\ UNCHANGED <<vars, exposure, mirror, stage, request, applied, report>>

-----------------------------------------------------------------------------
(* The feed.                                                               *)

\* What a subscriber has after the level update for (s, price): a Delete
\* removes the level, an Update sets it to the aggregates in the message.
publish_level(m, b, s, price) ==
  LET i == index_of(price)
      lvl == b.ladder[s].levels[i]
  IN  IF i = NoIndex THEN m
      ELSE [m EXCEPT ![s][i] =
              IF lvl.order_count = 0 THEN NoLevel
              ELSE [aggregate_quantity |-> lvl.total_quantity,
                    order_count |-> lvl.order_count]]

\* The execution report for id, with the totals of the fills fs.  The client,
\* the symbol and the price it also carries are left out.
Report(id, fs, leaves, exec_type, reason) ==
  [order_id |-> id,
   match_id |-> IF fs = << >> THEN 0 ELSE fs[Len(fs)].match_id,
   last_quantity |-> SumFunction([k \in DOMAIN fs |-> fs[k].quantity]),
   leaves_quantity |-> leaves, exec_type |-> exec_type, reject_reason |-> reason]

-----------------------------------------------------------------------------
(* process_new_order, process_cancel and process_replace.                  *)

NewOrder(t) ==
  LET o == Sequenced(t, next_sequence)
      reason == check_new_order(o)
  IN  /\ stage = "ready"
      /\ next_sequence <= MaxSequence
      /\ next_sequence' = next_sequence + 1
      /\ IF reason # "None"
         THEN /\ report' = Report(o.id, << >>, o.quantity, "Rejected", reason)
              /\ UNCHANGED <<book, next_match_id, callVars, stage, request>>
         ELSE /\ BeginSubmit(book, o, "submit")
              /\ stage' = "busy"
              /\ request' = [kind |-> "new", order |-> o]
              /\ UNCHANGED report
      /\ UNCHANGED <<exposure, kill_switch_engaged, mirror, applied>>

CancelOrder(id) ==
  /\ stage = "ready"
  /\ IF id \notin Resting(book)
     THEN /\ report' = Report(id, << >>, 0, "Rejected", "UnknownOrder")
          /\ UNCHANGED <<vars, mirror>>
     ELSE LET o == book.order_index[id].order
          IN  /\ Cancel(id)
              /\ mirror' = publish_level(mirror, book', o.side, o.price)
              /\ report' = Report(id, << >>, 0, "Cancelled", "None")
  /\ UNCHANGED <<exposure, kill_switch_engaged, stage, request, applied>>

\* A replace takes a sequence number only once its order has been found; it
\* does not pass the risk engine.
ReplaceOrder(id, p, q) ==
  /\ stage = "ready"
  /\ IF id \notin Resting(book)
     THEN /\ report' = Report(id, << >>, 0, "Rejected", "UnknownOrder")
          /\ UNCHANGED <<vars, stage, request>>
     ELSE /\ Replace(id, p, q)
          /\ stage' = "busy"
          /\ request' = [kind |-> "replace", order |-> book.order_index[id].order,
                         new_price |-> p]
          /\ UNCHANGED report
  /\ UNCHANGED <<exposure, kill_switch_engaged, mirror, applied>>

EngineStep == (MatchOne \/ FinishSubmit) /\ UNCHANGED driverVars

\* process_replace returns on a rejected replace before apply_fills.
ReplaceRejected == request.kind = "replace" /\ result.reject_reason # "None"

\* One turn of apply_fills.
ApplyFill ==
  LET f == fills[applied + 1]
      resting_side == opposite(f.aggressor_side)
  IN  /\ stage = "busy"
      /\ pc = "idle"
      /\ ~ReplaceRejected
      /\ applied < Len(fills)
      /\ exposure' = record_fill(
                       record_fill(exposure, f.resting_client_id, resting_side,
                                   f.price, f.quantity),
                       f.aggressor_client_id, f.aggressor_side, f.price, f.quantity)
      /\ mirror' = publish_level(mirror, book, resting_side, f.price)
      /\ applied' = applied + 1
      /\ UNCHANGED <<vars, kill_switch_engaged, stage, request, report>>

\* A defect in which an order that did not trade is taken to rest.
ExecTypeOfNew_resting_assumed ==
  IF result.reject_reason # "None" THEN "Rejected"
  ELSE IF result.remaining_after = 0 THEN "Fill"
  ELSE IF fills # << >> THEN "PartialFill"
  ELSE "New"

ExecTypeOfNew ==
  IF result.reject_reason # "None" THEN "Rejected"
  ELSE IF result.remaining_after = 0 THEN "Fill"
  ELSE IF fills # << >> THEN "PartialFill"
  ELSE IF result.rested THEN "New"
  ELSE "Cancelled"

ExecTypeOfReplace ==
  IF result.remaining_after = 0 THEN "Fill"
  ELSE IF fills # << >> THEN "PartialFill"
  ELSE "Replaced"

\* The price at which the order of the request rests, if it does.
RestingPrice == IF request.kind = "new" THEN request.order.price ELSE request.new_price

\* A defect in which a replace publishes only the level it moved to.
OwnLevelsWithoutOld ==
  IF result.rested THEN publish_level(mirror, book, request.order.side, RestingPrice)
                   ELSE mirror

\* The level updates of the order's own side at the end of a handler: the
\* level that a replace vacated, and the one where the order now rests.
OwnLevels ==
  LET s == request.order.side
      vacated == IF request.kind = "replace" /\ ~ReplaceRejected
                 THEN publish_level(mirror, book, s, request.order.price)
                 ELSE mirror
  IN  IF result.rested THEN publish_level(vacated, book, s, RestingPrice) ELSE vacated

FinalReport ==
  LET o == request.order
  IN  IF ReplaceRejected
      THEN Report(o.id, << >>, 0, "Rejected", result.reject_reason)
      ELSE Report(o.id, fills, result.remaining_after,
                  IF request.kind = "new" THEN ExecTypeOfNew ELSE ExecTypeOfReplace,
                  result.reject_reason)

\* The fills are applied: level updates and the execution report end the
\* handler.
Complete ==
  /\ stage = "busy"
  /\ pc = "idle"
  /\ applied = Len(fills) \/ ReplaceRejected
  /\ mirror' = OwnLevels
  /\ report' = FinalReport
  /\ stage' = "ready"
  /\ request' = NoRequest
  /\ applied' = 0
  /\ UNCHANGED <<vars, exposure, kill_switch_engaged>>

ReplayNext ==
  \/ \E t \in NewOrders : NewOrder(t)
  \/ \E id \in OrderIds : CancelOrder(id)
  \/ \E id \in OrderIds, p \in Prices, q \in Quantities : ReplaceOrder(id, p, q)
  \/ EngineStep
  \/ ApplyFill
  \/ Complete
  \/ FlipKillSwitch

ReplaySpec == ReplayInit /\ [][ReplayNext]_replayVars

-----------------------------------------------------------------------------
(* What the composition guarantees.                                        *)

ReplayTypeOK ==
  /\ TypeOK
  /\ DOMAIN exposure \subseteq Clients
  /\ exposure \in [DOMAIN exposure -> Account]
  /\ kill_switch_engaged \in BOOLEAN
  /\ mirror \in [Sides -> [Indices -> MirrorLevel]]
  /\ stage \in {"ready", "busy"}
  /\ applied \in 0 .. Len(fills)
  /\ report.exec_type \in ExecTypes \cup {"none"}

\* Between requests a subscriber that applied every level update has, level
\* by level, the aggregates of the book: every handler publishes each level
\* that it changed, in its final state.
FeedMirrorsBook ==
  stage = "ready" =>
    \A s \in Sides, i \in Indices :
      LET lvl == book.ladder[s].levels[i]
      IN  /\ mirror[s][i].order_count = lvl.order_count
          /\ mirror[s][i].aggregate_quantity = lvl.total_quantity

Positions(e) == [c \in DOMAIN e |-> e[c].position]

CashFlows(e) == [c \in DOMAIN e |-> e[c].cash_flow]

\* Every fill is recorded for a buyer and for a seller: positions and cash
\* flows add up to zero over all accounts, after every turn of apply_fills.
ZeroSum ==
  /\ SumFunction(Positions(exposure)) = 0
  /\ SumFunction(CashFlows(exposure)) = 0

\* A report that says an order went to rest (New, Replaced) tells the
\* quantity that is open in the book under that id.
RestingReportIsOpen ==
  stage = "ready" /\ report.exec_type \in {"New", "Replaced"} =>
    \E id \in Resting(book) :
       /\ id = report.order_id
       /\ book.order_index[id].order.remaining = report.leaves_quantity

-----------------------------------------------------------------------------
(* Statements of the documentation that the code does not live up to.      *)

\* risk_engine.hpp: "summed cash flow (and therefore summed PnL) across every
\* account is always exactly zero".
PnLSumsToZero ==
  stage = "ready" =>
    SumFunction([c \in DOMAIN exposure |-> mark_to_market_pnl(exposure[c])]) = 0

\* architecture.md says of the three entry points of ReplayEngine: "risk
\* check *before* matching"; while the kill switch is engaged the risk check
\* rejects everything, so nothing would trade.
NoTradeWhileKilled ==
  [][kill_switch_engaged => next_match_id' = next_match_id]_replayVars
=============================================================================
