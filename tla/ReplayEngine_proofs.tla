------------------------ MODULE ReplayEngine_proofs ------------------------
(***************************************************************************)
(* For every number of levels, orders and clients, and any sequence of new *)
(* orders, cancels and replaces that the driver handles: a subscriber of   *)
(* the feed has the book between requests, the accounts of the risk engine *)
(* add up to zero, and a report of a resting order tells what is open.     *)
(***************************************************************************)
EXTENDS ReplayEngine, MatchingEngine_proofs

\* A leaf is tried with the SMT solver, which gets more time than it has by
\* default, and then with Zenon.
USE SMTT(20), ZenonT(30), SMTT(21), SMTT(22)

-----------------------------------------------------------------------------
(* The inductive invariant.                                                *)

\* What the handler under way knows agrees with the call it made.  Once the
\* call is over, an order that rests is in the book with what the engine
\* returned for it, a replaced order that is not filled rests, and a replace
\* that was turned down has traded nothing.
RequestInv ==
  /\ request.kind \in {"new", "replace"}
  /\ request.order \in Order
  /\ RestingPrice \in Int
  /\ request.kind = "replace" => op = "replace"
  /\ pc = "match" =>
       /\ aggressor.id = request.order.id
       /\ aggressor.side = request.order.side
       /\ aggressor.price = RestingPrice
       /\ result = NoResult
  /\ pc = "idle" /\ result.rested =>
       /\ request.order.id \in Resting(book)
       /\ book.order_index[request.order.id].order.remaining = result.remaining_after
  /\ pc = "idle" /\ request.kind = "replace" /\ ~ReplaceRejected =>
       result.rested \/ result.remaining_after = 0
  /\ pc = "idle" /\ ReplaceRejected => fills = << >> /\ ~result.rested

\* The engine under the driver: it is called only between requests.
HandlerInv ==
  /\ EngineInv
  /\ stage \in {"ready", "busy"}
  /\ applied \in 0 .. Len(fills)
  /\ stage = "ready" => pc = "idle" /\ applied = 0
  /\ pc = "match" => applied = 0
  /\ stage = "busy" => RequestInv

\* The accounts are those of finitely many clients.
AccountsInv ==
  /\ DOMAIN exposure \subseteq Clients
  /\ IsFiniteSet(DOMAIN exposure)
  /\ exposure \in [DOMAIN exposure -> Account]
  /\ ZeroSum

\* The level i of side s is one that the handler has still to publish: that
\* of a fill not applied yet, the one a replace vacated, or the one where the
\* order went to rest.
ToPublish(s, i) ==
  /\ stage = "busy"
  /\ \/ \E k \in applied + 1 .. Len(fills) :
          s = opposite(fills[k].aggressor_side) /\ i = index_of(fills[k].price)
     \/ /\ request.kind = "replace" /\ ~ReplaceRejected
        /\ s = request.order.side /\ i = index_of(request.order.price)
     \/ /\ result.rested
        /\ s = request.order.side /\ i = index_of(RestingPrice)

\* The mirror m shows the level i of side s of the book b.
Shows(m, b, s, i) ==
  /\ m[s][i].order_count = b.ladder[s].levels[i].order_count
  /\ m[s][i].aggregate_quantity = b.ladder[s].levels[i].total_quantity

\* FeedMirrorsBook speaks of the states between requests; inside a handler
\* the subscriber has every level but those the handler has still to publish.
MirrorInv ==
  /\ mirror \in [Sides -> [Indices -> MirrorLevel]]
  /\ \A s \in Sides, i \in Indices : ~ToPublish(s, i) => Shows(mirror, book, s, i)

-----------------------------------------------------------------------------
(* The handlers and the engine.                                            *)

\* The fields of an execution report.
LEMMA ReportFields ==
  ASSUME NEW id, NEW fs, NEW leaves, NEW type, NEW reason
  PROVE  /\ Report(id, fs, leaves, type, reason).order_id = id
         /\ Report(id, fs, leaves, type, reason).leaves_quantity = leaves
         /\ Report(id, fs, leaves, type, reason).exec_type = type
  BY DEF Report

\* A number given to an order that risk turns away, or to nothing, leaves the
\* engine as it was.
LEMMA SequenceSkipped ==
  ASSUME EngineInv, pc = "idle", next_sequence' = next_sequence + 1,
         UNCHANGED <<book, next_match_id, callVars>>
  PROVE  EngineInv'
<1>1. /\ book' = book /\ next_match_id' = next_match_id /\ pc' = pc /\ op' = op
      /\ aggressor' = aggressor /\ fills' = fills /\ result' = result
  BY DEF callVars
<1>2. TypeOK'
  BY <1>1 DEF EngineInv, TypeOK
<1>3. RestsBefore(book, next_sequence')
  BY BeforeTheNext DEF EngineInv, TypeOK
<1> QED
  BY <1>1, <1>2, <1>3 DEF EngineInv, ReplaceKeepsOrder

\* A new order: the check of the risk engine, and the prologue of submit.
LEMMA NewOrderHandled ==
  ASSUME HandlerInv, NEW t \in Terms, NewOrder(t)
  PROVE  HandlerInv'
<1> DEFINE o == Sequenced(t, next_sequence)
<1>1. /\ EngineInv /\ stage = "ready" /\ pc = "idle" /\ applied = 0
      /\ applied' = 0 /\ next_sequence' = next_sequence + 1
  BY DEF HandlerInv, NewOrder
<1>2. CASE check_new_order(o) # "None"
  <2>1. UNCHANGED <<book, next_match_id, callVars, stage, request>>
    BY <1>2 DEF NewOrder
  <2>2. EngineInv'
    BY <1>1, <2>1, SequenceSkipped
  <2> QED
    BY <1>1, <2>1, <2>2 DEF HandlerInv, callVars
<1>3. CASE check_new_order(o) = "None"
  <2>1. /\ BeginSubmit(book, o, "submit") /\ stage' = "busy"
        /\ request' = [kind |-> "new", order |-> o]
    BY <1>3 DEF NewOrder
  <2>2. o \in Order /\ o.sequence = next_sequence
    BY <1>1, SequencedOrder DEF EngineInv, TypeOK
  <2> HIDE DEF o
  <2>3. EngineInv'
    BY <1>1, <2>1, <2>2, BeginSubmitKeepsInv DEF EngineInv
  <2>4. /\ fills' = << >>
        /\ \/ /\ pc' = "match" /\ aggressor' = [o EXCEPT !.remaining = o.quantity]
              /\ result' = NoResult
           \/ pc' = "idle" /\ ~result'.rested
    BY <1>1, <2>1 DEF BeginSubmit
  <2>5. /\ request'.kind = "new" /\ request'.order = o /\ RestingPrice' = o.price
        /\ o.price \in Int /\ ~ReplaceRejected'
    BY <2>1, <2>2 DEF RestingPrice, ReplaceRejected, Order
  <2>6. /\ [o EXCEPT !.remaining = o.quantity].id = o.id
        /\ [o EXCEPT !.remaining = o.quantity].side = o.side
        /\ [o EXCEPT !.remaining = o.quantity].price = o.price
    BY <2>2 DEF Order
  <2>7. RequestInv'
    BY <2>2, <2>4, <2>5, <2>6, ZenonT(30) DEF RequestInv
  <2> QED
    BY <1>1, <2>1, <2>3, <2>4, <2>7 DEF HandlerInv
<1> QED
  BY <1>2, <1>3

\* A cancel is over at once.
LEMMA CancelOrderHandled ==
  ASSUME HandlerInv, NEW id \in OrderIds, CancelOrder(id)
  PROVE  HandlerInv'
<1>1. /\ EngineInv /\ stage = "ready" /\ pc = "idle" /\ applied = 0
      /\ stage' = stage /\ applied' = 0
  BY DEF HandlerInv, CancelOrder
<1>2. CASE id \notin Resting(book)
  <2>1. UNCHANGED vars
    BY <1>2 DEF CancelOrder
  <2> QED
    BY <1>1, <2>1, EngineStutters DEF HandlerInv, vars, callVars
<1>3. CASE id \in Resting(book)
  <2>1. Cancel(id)
    BY <1>3 DEF CancelOrder
  <2>2. EngineInv' /\ fills' = << >> /\ pc' = pc
    BY <1>1, <2>1, CancelKeepsInv DEF Cancel
  <2> QED
    BY <1>1, <2>2 DEF HandlerInv
<1> QED
  BY <1>2, <1>3

\* A replace that the engine takes on is never turned down by the prologue
\* of submit, so its order is on the way when the call to cancel has been made.
LEMMA ReplaceGoesOn ==
  ASSUME EngineInv, NEW id \in Resting(book), NEW p \in Int, NEW q \in Int,
         Replace(id, p, q)
  PROVE  LET o == book.order_index[id].order
         IN  \/ /\ pc' = "match" /\ result' = NoResult /\ book' = Without(book, id)
                /\ aggressor'.id = o.id /\ aggressor'.side = o.side
                /\ aggressor'.price = p
             \/ /\ pc' = "idle" /\ result'.reject_reason # "None" /\ ~result'.rested
                /\ book' = book
<1> DEFINE o == book.order_index[id].order
           u == Updated(o, p, q, next_sequence)
<1>1. o \in Order /\ o.symbol = Symbol /\ o.tif = "Day" /\ pc = "idle"
  BY RestingOrder DEF EngineInv, RestsBefore, Replace
<1> HIDE DEF o
<1>2. /\ u.symbol = Symbol /\ u.tif = "Day" /\ u.quantity = q
      /\ [u EXCEPT !.remaining = u.quantity].id = o.id
      /\ [u EXCEPT !.remaining = u.quantity].side = o.side
      /\ [u EXCEPT !.remaining = u.quantity].price = p
  BY <1>1 DEF Updated, Order
<1>3. CASE replace_reject(book, id, p, q) = "None"
  <2>1. q > 0
    BY <1>3 DEF replace_reject
  <2>2. BeginSubmit(Without(book, id), u, "replace")
    BY <1>3 DEF Replace, cancel, o
  <2> HIDE DEF u
  <2>3. submit_reject(Without(book, id), u) = "None"
    BY <1>2, <2>1 DEF submit_reject
  <2> QED
    BY <1>2, <2>2, <2>3, ZenonT(30) DEF BeginSubmit, o
<1>4. CASE replace_reject(book, id, p, q) # "None"
  BY <1>1, <1>4 DEF Replace
<1> QED
  BY <1>3, <1>4

\* A replace: the lookup, and the prologue of the engine's replace.
LEMMA ReplaceOrderHandled ==
  ASSUME HandlerInv, NEW id \in OrderIds, NEW p \in Int, NEW q \in Int,
         ReplaceOrder(id, p, q)
  PROVE  HandlerInv'
<1>1. /\ EngineInv /\ stage = "ready" /\ pc = "idle" /\ applied = 0 /\ applied' = 0
  BY DEF HandlerInv, ReplaceOrder
<1>2. CASE id \notin Resting(book)
  <2>1. UNCHANGED vars /\ stage' = stage
    BY <1>2 DEF ReplaceOrder
  <2> QED
    BY <1>1, <2>1, EngineStutters DEF HandlerInv, vars, callVars
<1>3. CASE id \in Resting(book)
  <2> DEFINE o == book.order_index[id].order
  <2>1. /\ Replace(id, p, q) /\ stage' = "busy"
        /\ request' = [kind |-> "replace", order |-> o, new_price |-> p]
    BY <1>3 DEF ReplaceOrder
  <2>2. EngineInv'
    BY <1>1, <2>1, ReplaceKeepsInv
  <2>3. fills' = << >> /\ op' = "replace"
    BY <2>1 DEF Replace, BeginSubmit
  <2>4. o \in Order
    BY <1>1, <1>3, RestingOrder DEF EngineInv
  <2>5. \/ /\ pc' = "match" /\ result' = NoResult
           /\ aggressor'.id = o.id /\ aggressor'.side = o.side
           /\ aggressor'.price = p
        \/ pc' = "idle" /\ result'.reject_reason # "None" /\ ~result'.rested
    BY <1>1, <1>3, <2>1, ReplaceGoesOn
  <2> HIDE DEF o
  <2>6. request'.kind = "replace" /\ request'.order = o /\ RestingPrice' = p
    BY <2>1 DEF RestingPrice
  <2>7. RequestInv'
    BY <2>3, <2>4, <2>5, <2>6 DEF RequestInv, ReplaceRejected
  <2> QED
    BY <1>1, <2>1, <2>2, <2>3, <2>7 DEF HandlerInv
<1> QED
  BY <1>2, <1>3

\* A turn of the matching loop.
LEMMA MatchHandled ==
  ASSUME HandlerInv, MatchOne, UNCHANGED driverVars
  PROVE  HandlerInv'
<1>1. /\ EngineInv /\ pc = "match" /\ stage = "busy" /\ RequestInv /\ applied = 0
      /\ stage' = stage /\ request' = request /\ applied' = 0
      /\ pc' = pc /\ op' = op /\ result' = result
  BY DEF HandlerInv, MatchOne, driverVars
<1>2. EngineInv'
  BY <1>1, MatchOneStep
<1>3. Len(fills') \in Nat
  BY <1>2 DEF EngineInv, TypeOK
<1>4. /\ aggressor'.id = aggressor.id /\ aggressor'.side = aggressor.side
      /\ aggressor'.price = aggressor.price
  <2>1. aggressor \in Order
    BY <1>1 DEF EngineInv, TypeOK
  <2> QED
    BY <2>1 DEF MatchOne, Order
<1>5. RequestInv'
  BY <1>1, <1>4 DEF RequestInv, RestingPrice, ReplaceRejected
<1> QED
  BY <1>1, <1>2, <1>3, <1>5 DEF HandlerInv

\* The end of the call: the engine returns what became of the order.
LEMMA FinishHandled ==
  ASSUME HandlerInv, FinishSubmit, UNCHANGED driverVars
  PROVE  HandlerInv'
<1>1. /\ EngineInv /\ pc = "match" /\ stage = "busy" /\ RequestInv /\ applied = 0
      /\ stage' = stage /\ request' = request /\ applied' = 0
      /\ pc' = "idle" /\ op' = op /\ fills' = fills
      /\ aggressor \in Order /\ AggressorInv /\ BookInv(book)
  BY Zenon DEF HandlerInv, FinishSubmit, driverVars, EngineInv, TypeOK
<1>2. EngineInv'
  BY <1>1, FinishSubmitKeepsInv
<1>3. /\ request.kind = "replace" => op = "replace" /\ FitsBack(book, aggressor)
      /\ request.kind = "replace" =>
           result'.reject_reason # "BookCapacityExceeded"
  BY <1>1, <1>2 DEF RequestInv, AggressorInv, EngineInv, ReplaceKeepsOrder
<1>4. /\ result'.rested =>
           Rests(aggressor) /\ add_error(book, aggressor) = "None"
      /\ result'.remaining_after = aggressor.remaining
      /\ Rests(aggressor) /\ result'.reject_reason # "BookCapacityExceeded" =>
           result'.rested
      /\ result'.reject_reason \in {"None", "BookCapacityExceeded"}
  <2> DEFINE err == add_error(book, aggressor)
  <2>1. CASE Rests(aggressor)
    <3>1. result' = [reject_reason |-> IF err = "None" THEN "None"
                                       ELSE "BookCapacityExceeded",
                     rested |-> err = "None",
                     remaining_after |-> aggressor.remaining]
      BY <2>1 DEF FinishSubmit, add
    <3> HIDE DEF err
    <3>2. CASE err = "None"
      BY <2>1, <3>1, <3>2, ZenonT(30) DEF err
    <3>3. CASE err # "None"
      BY <2>1, <3>1, <3>3, Zenon
    <3> QED
      BY <3>2, <3>3
  <2>2. CASE ~Rests(aggressor)
    BY <2>2 DEF FinishSubmit
  <2> QED
    BY <2>1, <2>2
<1>5. result'.rested =>
        /\ aggressor.id \in Resting(book')
        /\ book'.order_index[aggressor.id].order = aggressor
  <2> SUFFICES ASSUME result'.rested
               PROVE  /\ aggressor.id \in Resting(book')
                      /\ book'.order_index[aggressor.id].order = aggressor
    OBVIOUS
  <2>1. book' = Rest(book, aggressor)
    BY <1>4 DEF FinishSubmit, add
  <2>2. /\ Resting(Rest(book, aggressor)) = Resting(book) \cup {aggressor.id}
        /\ Rest(book, aggressor).order_index[aggressor.id].order = aggressor
    BY <1>1, <1>4, RestSound DEF AggressorInv, RestsBefore
  <2> QED
    BY <2>1, <2>2
<1>6. request.kind = "replace" => result'.rested \/ result'.remaining_after = 0
  <2>1. aggressor.remaining \in Int /\ aggressor.remaining >= 0
    BY <1>1 DEF AggressorInv, Order
  <2> QED
    BY <1>3, <1>4, <2>1 DEF Rests, FitsBack
<1>7. ~ReplaceRejected'
  BY <1>1, <1>3, <1>4 DEF ReplaceRejected
<1>8. RequestInv'
  BY <1>1, <1>4, <1>5, <1>6, <1>7 DEF RequestInv, RestingPrice
<1> QED
  BY <1>1, <1>2, <1>8 DEF HandlerInv

\* The steps of a handler after the call leave the engine alone.
LEMMA ApplyHandled ==
  ASSUME HandlerInv, ApplyFill
  PROVE  HandlerInv'
<1>1. /\ EngineInv /\ pc = "idle" /\ stage = "busy" /\ RequestInv /\ applied < Len(fills)
      /\ stage' = stage /\ request' = request /\ applied' = applied + 1
      /\ UNCHANGED vars /\ applied \in 0 .. Len(fills) /\ Len(fills) \in Nat
  BY DEF HandlerInv, ApplyFill, EngineInv, TypeOK
<1>2. EngineInv'
  BY <1>1, EngineStutters
<1>3. RequestInv'
  BY <1>1 DEF RequestInv, RestingPrice, ReplaceRejected, vars, callVars
<1> QED
  BY <1>1, <1>2, <1>3 DEF HandlerInv, vars, callVars

\* So does the end of a handler.
LEMMA CompleteHandled ==
  ASSUME HandlerInv, Complete
  PROVE  HandlerInv'
<1>1. /\ EngineInv /\ pc = "idle" /\ stage' = "ready" /\ applied' = 0
      /\ UNCHANGED vars /\ Len(fills) \in Nat
  BY DEF HandlerInv, Complete, EngineInv, TypeOK
<1>2. EngineInv'
  BY <1>1, EngineStutters
<1> QED
  BY <1>1, <1>2 DEF HandlerInv, vars, callVars

\* What holds of the handlers in every state.
LEMMA HandlerInvariant == ReplaySpec => []HandlerInv
<1>1. ReplayInit => HandlerInv
  BY EngineStarts DEF ReplayInit, Init, HandlerInv
<1>2. HandlerInv /\ [ReplayNext]_replayVars => HandlerInv'
  <2> SUFFICES ASSUME HandlerInv, [ReplayNext]_replayVars PROVE HandlerInv'
    OBVIOUS
  <2>1. ASSUME NEW t \in NewOrders, NewOrder(t) PROVE HandlerInv'
    BY <2>1, NewOrderHandled, EngineAssumption
  <2>2. ASSUME NEW id \in OrderIds, CancelOrder(id) PROVE HandlerInv'
    BY <2>2, CancelOrderHandled
  <2>3. ASSUME NEW id \in OrderIds, NEW p \in Prices, NEW q \in Quantities,
               ReplaceOrder(id, p, q)
        PROVE  HandlerInv'
    BY <2>3, ReplaceOrderHandled, EngineAssumption
  <2>4. CASE EngineStep
    BY <2>4, MatchHandled, FinishHandled DEF EngineStep
  <2>5. CASE ApplyFill
    BY <2>5, ApplyHandled
  <2>6. CASE Complete
    BY <2>6, CompleteHandled
  <2>7. CASE FlipKillSwitch \/ UNCHANGED replayVars
    <3>1. UNCHANGED <<vars, stage, request, applied>>
      BY <2>7 DEF FlipKillSwitch, replayVars, driverVars
    <3>2. EngineInv'
      BY <3>1, EngineStutters DEF HandlerInv
    <3> QED
      BY <3>1, <3>2 DEF HandlerInv, RequestInv, RestingPrice, ReplaceRejected, vars, callVars
  <2> QED
    BY <2>1, <2>2, <2>3, <2>4, <2>5, <2>6, <2>7 DEF ReplayNext
<1> QED
  BY <1>1, <1>2, PTL DEF ReplaySpec

-----------------------------------------------------------------------------
(* The accounts.                                                           *)

\* A sum in which one value, or a new one, grows by d.
LEMMA SumMoves ==
  ASSUME NEW f, NEW g, NEW S, IsFiniteSet(S), \A x \in S : f[x] \in Int,
         NEW c, NEW d \in Int, \A x \in S \ {c} : g[x] = f[x],
         g[c] = (IF c \in S THEN f[c] ELSE 0) + d
  PROVE  SumFunctionOnSet(g, S \cup {c}) = SumFunctionOnSet(f, S) + d
<1> DEFINE rest == S \ {c}
           all == S \cup {c}
<1>1. /\ IsFiniteSet(all) /\ IsFiniteSet(rest) /\ c \in all
      /\ rest \subseteq S /\ all \ {c} = rest
  BY FS_AddElement, FS_Subset
<1>2. g[c] \in Int /\ \A x \in all : g[x] \in Int
  BY <1>1
<1>3. SumFunctionOnSet(g, all) = g[c] + SumFunctionOnSet(g, all \ {c})
  <2> HIDE DEF all
  <2> QED
    BY <1>1, <1>2, SumTakesOut
<1>4. SumFunctionOnSet(g, rest) = SumFunctionOnSet(f, rest)
  <2>1. \A x \in rest : g[x] = f[x]
    OBVIOUS
  <2> HIDE DEF rest
  <2> QED
    BY <1>1, <2>1, SumSame
<1>5. SumFunctionOnSet(f, rest) \in Int
  BY <1>1, SumInt
<1>6. SumFunctionOnSet(g, all) = g[c] + SumFunctionOnSet(f, rest)
  BY <1>1, <1>3, <1>4
<1> HIDE DEF rest, all
<1>7. CASE c \in S
  <2>1. SumFunctionOnSet(f, S) = f[c] + SumFunctionOnSet(f, rest)
    BY <1>7, SumTakesOut DEF rest
  <2>2. g[c] = f[c] + d /\ f[c] \in Int
    BY <1>7
  <2> QED
    BY <1>5, <1>6, <2>1, <2>2 DEF all
<1>8. CASE c \notin S
  <2>1. rest = S
    BY <1>8 DEF rest
  <2>2. g[c] = 0 + d
    BY <1>8
  <2> QED
    BY <1>5, <1>6, <2>1, <2>2 DEF all
<1> QED
  BY <1>7, <1>8

\* The accounts of finitely many clients.
Accounts(e) == IsFiniteSet(DOMAIN e) /\ e \in [DOMAIN e -> Account]

\* What a fill adds to a position.
signed(s, quantity) == IF s = "Buy" THEN quantity ELSE -quantity

\* The accounts n are those of e after a fill of one client.
Recorded(n, e, client, s, price, quantity) ==
  /\ DOMAIN n = DOMAIN e \cup {client}
  /\ Accounts(n)
  /\ SumFunction(Positions(n)) = SumFunction(Positions(e)) + signed(s, quantity)
  /\ SumFunction(CashFlows(n)) =
       SumFunction(CashFlows(e)) + cash_received(s, price, quantity)

\* record_fill moves the account of one client, or opens it.
LEMMA RecordFillMoves ==
  ASSUME NEW e, Accounts(e), NEW client, NEW s \in Sides, NEW price \in Int,
         NEW quantity \in Int
  PROVE  Recorded(record_fill(e, client, s, price, quantity),
                  e, client, s, price, quantity)
<1> DEFINE n == record_fill(e, client, s, price, quantity)
           had == client \in DOMAIN e
           cash == cash_received(s, price, quantity)
           add_qty == signed(s, quantity)
<1>1. cash \in Int /\ add_qty \in Int
  <2>1. price * quantity \in Int
    OBVIOUS
  <2> QED
    BY <2>1 DEF cash_received, signed
<1>2. /\ DOMAIN n = DOMAIN e \cup {client}
      /\ \A c \in DOMAIN e \ {client} : n[c] = e[c]
      /\ n[client].position = (IF had THEN e[client].position ELSE 0) + add_qty
      /\ n[client].cash_flow = (IF had THEN e[client].cash_flow ELSE 0) + cash
      /\ n[client] = [position |-> n[client].position, cash_flow |-> n[client].cash_flow,
                      last_mark_price |-> price]
      /\ n = [c \in DOMAIN n |-> n[c]]
  <2> HIDE DEF cash
  <2> QED
    BY DEF record_fill, signed, cash
<1> HIDE DEF n, cash, add_qty
<1>3. \A c \in DOMAIN e : /\ e[c] \in Account
                          /\ e[c].position \in Int /\ e[c].cash_flow \in Int
  BY DEF Accounts, Account
<1>4. n[client] \in Account
  BY <1>1, <1>2, <1>3 DEF Account
<1>5. Accounts(n)
  <2>1. IsFiniteSet(DOMAIN n)
    BY <1>2, FS_AddElement DEF Accounts
  <2>2. \A c \in DOMAIN n : n[c] \in Account
    BY <1>2, <1>3, <1>4
  <2> QED
    BY <1>2, <2>1, <2>2 DEF Accounts
<1>6. SumFunction(Positions(n)) = SumFunction(Positions(e)) + add_qty
  <2> DEFINE f == Positions(e)
             g == Positions(n)
  <2>1. /\ DOMAIN f = DOMAIN e /\ DOMAIN g = DOMAIN e \cup {client}
        /\ \A c \in DOMAIN e : f[c] \in Int
        /\ \A c \in DOMAIN e \ {client} : g[c] = f[c]
        /\ g[client] = (IF client \in DOMAIN e THEN f[client] ELSE 0) + add_qty
    BY <1>2, <1>3 DEF Positions
  <2> HIDE DEF f, g
  <2>2. SumFunctionOnSet(g, DOMAIN e \cup {client}) = SumFunctionOnSet(f, DOMAIN e) + add_qty
    BY <1>1, <2>1, SumMoves DEF Accounts
  <2> QED
    BY <2>1, <2>2 DEF SumFunction, f, g
<1>7. SumFunction(CashFlows(n)) = SumFunction(CashFlows(e)) + cash
  <2> DEFINE f == CashFlows(e)
             g == CashFlows(n)
  <2>1. /\ DOMAIN f = DOMAIN e /\ DOMAIN g = DOMAIN e \cup {client}
        /\ \A c \in DOMAIN e : f[c] \in Int
        /\ \A c \in DOMAIN e \ {client} : g[c] = f[c]
        /\ g[client] = (IF client \in DOMAIN e THEN f[client] ELSE 0) + cash
    BY <1>2, <1>3 DEF CashFlows
  <2> HIDE DEF f, g
  <2>2. SumFunctionOnSet(g, DOMAIN e \cup {client}) = SumFunctionOnSet(f, DOMAIN e) + cash
    BY <1>1, <2>1, SumMoves DEF Accounts
  <2> QED
    BY <2>1, <2>2 DEF SumFunction, f, g
<1> QED
  BY <1>2, <1>5, <1>6, <1>7 DEF n, cash, add_qty, Recorded

\* A turn of apply_fills: what one side of the fill receives the other pays.
LEMMA ApplyKeepsAccounts ==
  ASSUME HandlerInv, AccountsInv, ApplyFill
  PROVE  AccountsInv'
<1> DEFINE f == fills[applied + 1]
           rs == opposite(f.aggressor_side)
           e1 == record_fill(exposure, f.resting_client_id, rs, f.price, f.quantity)
           e2 == record_fill(e1, f.aggressor_client_id, f.aggressor_side, f.price,
                             f.quantity)
<1>1. exposure' = e2
  BY DEF ApplyFill
<1>2. f \in Fill
  <2>1. fills \in Seq(Fill) /\ applied \in 0 .. Len(fills) /\ applied < Len(fills)
    BY DEF HandlerInv, EngineInv, TypeOK, ApplyFill
  <2> QED
    BY <2>1
<1> HIDE DEF f
<1>3. /\ f.price \in Int /\ f.quantity \in Int
      /\ f.aggressor_side \in Sides /\ rs \in Sides
      /\ f.resting_client_id \in Clients /\ f.aggressor_client_id \in Clients
  BY <1>2 DEF Fill, opposite, Sides
<1>4. /\ signed(rs, f.quantity) = -signed(f.aggressor_side, f.quantity)
      /\ signed(rs, f.quantity) \in Int
  BY <1>3 DEF signed, opposite, Sides
<1>5. /\ cash_received(rs, f.price, f.quantity)
           = -cash_received(f.aggressor_side, f.price, f.quantity)
      /\ cash_received(rs, f.price, f.quantity) \in Int
      /\ cash_received(f.aggressor_side, f.price, f.quantity) \in Int
  <2> DEFINE amount == f.price * f.quantity
  <2>1. amount \in Int
    BY <1>3
  <2>2. /\ cash_received("Sell", f.price, f.quantity) = amount
        /\ cash_received("Buy", f.price, f.quantity) = -amount
    BY DEF cash_received
  <2> HIDE DEF amount
  <2> QED
    BY <1>3, <2>1, <2>2 DEF opposite, Sides
<1>6. /\ Accounts(e1) /\ DOMAIN e1 = DOMAIN exposure \cup {f.resting_client_id}
      /\ SumFunction(Positions(e1)) = 0 + signed(rs, f.quantity)
      /\ SumFunction(CashFlows(e1)) = 0 + cash_received(rs, f.price, f.quantity)
  <2>1. Accounts(exposure) /\ ZeroSum
    BY DEF AccountsInv, Accounts
  <2> HIDE DEF rs
  <2>2. Recorded(e1, exposure, f.resting_client_id, rs, f.price, f.quantity)
    BY <1>3, <2>1, RecordFillMoves
  <2> HIDE DEF e1
  <2> QED
    BY <2>1, <2>2 DEF ZeroSum, Recorded
<1> HIDE DEF e1
<1>7. /\ Accounts(e2) /\ DOMAIN e2 = DOMAIN e1 \cup {f.aggressor_client_id}
      /\ SumFunction(Positions(e2)) =
           SumFunction(Positions(e1)) + signed(f.aggressor_side, f.quantity)
      /\ SumFunction(CashFlows(e2)) =
           SumFunction(CashFlows(e1))
             + cash_received(f.aggressor_side, f.price, f.quantity)
  <2>1. Recorded(e2, e1, f.aggressor_client_id, f.aggressor_side, f.price, f.quantity)
    BY <1>3, <1>6, RecordFillMoves
  <2> HIDE DEF e2
  <2> QED
    BY <2>1 DEF Recorded
<1> HIDE DEF e2, rs
<1>8. SumFunction(Positions(e2)) = 0 /\ SumFunction(CashFlows(e2)) = 0
  <2>1. signed(f.aggressor_side, f.quantity) \in Int
    BY <1>3 DEF signed
  <2> QED
    BY <1>4, <1>5, <1>6, <1>7, <2>1
<1>9. DOMAIN e2 \subseteq Clients
  BY <1>3, <1>6, <1>7 DEF AccountsInv
<1> QED
  BY <1>1, <1>7, <1>8, <1>9 DEF AccountsInv, ZeroSum, Accounts

\* What holds of the accounts in every state.
LEMMA AccountsInvariant == ReplaySpec => []AccountsInv
<1>1. ReplayInit => AccountsInv
  <2> SUFFICES ASSUME ReplayInit PROVE AccountsInv
    OBVIOUS
  <2>1. exposure = << >> /\ DOMAIN exposure = {}
    BY DEF ReplayInit
  <2>2. DOMAIN Positions(exposure) = {} /\ DOMAIN CashFlows(exposure) = {}
    BY <2>1 DEF Positions, CashFlows
  <2>3. \A f : SumFunctionOnSet(f, {}) = 0
    BY SumSteps, FS_EmptySet, ZenonT(30)
  <2>4. ZeroSum
    BY <2>2, <2>3 DEF ZeroSum, SumFunction
  <2> QED
    BY <2>1, <2>4, FS_EmptySet DEF AccountsInv
<1>2. HandlerInv /\ AccountsInv /\ [ReplayNext]_replayVars => AccountsInv'
  <2> SUFFICES ASSUME HandlerInv, AccountsInv, [ReplayNext]_replayVars
               PROVE  AccountsInv'
    OBVIOUS
  <2>1. CASE ApplyFill
    BY <2>1, ApplyKeepsAccounts
  <2>2. CASE ~ApplyFill
    <3>1. exposure' = exposure
      BY <2>2, Zenon DEF ReplayNext, NewOrder, CancelOrder, ReplaceOrder, EngineStep, Complete,
                  FlipKillSwitch, replayVars, driverVars
    <3> QED
      BY <3>1 DEF AccountsInv, ZeroSum, Positions, CashFlows
  <2> QED
    BY <2>1, <2>2
<1> QED
  BY <1>1, <1>2, HandlerInvariant, PTL DEF ReplaySpec

-----------------------------------------------------------------------------
(* The feed.                                                               *)

\* The book c shows the same as b, except for the level i of side s.
Untouched(b, c, s, i) ==
  \A t \in Sides, j \in Indices :
    ~(t = s /\ j = i) =>
      /\ c.ladder[t].levels[j].order_count = b.ladder[t].levels[j].order_count
      /\ c.ladder[t].levels[j].total_quantity = b.ladder[t].levels[j].total_quantity

\* Taking an order out touches the level of its price only.
LEMMA WithoutTouches ==
  ASSUME NEW b, BookInv(b), NEW x \in Resting(b)
  PROVE  Untouched(b, Without(b, x), b.order_index[x].order.side,
                   index_of(b.order_index[x].order.price))
<1>1. b.order_index[x].level_index = index_of(b.order_index[x].order.price)
  BY Zenon DEF BookInv, Structured, QueuesMatchIndex
<1>2. \A t \in Sides, j \in Indices :
        ~(t = b.order_index[x].order.side /\ j = b.order_index[x].level_index) =>
          Without(b, x).ladder[t].levels[j] = b.ladder[t].levels[j]
  BY WithoutLevels
<1> QED
  BY <1>1, <1>2, Zenon DEF Untouched

\* So does storing an order.
LEMMA RestTouches ==
  ASSUME NEW b, BookInv(b), NEW o \in Order, add_error(b, o) = "None"
  PROVE  Untouched(b, Rest(b, o), o.side, index_of(o.price))
<1>1. \A t \in Sides, j \in Indices :
        ~(t = o.side /\ j = index_of(o.price)) =>
          Rest(b, o).ladder[t].levels[j] = b.ladder[t].levels[j]
  BY RestLevels
<1> QED
  BY <1>1 DEF Untouched

\* And so does a fill.
LEMMA ReduceTouches ==
  ASSUME NEW b, BookInv(b), NEW x \in Resting(b), NEW q \in Int,
         0 < q, q <= b.order_index[x].order.remaining
  PROVE  Untouched(b, reduce_quantity(b, x, q).book, b.order_index[x].order.side,
                   index_of(b.order_index[x].order.price))
<1> DEFINE c == reduce_quantity(b, x, q).book
<1>1. /\ b.order_index[x].level_index = index_of(b.order_index[x].order.price)
      /\ b.order_index[x].order.remaining \in Int
  BY RestingOrder, Zenon DEF BookInv, Structured, QueuesMatchIndex
<1>2. c = Without(b, x) \/ c = Shrunk(b, x, q)
  BY ReduceSound, ZenonT(30)
<1>3. BookInv(c)
  BY ReduceSound
<1> HIDE DEF c
<1>4. CASE c = Without(b, x)
  BY <1>4, WithoutTouches DEF c
<1>5. CASE c = Shrunk(b, x, q)
  <2>1. \A t \in Sides, j \in Indices :
          /\ Queue(c, t, j) = Queue(b, t, j)
          /\ ~(t = b.order_index[x].order.side /\ j = b.order_index[x].level_index) =>
               c.ladder[t].levels[j].total_quantity = b.ladder[t].levels[j].total_quantity
    BY <1>5, ShrunkLevels
  <2>2. \A t \in Sides, j \in Indices :
          /\ c.ladder[t].levels[j].order_count = Len(Queue(c, t, j))
          /\ b.ladder[t].levels[j].order_count = Len(Queue(b, t, j))
    BY <1>3 DEF BookInv, Structured, CountsMatchQueues, Queue
  <2>3. Untouched(b, c, b.order_index[x].order.side, b.order_index[x].level_index)
    BY <2>1, <2>2 DEF Untouched
  <2> QED
    BY <1>1, <2>3 DEF c
<1> QED
  BY <1>2, <1>4, <1>5

\* What a subscriber has after a level update: that level as it is in the
\* book, the others as before.  An empty level counts no quantity, so a Delete
\* shows it.
LEMMA PublishShows ==
  ASSUME NEW m \in [Sides -> [Indices -> MirrorLevel]],
         NEW b, BookInv(b), QuantitiesMatchQueues(b),
         NEW s \in Sides, NEW p \in Int
  PROVE  /\ publish_level(m, b, s, p) \in [Sides -> [Indices -> MirrorLevel]]
         /\ \A t \in Sides, j \in Indices :
              IF t = s /\ j = index_of(p)
              THEN Shows(publish_level(m, b, s, p), b, t, j)
              ELSE publish_level(m, b, s, p)[t][j] = m[t][j]
<1> DEFINE i == index_of(p)
           lvl == b.ladder[s].levels[i]
           new == IF lvl.order_count = 0 THEN NoLevel
                  ELSE [aggregate_quantity |-> lvl.total_quantity,
                        order_count |-> lvl.order_count]
<1>1. CASE i = NoIndex
  <2>1. publish_level(m, b, s, p) = m /\ i \notin Indices
    BY <1>1, LadderAssumption DEF publish_level, NoIndex, Indices
  <2> QED
    BY <2>1
<1>2. CASE i # NoIndex
  <2>1. i \in Indices
    BY <1>2, IndexOfPrice
  <2>2. publish_level(m, b, s, p) = [m EXCEPT ![s][i] = new]
    BY <1>2 DEF publish_level
  <2>3. /\ lvl \in PriceLevel /\ lvl.order_count \in Int /\ lvl.total_quantity \in Int
    BY <2>1, BookTypes DEF BookInv, PriceLevel
  <2>4. lvl.order_count = 0 => lvl.total_quantity = 0
    <3> SUFFICES ASSUME lvl.order_count = 0 PROVE lvl.total_quantity = 0
      OBVIOUS
    <3>1. lvl.fifo \in Seq(OrderIds) /\ Len(lvl.fifo) = 0
      BY <2>1, <2>3, Zenon DEF BookInv, Structured, CountsMatchQueues, PriceLevel
    <3>2. Range(lvl.fifo) = {}
      BY <3>1 DEF Range
    <3>3. SumFunctionOnSet(Open(b), {}) = 0
      BY SumSteps, FS_EmptySet, ZenonT(30)
    <3> QED
      BY <2>1, <3>2, <3>3, Zenon DEF QuantitiesMatchQueues
  <2>5. /\ new \in MirrorLevel
        /\ new.order_count = lvl.order_count
        /\ new.aggregate_quantity = lvl.total_quantity
    <3> HIDE DEF lvl
    <3> QED
      BY <2>3, <2>4 DEF NoLevel, MirrorLevel
  <2> HIDE DEF new, i
  <2> QED
    BY <2>1, <2>2, <2>5 DEF Shows, i
<1> QED
  BY <1>1, <1>2

\* Between requests there is nothing left to publish.
LEMMA ReadyShows ==
  ASSUME MirrorInv, stage = "ready"
  PROVE  \A s \in Sides, i \in Indices : Shows(mirror, book, s, i)
  BY Zenon DEF MirrorInv, ToPublish

\* A book that touches one level leaves the others shown.
LEMMA StillShown ==
  ASSUME NEW m, NEW b, NEW c, NEW s, NEW i, Untouched(b, c, s, i),
         NEW t \in Sides, NEW j \in Indices, ~(t = s /\ j = i), Shows(m, b, t, j)
  PROVE  Shows(m, c, t, j)
  BY DEF Untouched, Shows

\* A new order changes nothing that the feed shows before it is matched.
LEMMA NewOrderMirrored ==
  ASSUME MirrorInv, NEW t, NewOrder(t)
  PROVE  MirrorInv'
<1>1. stage = "ready" /\ mirror' = mirror /\ book' = book
  BY DEF NewOrder, BeginSubmit
<1> QED
  BY <1>1, ReadyShows, Zenon DEF MirrorInv

\* A cancel publishes the level it took the order from.
LEMMA CancelMirrored ==
  ASSUME HandlerInv, MirrorInv, NEW id \in OrderIds, CancelOrder(id)
  PROVE  MirrorInv'
<1>1. /\ stage = "ready" /\ EngineInv
      /\ \A s \in Sides, i \in Indices : Shows(mirror, book, s, i)
      /\ mirror \in [Sides -> [Indices -> MirrorLevel]]
  BY ReadyShows DEF CancelOrder, HandlerInv, MirrorInv
<1>2. CASE id \notin Resting(book)
  <2>1. book' = book /\ mirror' = mirror
    BY <1>2 DEF CancelOrder, vars
  <2> QED
    BY <1>1, <2>1, Zenon DEF MirrorInv
<1>3. CASE id \in Resting(book)
  <2> DEFINE o == book.order_index[id].order
  <2>1. Cancel(id) /\ mirror' = publish_level(mirror, book', o.side, o.price)
    BY <1>3 DEF CancelOrder
  <2>2. EngineInv' /\ book' = Without(book, id)
    BY <1>1, <1>3, <2>1, CancelKeepsInv DEF Cancel, cancel
  <2>3. Untouched(book, book', o.side, index_of(o.price))
    BY <1>1, <1>3, <2>2, WithoutTouches DEF EngineInv
  <2>4. o.side \in Sides /\ o.price \in Int
    BY <1>1, <1>3, RestingOrder, Zenon DEF EngineInv
  <2> HIDE DEF o
  <2>5. /\ mirror' \in [Sides -> [Indices -> MirrorLevel]]
        /\ \A t \in Sides, j \in Indices :
             IF t = o.side /\ j = index_of(o.price)
             THEN Shows(mirror', book', t, j)
             ELSE mirror'[t][j] = mirror[t][j]
    BY <1>1, <2>1, <2>2, <2>4, PublishShows DEF EngineInv
  <2>6. \A t \in Sides, j \in Indices : Shows(mirror', book', t, j)
    <3> SUFFICES ASSUME NEW t \in Sides, NEW j \in Indices,
                        ~(t = o.side /\ j = index_of(o.price))
                 PROVE  Shows(mirror', book', t, j)
      BY <2>5
    <3>1. Shows(mirror, book', t, j)
      BY <1>1, <2>3, StillShown
    <3> QED
      BY <2>5, <3>1 DEF Shows
  <2> QED
    BY <2>5, <2>6, Zenon DEF MirrorInv
<1> QED
  BY <1>2, <1>3

\* A replace owes the level that it vacated.
LEMMA ReplaceMirrored ==
  ASSUME HandlerInv, MirrorInv, NEW id \in OrderIds, NEW p \in Int, NEW q \in Int,
         ReplaceOrder(id, p, q)
  PROVE  MirrorInv'
<1>1. /\ stage = "ready" /\ EngineInv
      /\ \A s \in Sides, i \in Indices : Shows(mirror, book, s, i)
      /\ mirror' = mirror
  BY ReadyShows DEF ReplaceOrder, HandlerInv
<1>2. CASE book' = book
  BY <1>1, <1>2, Zenon DEF MirrorInv
<1>3. CASE book' # book
  <2> DEFINE o == book.order_index[id].order
  <2>1. id \in Resting(book)
    BY <1>3 DEF ReplaceOrder, vars
  <2>2. /\ Replace(id, p, q) /\ stage' = "busy"
        /\ request' = [kind |-> "replace", order |-> o, new_price |-> p]
    BY <2>1 DEF ReplaceOrder
  <2>3. book' = Without(book, id) /\ result' = NoResult
    BY <1>1, <1>3, <2>1, <2>2, ReplaceGoesOn
  <2>4. Untouched(book, book', o.side, index_of(o.price))
    BY <1>1, <2>1, <2>3, WithoutTouches DEF EngineInv
  <2> HIDE DEF o
  <2>5. ASSUME NEW t \in Sides, NEW j \in Indices, ~ToPublish(t, j)'
        PROVE  Shows(mirror, book', t, j)
    <3>1. request'.kind = "replace" /\ request'.order = o /\ ~ReplaceRejected'
      BY <2>2, <2>3 DEF ReplaceRejected, NoResult
    <3>2. ~(t = o.side /\ j = index_of(o.price))
      BY <2>2, <2>5, <3>1, Zenon DEF ToPublish
    <3> QED
      BY <1>1, <2>4, <3>2, StillShown
  <2> QED
    BY <1>1, <2>5, Zenon DEF MirrorInv
<1> QED
  BY <1>2, <1>3

\* A turn of the matching loop owes the level of its fill.
LEMMA MatchMirrored ==
  ASSUME HandlerInv, MirrorInv, MatchOne, UNCHANGED driverVars
  PROVE  MirrorInv'
<1> DEFINE s == opposite(aggressor.side)
           id == Head(Queue(book, s, best_index(book, s)))
           r == book.order_index[id].order
           fill_qty == fill_quantity(aggressor, r)
           n == Len(fills) + 1
<1>1. /\ EngineInv /\ pc = "match" /\ aggressor \in Order
      /\ aggressor.remaining > 0 /\ best_index(book, s) # NoIndex
      /\ stage = "busy" /\ stage' = stage /\ request' = request
      /\ applied = 0 /\ applied' = 0
      /\ mirror' = mirror /\ result' = result
      /\ fills \in Seq(Fill) /\ fills' \in Seq(Fill)
  <2>1. EngineInv'
    BY MatchOneStep DEF HandlerInv
  <2> QED
    BY <2>1, Zenon DEF HandlerInv, MatchOne, Matchable, driverVars, EngineInv, TypeOK
<1>2. s \in Sides /\ aggressor.remaining \in Int
  BY <1>1 DEF opposite, Sides, Order
<1>3. /\ id \in Resting(book) /\ r.id = id /\ r.side = s
      /\ r.price = price_at(best_index(book, s))
      /\ front_at(book, s, price_at(best_index(book, s))) = r
  BY <1>1, <1>2, FrontOfBest, Zenon DEF EngineInv
<1>4. r.remaining \in Int /\ r.remaining > 0
  BY <1>1, <1>3, RestingOrder, Zenon DEF EngineInv
<1>5. fill_qty \in Int /\ 0 < fill_qty /\ fill_qty <= r.remaining
  <2> HIDE DEF r
  <2> QED
    BY <1>1, <1>2, <1>4, FillIsSmaller
<1>6. /\ book' = reduce_quantity(book, id, fill_qty).book
      /\ n \in DOMAIN fills' /\ fills'[n].price = r.price
      /\ fills'[n].aggressor_side = aggressor.side
      /\ Len(fills') = n
      /\ \A k \in 1 .. Len(fills) : fills'[k] = fills[k]
  <2>1. book' = reduce_quantity(book, id, fill_qty).book
    BY <1>3, Zenon DEF MatchOne
  <2>2. \E f : /\ fills' = Append(fills, f) /\ f.price = r.price
               /\ f.aggressor_side = aggressor.side
    <3> DEFINE f == [match_id |-> next_match_id,
                     resting_order_id |-> r.id,
                     resting_client_id |-> r.client,
                     aggressor_order_id |-> aggressor.id,
                     aggressor_client_id |-> aggressor.client,
                     price |-> r.price,
                     quantity |-> fill_qty,
                     aggressor_side |-> aggressor.side,
                     resting_fully_filled |-> fill_qty = r.remaining]
    <3>1. fills' = Append(fills, f)
      BY <1>3, Zenon DEF MatchOne
    <3>2. f.price = r.price /\ f.aggressor_side = aggressor.side
      OBVIOUS
    <3> HIDE DEF f, r
    <3> QED
      BY <3>1, <3>2
  <2> HIDE DEF r, id, fill_qty
  <2> QED
    BY <1>1, <2>1, <2>2
<1>7. Untouched(book, book', s, index_of(r.price))
  <2> HIDE DEF s, fill_qty
  <2>1. Untouched(book, book', r.side, index_of(r.price))
    BY <1>1, <1>3, <1>5, <1>6, ReduceTouches, Zenon DEF EngineInv
  <2> QED
    BY <1>3, <2>1
<1> HIDE DEF id, r, fill_qty
<1>8. ASSUME NEW t \in Sides, NEW j \in Indices, ~ToPublish(t, j)'
      PROVE  Shows(mirror, book', t, j)
  <2>1. n \in applied' + 1 .. Len(fills') /\ Len(fills) \in Nat
    BY <1>1, <1>6
  <2>2. ~(t = s /\ j = index_of(r.price))
    BY <1>1, <1>6, <1>8, <2>1, Zenon DEF ToPublish
  <2>3. \A k \in applied + 1 .. Len(fills) :
          k \in applied' + 1 .. Len(fills') /\ fills'[k] = fills[k]
    BY <1>1, <1>6, <2>1
  <2>4. ~ToPublish(t, j)
    BY <1>1, <1>8, <2>3, Zenon DEF ToPublish, ReplaceRejected, RestingPrice
  <2>5. Shows(mirror, book, t, j)
    BY <2>4, Zenon DEF MirrorInv
  <2> QED
    BY <1>7, <2>2, <2>5, StillShown
<1> QED
  BY <1>1, <1>8, Zenon DEF MirrorInv

\* The end of submit owes the level where the order went to rest.
LEMMA FinishMirrored ==
  ASSUME HandlerInv, MirrorInv, FinishSubmit, UNCHANGED driverVars
  PROVE  MirrorInv'
<1>1. /\ EngineInv /\ BookInv(book) /\ pc = "match" /\ RequestInv
      /\ stage = "busy" /\ stage' = stage /\ request' = request
      /\ applied' = applied /\ mirror' = mirror /\ fills' = fills
      /\ aggressor \in Order
      /\ aggressor.side = request.order.side /\ aggressor.price = RestingPrice
      /\ result = NoResult
  BY Zenon DEF HandlerInv, RequestInv, FinishSubmit, driverVars, EngineInv, TypeOK
<1>2. HandlerInv'
  BY FinishHandled
<1>3. ~ReplaceRejected' /\ ~ReplaceRejected /\ ~result.rested /\ RestingPrice' = RestingPrice
  <2>1. request.kind = "replace" => result'.reject_reason # "BookCapacityExceeded"
    BY <1>1, <1>2, Zenon DEF HandlerInv, RequestInv, EngineInv, ReplaceKeepsOrder
  <2>2. result'.reject_reason \in {"None", "BookCapacityExceeded"}
    BY DEF FinishSubmit
  <2> QED
    BY <1>1, <2>1, <2>2 DEF ReplaceRejected, RestingPrice, NoResult
<1>4. ASSUME NEW t \in Sides, NEW j \in Indices, ~ToPublish(t, j)'
      PROVE  Shows(mirror, book', t, j)
  <2>1. ~ToPublish(t, j)
    BY <1>1, <1>3, <1>4 DEF ToPublish
  <2>2. Shows(mirror, book, t, j)
    BY <2>1, Zenon DEF MirrorInv
  <2>3. CASE book' = book
    BY <2>2, <2>3
  <2>4. CASE book' # book
    <3>1. /\ add_error(book, aggressor) = "None" /\ book' = Rest(book, aggressor)
          /\ result'.rested
      <4> DEFINE err == add_error(book, aggressor)
      <4>1. /\ err = "None" /\ book' = Rest(book, aggressor)
            /\ result' = [reject_reason |-> IF err = "None" THEN "None"
                                            ELSE "BookCapacityExceeded",
                          rested |-> err = "None",
                          remaining_after |-> aggressor.remaining]
        BY <2>4, Zenon DEF FinishSubmit, add
      <4> HIDE DEF err
      <4> QED
        BY <4>1, ZenonT(30) DEF err
    <3>2. Untouched(book, book', aggressor.side, index_of(aggressor.price))
      BY ZenonT(30), <1>1, <3>1, RestTouches
    <3>3. ~(t = aggressor.side /\ j = index_of(aggressor.price))
      BY ZenonT(30), <1>1, <1>3, <1>4, <3>1 DEF ToPublish
    <3> QED
      BY <2>2, <3>2, <3>3, StillShown
  <2> QED
    BY <2>3, <2>4
<1> QED
  BY <1>1, <1>4, Zenon DEF MirrorInv

\* A turn of apply_fills publishes the level of its fill.
LEMMA ApplyMirrored ==
  ASSUME HandlerInv, MirrorInv, ApplyFill
  PROVE  MirrorInv'
<1> DEFINE f == fills[applied + 1]
           s == opposite(f.aggressor_side)
<1>1. /\ EngineInv /\ BookInv(book) /\ QuantitiesMatchQueues(book)
      /\ stage' = stage /\ request' = request /\ applied' = applied + 1
      /\ UNCHANGED vars /\ book' = book /\ fills' = fills /\ result' = result
      /\ mirror' = publish_level(mirror, book, s, f.price)
      /\ applied \in 0 .. Len(fills) /\ applied < Len(fills) /\ fills \in Seq(Fill)
  BY Zenon DEF HandlerInv, ApplyFill, EngineInv, TypeOK, vars, callVars
<1>2. f \in Fill
  BY <1>1
<1> HIDE DEF f
<1>3. f.price \in Int /\ s \in Sides
  BY <1>2 DEF Fill, opposite, Sides
<1>4. /\ mirror' \in [Sides -> [Indices -> MirrorLevel]]
      /\ \A t \in Sides, j \in Indices :
           IF t = s /\ j = index_of(f.price)
           THEN Shows(mirror', book, t, j)
           ELSE mirror'[t][j] = mirror[t][j]
  <2> HIDE DEF s
  <2> QED
    BY <1>1, <1>3, PublishShows DEF MirrorInv
<1>5. ASSUME NEW t \in Sides, NEW j \in Indices, ~ToPublish(t, j)'
      PROVE  Shows(mirror', book, t, j)
  <2>1. CASE t = s /\ j = index_of(f.price)
    BY <1>4, <2>1
  <2>2. CASE ~(t = s /\ j = index_of(f.price))
    <3>1. \A k \in applied + 1 .. Len(fills) :
            k = applied + 1 \/ k \in applied' + 1 .. Len(fills')
      BY <1>1
    <3>2. ~ToPublish(t, j)
      <4> SUFFICES ASSUME ToPublish(t, j) PROVE FALSE
        OBVIOUS
      <4>1. ASSUME NEW k \in applied + 1 .. Len(fills),
                   t = opposite(fills[k].aggressor_side), j = index_of(fills[k].price)
            PROVE  FALSE
        <5>1. k # applied + 1
          BY <2>2, <4>1 DEF f
        <5>2. k \in applied' + 1 .. Len(fills') /\ fills'[k] = fills[k]
          BY <1>1, <3>1, <5>1
        <5>3. stage' = "busy"
          BY <1>1, Zenon DEF ApplyFill
        <5> QED
          BY <1>5, <4>1, <5>2, <5>3, Zenon DEF ToPublish
      <4> QED
        BY <1>1, <1>5, <4>1, Zenon DEF ToPublish, ReplaceRejected, RestingPrice
    <3>3. Shows(mirror, book, t, j)
      BY <3>2, Zenon DEF MirrorInv
    <3> QED
      BY <1>4, <2>2, <3>3, Zenon DEF Shows
  <2> QED
    BY <2>1, <2>2
<1> QED
  BY <1>1, <1>4, <1>5, Zenon DEF MirrorInv

\* The end of a handler publishes what is left.
LEMMA CompleteMirrored ==
  ASSUME HandlerInv, MirrorInv, Complete
  PROVE  MirrorInv'
<1> DEFINE s == request.order.side
           old == request.order.price
           vacated == IF request.kind = "replace" /\ ~ReplaceRejected
                      THEN publish_level(mirror, book, s, old) ELSE mirror
<1>1. /\ BookInv(book) /\ QuantitiesMatchQueues(book) /\ book' = book
      /\ stage = "busy" /\ pc = "idle" /\ RequestInv
      /\ mirror \in [Sides -> [Indices -> MirrorLevel]]
      /\ mirror' = IF result.rested THEN publish_level(vacated, book, s, RestingPrice)
                                    ELSE vacated
  BY DEF HandlerInv, MirrorInv, Complete, OwnLevels, EngineInv, vars
<1>2. s \in Sides /\ old \in Int /\ RestingPrice \in Int
  BY <1>1, Zenon DEF RequestInv, Order
<1>3. ~(\E k \in applied + 1 .. Len(fills) : TRUE)
  <2>1. fills \in Seq(Fill) /\ Len(fills) \in Nat /\ applied \in 0 .. Len(fills)
    BY DEF HandlerInv, EngineInv, TypeOK
  <2>2. CASE applied = Len(fills)
    BY <2>1, <2>2
  <2>3. CASE ReplaceRejected
    <3>1. fills = << >>
      BY <1>1, <2>3, Zenon DEF RequestInv
    <3>2. Len(fills) = 0
      BY <3>1
    <3> QED
      BY <2>1, <3>2
  <2> QED
    BY <2>2, <2>3 DEF Complete
<1>4. /\ vacated \in [Sides -> [Indices -> MirrorLevel]]
      /\ \A t \in Sides, j \in Indices :
           ~(result.rested /\ t = s /\ j = index_of(RestingPrice)) =>
             Shows(vacated, book, t, j)
  <2>1. CASE request.kind = "replace" /\ ~ReplaceRejected
    <3>1. /\ vacated \in [Sides -> [Indices -> MirrorLevel]]
          /\ \A t \in Sides, j \in Indices :
               IF t = s /\ j = index_of(old)
               THEN Shows(vacated, book, t, j)
               ELSE vacated[t][j] = mirror[t][j]
      <4>1. vacated = publish_level(mirror, book, s, old)
        BY <2>1
      <4> HIDE DEF vacated, s, old
      <4> QED
        BY <1>1, <1>2, <4>1, PublishShows
    <3> HIDE DEF vacated
    <3>2. ASSUME NEW t \in Sides, NEW j \in Indices,
                 ~(result.rested /\ t = s /\ j = index_of(RestingPrice)),
                 ~(t = s /\ j = index_of(old))
          PROVE  Shows(vacated, book, t, j)
      <4>1. ~ToPublish(t, j)
        BY <1>3, <3>2, Zenon DEF ToPublish
      <4>2. Shows(mirror, book, t, j)
        BY <4>1, Zenon DEF MirrorInv
      <4> QED
        BY <3>1, <3>2, <4>2, Zenon DEF Shows
    <3> QED
      BY <3>1, <3>2, Zenon
  <2>2. CASE ~(request.kind = "replace" /\ ~ReplaceRejected)
    <3>1. vacated = mirror
      BY <2>2, Zenon
    <3>2. ASSUME NEW t \in Sides, NEW j \in Indices,
                 ~(result.rested /\ t = s /\ j = index_of(RestingPrice))
          PROVE  Shows(mirror, book, t, j)
      <4>1. ~ToPublish(t, j)
        BY <1>3, <2>2, <3>2, Zenon DEF ToPublish
      <4> QED
        BY <4>1, Zenon DEF MirrorInv
    <3> QED
      BY <1>1, <3>1, <3>2
  <2> QED
    BY <2>1, <2>2
<1> HIDE DEF vacated, s, old
<1>5. /\ mirror' \in [Sides -> [Indices -> MirrorLevel]]
      /\ \A t \in Sides, j \in Indices : Shows(mirror', book, t, j)
  <2>1. CASE result.rested
    <3>1. /\ mirror' \in [Sides -> [Indices -> MirrorLevel]]
          /\ \A t \in Sides, j \in Indices :
               IF t = s /\ j = index_of(RestingPrice)
               THEN Shows(mirror', book, t, j)
               ELSE mirror'[t][j] = vacated[t][j]
      BY <1>1, <1>2, <1>4, <2>1, PublishShows
    <3>2. ASSUME NEW t \in Sides, NEW j \in Indices
          PROVE  Shows(mirror', book, t, j)
      <4>1. CASE t = s /\ j = index_of(RestingPrice)
        BY <3>1, <4>1, ZenonT(30)
      <4>2. CASE ~(t = s /\ j = index_of(RestingPrice))
        <5>1. mirror'[t][j] = vacated[t][j]
          BY <3>1, <4>2, ZenonT(30)
        <5>2. Shows(vacated, book, t, j)
          BY <1>4, <4>2, ZenonT(30)
        <5> QED
          BY <5>1, <5>2, ZenonT(30) DEF Shows
      <4> QED
        BY <4>1, <4>2, ZenonT(30)
    <3> QED
      BY <3>1, <3>2, ZenonT(30)
  <2>2. CASE ~result.rested
    BY <1>1, <1>4, <2>2
  <2> QED
    BY <2>1, <2>2
<1> QED
  BY <1>1, <1>5, Zenon DEF MirrorInv

\* What a subscriber has in every state.
LEMMA MirrorInvariant == ReplaySpec => []MirrorInv
<1>1. ReplayInit => MirrorInv
  <2> SUFFICES ASSUME ReplayInit PROVE MirrorInv
    OBVIOUS
  <2>1. /\ mirror = [s \in Sides |-> [i \in Indices |-> NoLevel]]
        /\ NoLevel \in MirrorLevel
        /\ \A s \in Sides, i \in Indices : book.ladder[s].levels[i] = EmptyLevel
    BY DEF ReplayInit, Init, EmptyBook, EmptyLadder, NoLevel, MirrorLevel
  <2>2. /\ EmptyLevel.order_count = NoLevel.order_count
        /\ EmptyLevel.total_quantity = NoLevel.aggregate_quantity
    BY DEF EmptyLevel, NoLevel
  <2> HIDE DEF NoLevel, EmptyLevel
  <2>3. \A s \in Sides, i \in Indices : Shows(mirror, book, s, i)
    BY <2>1, <2>2 DEF Shows
  <2>4. mirror \in [Sides -> [Indices -> MirrorLevel]]
    BY <2>1
  <2> QED
    BY <2>3, <2>4, Zenon DEF MirrorInv
<1>2. HandlerInv /\ MirrorInv /\ [ReplayNext]_replayVars => MirrorInv'
  <2> SUFFICES ASSUME HandlerInv, MirrorInv, [ReplayNext]_replayVars
               PROVE  MirrorInv'
    OBVIOUS
  <2>1. ASSUME NEW t \in NewOrders, NewOrder(t) PROVE MirrorInv'
    BY <2>1, NewOrderMirrored
  <2>2. ASSUME NEW id \in OrderIds, CancelOrder(id) PROVE MirrorInv'
    BY <2>2, CancelMirrored
  <2>3. ASSUME NEW id \in OrderIds, NEW p \in Prices, NEW q \in Quantities,
               ReplaceOrder(id, p, q)
        PROVE  MirrorInv'
    BY <2>3, ReplaceMirrored, EngineAssumption
  <2>4. CASE EngineStep
    BY <2>4, MatchMirrored, FinishMirrored DEF EngineStep
  <2>5. CASE ApplyFill
    BY <2>5, ApplyMirrored
  <2>6. CASE Complete
    BY <2>6, CompleteMirrored
  <2>7. CASE FlipKillSwitch \/ UNCHANGED replayVars
    <3>1. UNCHANGED <<vars, mirror, stage, request, applied>>
      BY <2>7 DEF FlipKillSwitch, replayVars, driverVars
    <3> QED
      BY <3>1, Zenon DEF MirrorInv, ToPublish, RestingPrice, ReplaceRejected, vars, callVars
  <2> QED
    BY <2>1, <2>2, <2>3, <2>4, <2>5, <2>6, <2>7 DEF ReplayNext
<1> QED
  BY <1>1, <1>2, HandlerInvariant, PTL DEF ReplaySpec

-----------------------------------------------------------------------------
(* The theorems.                                                           *)

\* What the last report says, in the type it has and of the order it names.
ReportInv ==
  /\ kill_switch_engaged \in BOOLEAN
  /\ report.exec_type \in ExecTypes \cup {"none"}
  /\ RestingReportIsOpen

\* The report at the end of a handler speaks of the book as it is then.
LEMMA CompleteReports ==
  ASSUME HandlerInv, Complete
  PROVE  report'.exec_type \in ExecTypes /\ RestingReportIsOpen'
<1> DEFINE o == request.order
<1>1. /\ RequestInv /\ pc = "idle" /\ book' = book
      /\ report' = FinalReport
  BY DEF HandlerInv, Complete, vars
<1>2. CASE ReplaceRejected
  <2>1. report'.exec_type = "Rejected"
    BY <1>1, <1>2, ReportFields DEF FinalReport
  <2> QED
    BY <2>1 DEF ExecTypes, RestingReportIsOpen
<1>3. CASE ~ReplaceRejected
  <2> DEFINE type == IF request.kind = "new" THEN ExecTypeOfNew ELSE ExecTypeOfReplace
  <2>1. /\ report'.exec_type = type
        /\ report'.order_id = o.id
        /\ report'.leaves_quantity = result.remaining_after
    BY <1>1, <1>3, ReportFields DEF FinalReport
  <2>2. type \in ExecTypes
    BY DEF ExecTypeOfNew, ExecTypeOfReplace, ExecTypes
  <2>3. type \in {"New", "Replaced"} => result.rested
    <3>1. CASE request.kind = "new"
      BY <3>1 DEF ExecTypeOfNew
    <3>2. CASE request.kind # "new"
      <4>1. request.kind = "replace"
        BY <1>1, <3>2 DEF RequestInv
      <4>2. result.rested \/ result.remaining_after = 0
        BY <1>1, <1>3, <4>1 DEF RequestInv
      <4>3. CASE result.rested
        BY <4>3
      <4>4. CASE result.remaining_after = 0
        <5>1. type = "Fill"
          BY <3>2, <4>4 DEF ExecTypeOfReplace
        <5> QED
          BY <5>1
      <4> QED
        BY <4>2, <4>3, <4>4
    <3> QED
      BY <3>1, <3>2
  <2> HIDE DEF type
  <2>4. ASSUME report'.exec_type \in {"New", "Replaced"}
        PROVE  /\ o.id \in Resting(book)
               /\ book.order_index[o.id].order.remaining = result.remaining_after
    BY <1>1, <2>1, <2>3, <2>4 DEF RequestInv
  <2> QED
    BY <1>1, <2>1, <2>2, <2>4 DEF RestingReportIsOpen
<1> QED
  BY <1>2, <1>3

\* What holds of the last report in every state.
LEMMA ReportInvariant == ReplaySpec => []ReportInv
<1>1. ReplayInit => ReportInv
  <2>1. ReplayInit => kill_switch_engaged = FALSE /\ report.exec_type = "none"
    BY DEF ReplayInit, NoReport
  <2> QED
    BY <2>1, ZenonT(30) DEF ReportInv, RestingReportIsOpen
<1>2. HandlerInv /\ ReportInv /\ [ReplayNext]_replayVars => ReportInv'
  <2> SUFFICES ASSUME HandlerInv, ReportInv, [ReplayNext]_replayVars
               PROVE  ReportInv'
    OBVIOUS
  <2>1. CASE Complete
    <3>1. report'.exec_type \in ExecTypes /\ RestingReportIsOpen'
      BY <2>1, CompleteReports
    <3>2. kill_switch_engaged' = kill_switch_engaged
      BY <2>1 DEF Complete
    <3> QED
      BY <3>1, <3>2 DEF ReportInv
  <2>2. CASE \E id \in OrderIds : CancelOrder(id)
    <3>1. /\ kill_switch_engaged' = kill_switch_engaged
          /\ report'.exec_type \in {"Rejected", "Cancelled"}
      BY <2>2, ReportFields DEF CancelOrder
    <3> QED
      BY <3>1 DEF ReportInv, RestingReportIsOpen, ExecTypes
  <2>3. CASE \E t \in NewOrders : NewOrder(t)
    <3>1. /\ kill_switch_engaged' = kill_switch_engaged
          /\ \/ \E x, y, z : report' = Report(x, << >>, y, "Rejected", z)
             \/ report' = report /\ stage' = "busy"
      BY <2>3, Zenon DEF NewOrder
    <3>2. \/ report'.exec_type = "Rejected"
          \/ report' = report /\ stage' = "busy"
      BY <3>1, ReportFields
    <3> QED
      BY <3>1, <3>2 DEF ReportInv, RestingReportIsOpen, ExecTypes
  <2>4. CASE \E id \in OrderIds, p \in Prices, q \in Quantities : ReplaceOrder(id, p, q)
    <3>1. /\ kill_switch_engaged' = kill_switch_engaged
          /\ \/ \E x, y, z : report' = Report(x, << >>, y, "Rejected", z)
             \/ report' = report /\ stage' = "busy"
      BY <2>4, Zenon DEF ReplaceOrder
    <3>2. \/ report'.exec_type = "Rejected"
          \/ report' = report /\ stage' = "busy"
      BY <3>1, ReportFields
    <3> QED
      BY <3>1, <3>2 DEF ReportInv, RestingReportIsOpen, ExecTypes
  <2>5. CASE EngineStep \/ ApplyFill
    <3>1. /\ kill_switch_engaged' = kill_switch_engaged
          /\ report' = report /\ stage' = "busy"
      BY <2>5 DEF EngineStep, ApplyFill, driverVars, HandlerInv, MatchOne, FinishSubmit
    <3> QED
      BY <3>1 DEF ReportInv, RestingReportIsOpen
  <2>6. CASE FlipKillSwitch \/ UNCHANGED replayVars
    <3>1. /\ kill_switch_engaged' \in BOOLEAN /\ report' = report /\ book' = book
          /\ stage' = stage
      BY <2>6, ZenonT(30) DEF FlipKillSwitch, replayVars, driverVars, vars, ReportInv
    <3> QED
      BY <3>1 DEF ReportInv, RestingReportIsOpen
  <2> QED
    BY <2>1, <2>2, <2>3, <2>4, <2>5, <2>6 DEF ReplayNext
<1> QED
  BY <1>1, <1>2, HandlerInvariant, PTL DEF ReplaySpec

\* The type invariant of the exchange.
THEOREM ReplayTypeCorrect == ReplaySpec => []ReplayTypeOK
<1>1. HandlerInv /\ AccountsInv /\ MirrorInv /\ ReportInv => ReplayTypeOK
  BY DEF HandlerInv, EngineInv, AccountsInv, MirrorInv, ReportInv, ReplayTypeOK
<1> QED
  BY <1>1, HandlerInvariant, AccountsInvariant, MirrorInvariant, ReportInvariant, PTL

\* For every ladder, pool and set of clients: between requests a subscriber
\* that applied every level update has the aggregates of the book, whatever
\* process_new_order, process_cancel and process_replace did before.
THEOREM FeedFollowsBook == ReplaySpec => []FeedMirrorsBook
<1>1. MirrorInv => FeedMirrorsBook
  <2> SUFFICES ASSUME MirrorInv, stage = "ready",
                      NEW s \in Sides, NEW i \in Indices
               PROVE  Shows(mirror, book, s, i)
    BY Zenon DEF FeedMirrorsBook, Shows
  <2> QED
    BY ReadyShows
<1> QED
  BY <1>1, MirrorInvariant, PTL

\* Positions and cash flows add up to zero over all accounts, for any number
\* of clients: record_fill gives to the buyer what it takes from the seller.
THEOREM AccountsSumToZero == ReplaySpec => []ZeroSum
<1>1. AccountsInv => ZeroSum
  BY DEF AccountsInv
<1> QED
  BY <1>1, AccountsInvariant, PTL

\* A report that an order went to rest tells what is open under its id.
THEOREM ReportsTellTheBook == ReplaySpec => []RestingReportIsOpen
<1>1. ReportInv => RestingReportIsOpen
  BY DEF ReportInv
<1> QED
  BY <1>1, ReportInvariant, PTL
=============================================================================
