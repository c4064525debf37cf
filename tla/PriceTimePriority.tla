-------------------------- MODULE PriceTimePriority --------------------------
(***************************************************************************)
(* What a matching engine promises, without ladders, queues, bitmaps or    *)
(* pools: the market is a set of resting orders and at most one incoming   *)
(* order.  An incoming order trades with the resting order that has        *)
(* priority (best price, then lowest sequence number) for as long as one   *)
(* is acceptable to it, and only then rests or is dropped.                 *)
(***************************************************************************)
EXTENDS Integers, Sequences, FiniteSets, Functions

CONSTANTS Room,           \* how many orders may rest
          Listed(_),      \* the prices an order may rest at
          NoOrder

VARIABLES resting,   \* from order id to order
          incoming,  \* the order being matched, or NoOrder
          trades     \* of the incoming order, or of the last one

vars == <<resting, incoming, trades>>

Init == resting = << >> /\ incoming = NoOrder /\ trades = << >>

\* The resting orders that the incoming one accepts to trade with.
Accepts(o, r) ==
  /\ r.side # o.side
  /\ \/ o.type = "Market"
     \/ o.side = "Buy" /\ r.price <= o.price
     \/ o.side = "Sell" /\ r.price >= o.price

Counterparts(o) == {id \in DOMAIN resting : Accepts(o, resting[id])}

\* r has priority over q, both resting on the same side.
Precedes(r, q) ==
  \/ r.side = "Buy" /\ r.price > q.price
  \/ r.side = "Sell" /\ r.price < q.price
  \/ r.price = q.price /\ r.sequence < q.sequence

First(ids) ==
  CHOOSE id \in ids : \A k \in ids \ {id} : Precedes(resting[id], resting[k])

\* All of o could trade at once.
Fillable(o) ==
  LET open == [id \in DOMAIN resting |-> resting[id].remaining]
  IN  SumFunctionOnSet(open, Counterparts(o)) >= o.quantity

-----------------------------------------------------------------------------
Fresh(o) ==
  /\ o.quantity > 0
  /\ o.remaining = o.quantity
  /\ \A id \in DOMAIN resting : resting[id].sequence < o.sequence

\* A new order is taken in; a fill-or-kill order only when it can fill.
Arrive ==
  /\ incoming = NoOrder
  /\ incoming' # NoOrder
  /\ Fresh(incoming')
  /\ incoming'.tif = "FOK" => Fillable(incoming')
  /\ trades' = << >>
  /\ UNCHANGED resting

\* A request is refused.
Refuse ==
  /\ incoming = NoOrder
  /\ trades' = << >>
  /\ UNCHANGED <<resting, incoming>>

\* An order leaves the market, for good or to come in again with new terms.
Withdraw ==
  /\ incoming = NoOrder
  /\ \E id \in DOMAIN resting :
       /\ resting' = [k \in DOMAIN resting \ {id} |-> resting[k]]
       /\ \/ incoming' = NoOrder
          \/ /\ Fresh(incoming')
             /\ incoming' = [resting[id] EXCEPT !.price = incoming'.price,
                                                !.quantity = incoming'.quantity,
                                                !.remaining = incoming'.quantity,
                                                !.sequence = incoming'.sequence]
  /\ trades' = << >>

Trade ==
  /\ incoming # NoOrder
  /\ incoming.remaining > 0
  /\ Counterparts(incoming) # {}
  /\ LET id == First(Counterparts(incoming))
         r == resting[id]
         q == IF incoming.remaining < r.remaining THEN incoming.remaining ELSE r.remaining
     IN  /\ resting' = IF q = r.remaining
                       THEN [k \in DOMAIN resting \ {id} |-> resting[k]]
                       ELSE [resting EXCEPT ![id].remaining = @ - q]
         /\ incoming' = [incoming EXCEPT !.remaining = @ - q]
         /\ \E m \in {trades'[Len(trades) + 1].match_id} :
              trades' = Append(trades,
                          [match_id |-> m,
                           resting_order_id |-> id, resting_client_id |-> r.client,
                           aggressor_order_id |-> incoming.id,
                           aggressor_client_id |-> incoming.client,
                           price |-> r.price, quantity |-> q,
                           aggressor_side |-> incoming.side,
                           resting_fully_filled |-> q = r.remaining])

\* Nothing more to trade: a Day limit order rests if there is a place for
\* it; what is left of any other order is dropped.
Settle ==
  /\ incoming # NoOrder
  /\ incoming.remaining = 0 \/ Counterparts(incoming) = {}
  /\ resting' =
       IF /\ incoming.remaining > 0 /\ incoming.type = "Limit" /\ incoming.tif = "Day"
          /\ Listed(incoming.price)
          /\ incoming.id \notin DOMAIN resting
          /\ Cardinality(DOMAIN resting) < Room
       THEN [k \in DOMAIN resting \cup {incoming.id} |->
               IF k = incoming.id THEN incoming ELSE resting[k]]
       ELSE resting
  /\ incoming' = NoOrder
  /\ UNCHANGED trades

Next == Arrive \/ Refuse \/ Withdraw \/ Trade \/ Settle

Spec == Init /\ [][Next]_vars
=============================================================================
