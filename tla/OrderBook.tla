------------------------------ MODULE OrderBook ------------------------------
(***************************************************************************)
(* A single symbol's limit order book (OrderBook in book/order_book.hpp):  *)
(* two ladders, the index from order id to resting node, and the pool the  *)
(* nodes live in.  A book is a record; an operation is an operator from a  *)
(* book to the book it leaves, paired with the error it returns.           *)
(*                                                                         *)
(* A node is identified with the id of the order it holds: order_index     *)
(* maps each resting id to its node, and live_count is the pool's count of *)
(* allocated nodes.                                                        *)
(***************************************************************************)
EXTENDS LadderSide, FiniteSets

CONSTANTS Clients, Symbols,
          MaxOrders,    \* capacity of the node pool
          BasePrice     \* price of ladder index 0

ASSUME BookAssumption == MaxOrders \in Nat \ {0} /\ BasePrice \in Int

OrderTypes == {"Limit", "Market"}
TimesInForce == {"Day", "IOC", "FOK"}

Order == [id : OrderIds, client : Clients, symbol : Symbols, side : Sides,
          type : OrderTypes, tif : TimesInForce, price : Int,
          quantity : Int,     \* as requested
          remaining : Int,    \* still open
          sequence : Nat]     \* given by the sequencer

\* What a request says of an order.
Terms == [id : OrderIds, client : Clients, symbol : Symbols, side : Sides,
          type : OrderTypes, tif : TimesInForce, price : Int, quantity : Int]

\* The order that a request with these terms becomes once it is sequenced.
Sequenced(t, seq) ==
  [id |-> t.id, client |-> t.client, symbol |-> t.symbol, side |-> t.side,
   type |-> t.type, tif |-> t.tif, price |-> t.price, quantity |-> t.quantity,
   remaining |-> t.quantity, sequence |-> seq]

Node == [order : Order, level_index : Indices]

AddErrors == {"None", "PriceOutOfRange", "DuplicateOrderId", "PoolExhausted",
              "InvalidQuantity", "MarketOrderCannotRest"}

\* The books in which exactly the orders ids rest.
BookWith(ids) == [ladder : [Sides -> Ladder],
                  order_index : [ids -> Node],   \* order_index_, id to node
                  live_count : Int,              \* of pool_
                  order_count : Int]             \* order_count_

EmptyBook == [ladder |-> [s \in Sides |-> EmptyLadder],
              order_index |-> << >>,
              live_count |-> 0,
              order_count |-> 0]

-----------------------------------------------------------------------------
(* Queries.                                                                *)

index_of(p) ==
  LET offset == p - BasePrice
  IN  IF offset < 0 \/ offset >= NumLevels THEN NoIndex ELSE offset

price_at(i) == BasePrice + i

Resting(b) == DOMAIN b.order_index

\* The index of the best price of a side, NoIndex when the side is empty
\* (best_bid and best_ask).
best_index(b, s) == b.ladder[s].best_index

level_at(b, s, p) == b.ladder[s].levels[index_of(p)]

front_at(b, s, p) == b.order_index[Head(level_at(b, s, p).fifo)].order

-----------------------------------------------------------------------------
(* Updates.                                                                *)

add_error(b, o) ==
  IF o.type # "Limit" THEN "MarketOrderCannotRest"
  ELSE IF o.remaining <= 0 THEN "InvalidQuantity"
  ELSE IF index_of(o.price) = NoIndex THEN "PriceOutOfRange"
  ELSE IF o.id \in Resting(b) THEN "DuplicateOrderId"
  ELSE IF b.live_count >= MaxOrders THEN "PoolExhausted"
  ELSE "None"

\* The book after an order that passed every check of add is stored.
Rest(b, o) ==
  LET i == index_of(o.price)
  IN  [ladder |-> [b.ladder EXCEPT ![o.side] = PushInto(o.side, @, i, o)],
       order_index |-> [id \in Resting(b) \cup {o.id} |->
                          IF id = o.id THEN [order |-> o, level_index |-> i]
                                       ELSE b.order_index[id]],
       live_count |-> b.live_count + 1,
       order_count |-> b.order_count + 1]

add(b, o) ==
  LET err == add_error(b, o)
  IN  [error |-> err, book |-> IF err = "None" THEN Rest(b, o) ELSE b]

\* The node of id unlinked, freed and erased (unlink_and_free and the
\* erase and count that follow it at every call).
Without(b, id) ==
  LET node == b.order_index[id]
      s == node.order.side
  IN  [ladder |-> [b.ladder EXCEPT
                     ![s] = UnlinkFrom(s, @, node.level_index, node.order)],
       order_index |-> [k \in Resting(b) \ {id} |-> b.order_index[k]],
       live_count |-> b.live_count - 1,
       order_count |-> b.order_count - 1]

cancel(b, id) ==
  IF id \notin Resting(b)
  THEN [error |-> "NotFound", book |-> b]
  ELSE [error |-> "None", book |-> Without(b, id)]

\* The book after the order of id, which stays where it is in its queue,
\* gives up part of its quantity.
Shrunk(b, id, fill) ==
  LET node == b.order_index[id]
  IN  [b EXCEPT
         !.ladder[node.order.side].levels[node.level_index].total_quantity = @ - fill,
         !.order_index[id].order.remaining = @ - fill]

\* The defect of an earlier version of the function: remaining is zeroed
\* before level_unlink subtracts it from the aggregate.
reduce_quantity_zeroing_first(b, id, fill) ==
  IF id \notin Resting(b)
  THEN [error |-> "NotFound", book |-> b]
  ELSE IF fill <= 0 \/ fill > b.order_index[id].order.remaining
  THEN [error |-> "InvalidFillAmount", book |-> b]
  ELSE [error |-> "None",
        book |-> IF fill = b.order_index[id].order.remaining
                 THEN Without([b EXCEPT !.order_index[id].order.remaining = 0], id)
                 ELSE Shrunk(b, id, fill)]

reduce_quantity(b, id, fill) ==
  IF id \notin Resting(b)
  THEN [error |-> "NotFound", book |-> b]
  ELSE IF fill <= 0 \/ fill > b.order_index[id].order.remaining
  THEN [error |-> "InvalidFillAmount", book |-> b]
  ELSE [error |-> "None",
        book |-> IF fill = b.order_index[id].order.remaining
                 THEN Without(b, id)
                 ELSE Shrunk(b, id, fill)]

\* An order with new terms, as both replace functions build it.
Updated(o, p, q, seq) ==
  [o EXCEPT !.price = p, !.quantity = q, !.remaining = q, !.sequence = seq]

\* A defect in which the new price is left to add to check.
replace_any_price(b, id, p, q, seq) ==
  IF id \notin Resting(b)
  THEN [error |-> "NotFound", book |-> b]
  ELSE IF q <= 0 THEN [error |-> "InvalidQuantity", book |-> b]
  ELSE LET added == add(Without(b, id), Updated(b.order_index[id].order, p, q, seq))
       IN  [error |-> IF added.error = "None" THEN "None" ELSE "PoolExhausted",
            book |-> added.book]

replace(b, id, p, q, seq) ==
  IF id \notin Resting(b)
  THEN [error |-> "NotFound", book |-> b]
  ELSE IF q <= 0 THEN [error |-> "InvalidQuantity", book |-> b]
  ELSE IF index_of(p) = NoIndex THEN [error |-> "PriceOutOfRange", book |-> b]
  ELSE LET added == add(Without(b, id), Updated(b.order_index[id].order, p, q, seq))
       IN  [error |-> IF added.error = "None" THEN "None" ELSE "PoolExhausted",
            book |-> added.book]

-----------------------------------------------------------------------------
(* What it means for a book to be sound.                                   *)

\* The queue of a level holds, once each, the ids of the resting orders of
\* that side and price, and every resting order is in the queue of its price.
QueuesMatchIndex(b) ==
  /\ \A s \in Sides, i \in Indices :
       LET fifo == b.ladder[s].levels[i].fifo
       IN  /\ IsInjective(fifo)
           /\ \A k \in DOMAIN fifo :
                /\ fifo[k] \in Resting(b)
                /\ b.order_index[fifo[k]].order.side = s
                /\ b.order_index[fifo[k]].level_index = i
  /\ \A id \in Resting(b) :
       LET node == b.order_index[id]
       IN  /\ node.order.id = id
           /\ node.level_index = index_of(node.order.price)
           /\ \E k \in DOMAIN b.ladder[node.order.side].levels[node.level_index].fifo :
                b.ladder[node.order.side].levels[node.level_index].fifo[k] = id

\* The order count of a level is the length of its queue, and no order in
\* the book is exhausted.
CountsMatchQueues(b) ==
  /\ \A s \in Sides, i \in Indices :
       b.ladder[s].levels[i].order_count = Len(b.ladder[s].levels[i].fifo)
  /\ \A id \in Resting(b) : b.order_index[id].order.remaining > 0

\* What each resting order has open.
Open(b) == [id \in Resting(b) |-> b.order_index[id].order.remaining]

\* The aggregate quantity of a level is what the orders in its queue have
\* open.
QuantitiesMatchQueues(b) ==
  \A s \in Sides, i \in Indices :
    LET lvl == b.ladder[s].levels[i]
    IN  lvl.total_quantity = SumFunctionOnSet(Open(b), Range(lvl.fifo))

\* The bitmap marks the levels with a queue, and best_index is the best of
\* them: no resting order has a better price than the touch.
BestIsTouch(b) ==
  \A s \in Sides :
    LET l == b.ladder[s]
    IN  /\ l.occupied = {i \in Indices : l.levels[i].fifo # << >>}
        /\ \/ l.best_index = NoIndex /\ l.occupied = {}
           \/ /\ l.best_index \in l.occupied
              /\ \A i \in l.occupied \ {l.best_index} : is_better(s, l.best_index, i)

\* The pool, the index and the counter agree on how many orders rest: no
\* operation leaks a node or frees one twice.
NothingLeaked(b) ==
  /\ b.live_count = Cardinality(Resting(b))
  /\ b.order_count = Cardinality(Resting(b))
  /\ b.live_count <= MaxOrders

\* Along a queue the sequence numbers increase: the front of a level has
\* waited longest since it was entered or last replaced.
QueuesInTimeOrder(b) ==
  \A s \in Sides, i \in Indices :
    LET fifo == b.ladder[s].levels[i].fifo
    IN  \A j, k \in DOMAIN fifo :
          j < k => b.order_index[fifo[j]].order.sequence
                     < b.order_index[fifo[k]].order.sequence

\* The parts of the book agree with one another.
Structured(b) ==
  /\ QueuesMatchIndex(b)
  /\ CountsMatchQueues(b)
  /\ BestIsTouch(b)
  /\ NothingLeaked(b)
  /\ QueuesInTimeOrder(b)
=============================================================================
