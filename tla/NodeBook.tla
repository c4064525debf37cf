------------------------------ MODULE NodeBook ------------------------------
(***************************************************************************)
(* The order book as it lies in memory: nodes in the slots of a SlabPool,  *)
(* linked by prev and next into the list of a price level, found through   *)
(* order_index_, with bitmaps of words (book/order_book.hpp,               *)
(* book/price_level.hpp, book/bitmap.hpp, memory/slab_pool.hpp).           *)
(*                                                                         *)
(* BookSession has sequences, sets and a count in their place.  Here every *)
(* call is made on both, the memory and the book it stands for.            *)
(***************************************************************************)
EXTENDS Integers, Sequences, SequencesExt

CONSTANTS OrderIds, NumLevels, Clients, Symbols, MaxOrders, BasePrice,
          NewOrders, Prices, Quantities, MaxSequence,   \* as in BookSession
          WordBits                                      \* bits of a bitmap word

VARIABLES book, next_sequence, last,   \* of BookSession
          mem,                         \* the OrderBook object
          error                        \* what the last call on mem returned

Session == INSTANCE BookSession
Book == INSTANCE OrderBook
Pool == INSTANCE SlabPool WITH Capacity <- MaxOrders
Words == INSTANCE Bitmap WITH NumBits <- NumLevels

null == Pool!kNone

NoIndex == Book!NoIndex

\* Storage in which no node lives.
Freed == [order |-> [id |-> "none", remaining |-> 0], level_index |-> NoIndex,
          prev |-> null, next |-> null]

EmptyLevel == [head |-> null, tail |-> null, total_quantity |-> 0, order_count |-> 0]

EmptyMemory ==
  [pool |-> Pool!NewPool,
   nodes |-> [n \in Pool!Slots |-> Freed],
   levels |-> [s \in Book!Sides |-> [i \in Book!Indices |-> EmptyLevel]],
   occupied |-> [s \in Book!Sides |-> Words!Cleared],
   best_index |-> [s \in Book!Sides |-> NoIndex],
   order_index |-> << >>,      \* from order id to slot
   order_count |-> 0]

-----------------------------------------------------------------------------
(* The list of a price level.                                              *)

level_push_back(m, s, i, n) ==
  LET lvl == m.levels[s][i]
      linked == IF lvl.tail # null THEN [m.nodes EXCEPT ![lvl.tail].next = n] ELSE m.nodes
  IN  [m EXCEPT
         !.nodes = [linked EXCEPT ![n].prev = lvl.tail, ![n].next = null],
         !.levels[s][i] = [head |-> IF lvl.tail # null THEN lvl.head ELSE n,
                           tail |-> n,
                           total_quantity |-> lvl.total_quantity + m.nodes[n].order.remaining,
                           order_count |-> lvl.order_count + 1]]

\* A defect in which the successor keeps its link to the unlinked node.
bypassed_one_way(nodes, n) ==
  [k \in Pool!Slots |->
     IF k = n THEN [nodes[n] EXCEPT !.prev = null, !.next = null]
     ELSE IF k = nodes[n].prev THEN [nodes[k] EXCEPT !.next = nodes[n].next]
     ELSE nodes[k]]

\* The nodes once the neighbours of n link to one another.
bypassed(nodes, n) ==
  [k \in Pool!Slots |->
     IF k = n THEN [nodes[n] EXCEPT !.prev = null, !.next = null]
     ELSE IF k = nodes[n].prev THEN [nodes[k] EXCEPT !.next = nodes[n].next]
     ELSE IF k = nodes[n].next THEN [nodes[k] EXCEPT !.prev = nodes[n].prev]
     ELSE nodes[k]]

level_unlink(m, s, i, n) ==
  LET node == m.nodes[n]
  IN  [m EXCEPT
         !.nodes = bypassed(@, n),
         !.levels[s][i] = [head |-> IF node.prev # null THEN @.head ELSE node.next,
                           tail |-> IF node.next # null THEN @.tail ELSE node.prev,
                           total_quantity |-> @.total_quantity - node.order.remaining,
                           order_count |-> @.order_count - 1]]

-----------------------------------------------------------------------------
(* The bitmap and the best index of a side.                                *)

\* The next-best index after i in the words w.
next_after(s, w, i) ==
  IF s = "Sell" THEN Words!find_lowest_at_or_above(w, i + 1)
  ELSE IF i = 0 THEN NoIndex ELSE Words!find_highest_at_or_below(w, i - 1)

note_nonempty(m, s, i) ==
  [m EXCEPT !.occupied[s] = Words!set(@, i),
            !.best_index[s] = IF @ = NoIndex \/ Book!is_better(s, i, @) THEN i ELSE @]

note_maybe_empty(m, s, i) ==
  LET cleared == Words!clear(m.occupied[s], i)
  IN  IF m.levels[s][i].order_count # 0 THEN m
      ELSE [m EXCEPT !.occupied[s] = cleared,
                     !.best_index[s] = IF @ = i THEN next_after(s, cleared, i) ELSE @]

\* The indices that for_each_level visits, best first.
for_each_level(m, s) ==
  LET visited[k \in 0 .. NumLevels] ==
        IF k = 0 THEN << >>
        ELSE LET v == visited[k - 1]
                 i == IF v = << >> THEN m.best_index[s]
                                   ELSE next_after(s, m.occupied[s], Last(v))
             IN  IF i = NoIndex \/ Len(v) < k - 1 THEN v ELSE Append(v, i)
  IN  visited[NumLevels]

-----------------------------------------------------------------------------
(* The operations of OrderBook.                                            *)

find(m, id) == IF id \in DOMAIN m.order_index THEN m.order_index[id] ELSE null

Failed(m, err) == [error |-> err, mem |-> m]

Done(m) == [error |-> "None", mem |-> m]

add(m, o) ==
  LET index == Book!index_of(o.price)
      a == Pool!allocate(m.pool)
      stored == [m EXCEPT !.pool = a.pool,
                          !.nodes[a.slot] = [order |-> o, level_index |-> index,
                                             prev |-> null, next |-> null]]
      pushed == level_push_back(stored, o.side, index, a.slot)
      noted == IF m.levels[o.side][index].order_count = 0
               THEN note_nonempty(pushed, o.side, index) ELSE pushed
  IN  IF o.type # "Limit" THEN Failed(m, "MarketOrderCannotRest")
      ELSE IF o.remaining <= 0 THEN Failed(m, "InvalidQuantity")
      ELSE IF index = NoIndex THEN Failed(m, "PriceOutOfRange")
      ELSE IF find(m, o.id) # null THEN Failed(m, "DuplicateOrderId")
      ELSE IF a.slot = null THEN Failed(m, "PoolExhausted")
      ELSE Done([noted EXCEPT
                   !.order_index = [k \in DOMAIN @ \cup {o.id} |->
                                      IF k = o.id THEN a.slot ELSE @[k]],
                   !.order_count = @ + 1])

free_node(m, n) ==
  [m EXCEPT !.pool = Pool!deallocate(@, n), !.nodes[n] = Freed]

unlink_and_free(m, n) ==
  LET node == m.nodes[n]
      s == node.order.side
      i == node.level_index
  IN  free_node(note_maybe_empty(level_unlink(m, s, i, n), s, i), n)

erase(m, id) ==
  [m EXCEPT !.order_index = [k \in DOMAIN @ \ {id} |-> @[k]], !.order_count = @ - 1]

cancel(m, id) ==
  LET n == find(m, id)
  IN  IF n = null THEN Failed(m, "NotFound") ELSE Done(erase(unlink_and_free(m, n), id))

reduce_quantity(m, id, fill) ==
  LET n == find(m, id)
      node == m.nodes[n]
      s == node.order.side
      i == node.level_index
      fully_filled == fill = node.order.remaining
      unlinked == [level_unlink(m, s, i, n) EXCEPT !.nodes[n].order.remaining = @ - fill]
  IN  IF n = null THEN Failed(m, "NotFound")
      ELSE IF fill <= 0 \/ fill > node.order.remaining
      THEN Failed(m, "InvalidFillAmount")
      ELSE Done(IF fully_filled
                THEN free_node(erase(note_maybe_empty(unlinked, s, i), id), n)
                ELSE [m EXCEPT !.nodes[n].order.remaining = @ - fill,
                               !.levels[s][i].total_quantity = @ - fill])

replace(m, id, p, q, seq) ==
  LET n == find(m, id)
      added == add(erase(unlink_and_free(m, n), id),
                   Book!Updated(m.nodes[n].order, p, q, seq))
  IN  IF n = null THEN Failed(m, "NotFound")
      ELSE IF q <= 0 THEN Failed(m, "InvalidQuantity")
      ELSE IF Book!index_of(p) = NoIndex THEN Failed(m, "PriceOutOfRange")
      ELSE IF added.error # "None" THEN Failed(added.mem, "PoolExhausted")
      ELSE added

-----------------------------------------------------------------------------
NodeInit == Session!Init /\ mem = EmptyMemory /\ error = "None"

Returns(r) == mem' = r.mem /\ error' = r.error

Add(t) ==
  Session!Add(t) /\ Returns(add(mem, Book!Sequenced(t, next_sequence)))

Cancel(id) == Session!Cancel(id) /\ Returns(cancel(mem, id))

ReduceQuantity(id, q) ==
  Session!ReduceQuantity(id, q) /\ Returns(reduce_quantity(mem, id, q))

Replace(id, p, q) ==
  Session!Replace(id, p, q) /\ Returns(replace(mem, id, p, q, next_sequence))

NodeNext ==
  \/ \E t \in NewOrders : Add(t)
  \/ \E id \in OrderIds : Cancel(id)
  \/ \E id \in OrderIds, q \in Quantities : ReduceQuantity(id, q)
  \/ \E id \in OrderIds, p \in Prices, q \in Quantities : Replace(id, p, q)

-----------------------------------------------------------------------------
(* What the memory stands for.                                             *)

\* The slots on the list of a level from head to tail, cut off after one more
\* than there are slots.
Chain(m, lvl) ==
  LET walk[k \in 0 .. MaxOrders + 1] ==
        IF k = 0 THEN << >>
        ELSE LET w == walk[k - 1]
                 n == IF w = << >> THEN lvl.head ELSE m.nodes[Last(w)].next
             IN  IF n = null \/ Len(w) < k - 1 THEN w ELSE Append(w, n)
  IN  walk[MaxOrders + 1]

AbstractLevel(lvl) ==
  LET chain == Chain(mem, lvl)
  IN  [fifo |-> [k \in DOMAIN chain |-> mem.nodes[chain[k]].order.id],
       total_quantity |-> lvl.total_quantity,
       order_count |-> lvl.order_count]

AbstractBook ==
  [ladder |-> [s \in Book!Sides |->
                 [levels |-> [i \in Book!Indices |-> AbstractLevel(mem.levels[s][i])],
                  occupied |-> Words!SetBits(mem.occupied[s]),
                  best_index |-> mem.best_index[s]]],
   order_index |-> [id \in DOMAIN mem.order_index |->
                      LET node == mem.nodes[mem.order_index[id]]
                      IN  [order |-> node.order, level_index |-> node.level_index]],
   live_count |-> mem.pool.live_count,
   order_count |-> mem.order_count]

\* Links, free list and bitmap words do, call by call and error by error,
\* what the queues, the node count and the set of occupied levels of
\* BookSession do: a slot is reused only when nothing links to it any more,
\* and the scan of the words finds the best level.
MemoryStandsForBook == AbstractBook = book /\ error = last.error

\* The violations that check_book_invariants lists, by kind.
check_book_invariants(m) ==
  LET bid == m.best_index["Buy"]
      ask == m.best_index["Sell"]
      inLevel(s, i) ==
        LET lvl == m.levels[s][i]
            chain == Chain(m, lvl)
            node(k) == m.nodes[chain[k]]
            prev(k) == IF k = 1 THEN null ELSE chain[k - 1]
            summed == MapThenSumSet(LAMBDA k : node(k).order.remaining, DOMAIN chain)
        IN  {v \in {"remaining", "side", "back-link", "tail", "quantity", "count"} :
               CASE v = "remaining" -> \E k \in DOMAIN chain : node(k).order.remaining <= 0
                 [] v = "side" -> \E k \in DOMAIN chain : node(k).order.side # s
                 [] v = "back-link" -> \E k \in DOMAIN chain : node(k).prev # prev(k)
                 [] v = "tail" -> lvl.tail # prev(Len(chain) + 1)
                 [] v = "quantity" -> lvl.total_quantity # summed
                 [] v = "count" -> lvl.order_count # Len(chain)}
  IN  {v \in {"crossed"} : bid # NoIndex /\ ask # NoIndex /\ bid >= ask}
        \cup UNION UNION {{inLevel(s, i) : i \in Range(for_each_level(m, s))} :
                             s \in Book!Sides}

\* The audit visits every level that has an order, best first, and finds
\* nothing but the crossing of prices that callers of the bare book may bring
\* about: lists can be walked in both directions after any sequence of calls.
AuditFindsNothing ==
  /\ check_book_invariants(mem) \subseteq {"crossed"}
  /\ \A s \in Book!Sides :
       LET seen == for_each_level(mem, s)
       IN  /\ Range(seen) = {i \in Book!Indices : mem.levels[s][i].head # null}
           /\ \A k \in 1 .. Len(seen) - 1 : Book!is_better(s, seen[k], seen[k + 1])
=============================================================================
