----------------------------- MODULE BookSession -----------------------------
(***************************************************************************)
(* Any sequence of calls on an OrderBook (book/order_book.hpp), made by    *)
(* the one thread that owns it.  Unlike the matching engine, which only    *)
(* adds what does not cross and only reduces the front of a queue, the     *)
(* callers here add, cancel, reduce and replace any order they like: the   *)
(* book promises to stay consistent whatever they do.                      *)
(***************************************************************************)
EXTENDS OrderBook

CONSTANTS NewOrders,     \* the orders a caller may add
          Prices,        \* new prices of a replace
          Quantities,    \* quantities of a reduce or a replace
          MaxSequence    \* bound: sequence numbers given out

ASSUME SessionAssumption ==
  /\ NewOrders \subseteq Terms
  /\ Prices \subseteq Int
  /\ Quantities \subseteq Int
  /\ MaxSequence \in Nat

VARIABLES book,
          next_sequence,  \* of the callers' sequencer
          last            \* the last call: its operation, order and error

vars == <<book, next_sequence, last>>

NoCall == [op |-> "none", error |-> "None"]

Init == book = EmptyBook /\ next_sequence = 1 /\ last = NoCall

\* The call of op on order id returns r.
Returns(op, id, r) ==
  /\ book' = r.book
  /\ last' = [op |-> op, id |-> id, error |-> r.error]

TakesSequence ==
  next_sequence <= MaxSequence /\ next_sequence' = next_sequence + 1

Add(t) ==
  TakesSequence /\ Returns("add", t.id, add(book, Sequenced(t, next_sequence)))

Cancel(id) ==
  Returns("cancel", id, cancel(book, id)) /\ UNCHANGED next_sequence

ReduceQuantity(id, fill) ==
  Returns("reduce", id, reduce_quantity(book, id, fill)) /\ UNCHANGED next_sequence

Replace(id, p, q) ==
  TakesSequence /\ Returns("replace", id, replace(book, id, p, q, next_sequence))

Next ==
  \/ \E t \in NewOrders : Add(t)
  \/ \E id \in OrderIds : Cancel(id)
  \/ \E id \in OrderIds, q \in Quantities : ReduceQuantity(id, q)
  \/ \E id \in OrderIds, p \in Prices, q \in Quantities : Replace(id, p, q)

Spec == Init /\ [][Next]_vars

-----------------------------------------------------------------------------
TypeOK ==
  /\ Resting(book) \subseteq OrderIds
  /\ book \in BookWith(Resting(book))
  /\ next_sequence \in Nat

\* Whatever the callers do, queues, index, bitmaps, best prices and pool
\* agree (what check_book_invariants audits, but for the crossing of prices,
\* which a caller may bring about).
BookStructured == Structured(book)

\* The aggregate quantity of every level is that of the orders queued in it.
QuantitiesAgree == QuantitiesMatchQueues(book)

\* A call that returns an error has changed nothing; of replace, which takes
\* the order out before it adds it again, this says that the branch the code
\* keeps as a defence is never taken.
ErrorChangesNothing == [][last'.error # "None" => book' = book]_vars

\* Of two orders in one queue the first stays before the second for as long
\* as both rest there, unless it is replaced: a partial fill, or whatever
\* happens to another order, costs it no time priority.
PriorityKept ==
  [][\A s \in Sides, i \in Indices :
       LET old == book.ladder[s].levels[i].fifo
           new == book'.ladder[s].levels[i].fifo
       IN  \A j, k \in DOMAIN old, m, n \in DOMAIN new :
             /\ j < k /\ m < n
             /\ old[j] = new[n] /\ old[k] = new[m]
             => last'.op = "replace" /\ last'.id = old[j]]_vars
=============================================================================
