----------------------------- MODULE LadderSide -----------------------------
(***************************************************************************)
(* One side of a symbol's price ladder (LadderSide in                      *)
(* book/order_book.hpp), the price levels it is made of                    *)
(* (book/price_level.hpp) and the queries of its occupancy bitmap          *)
(* (book/bitmap.hpp).                                                      *)
(*                                                                         *)
(* The C++ class is a template on IsBid; here every operator that depends  *)
(* on the direction takes the side s.  A level's intrusive list is the     *)
(* sequence of its order ids from head to tail, the bitmap is the set of   *)
(* its set bits, and std::nullopt is NoIndex.                              *)
(***************************************************************************)
EXTENDS Integers, Sequences, FiniteSetsExt, Functions

CONSTANTS OrderIds,   \* every OrderId a request may carry
          NumLevels   \* number of representable prices

ASSUME LadderAssumption == NumLevels \in Nat \ {0}

Sides == {"Buy", "Sell"}

opposite(s) == IF s = "Buy" THEN "Sell" ELSE "Buy"

Indices == 0 .. NumLevels - 1

NoIndex == -1

PriceLevel == [fifo : Seq(OrderIds), total_quantity : Int, order_count : Int]

Ladder == [levels : [Indices -> PriceLevel],
           occupied : SUBSET Indices,
           best_index : Indices \cup {NoIndex}]

EmptyLevel == [fifo |-> << >>, total_quantity |-> 0, order_count |-> 0]

EmptyLadder == [levels |-> [i \in Indices |-> EmptyLevel],
                occupied |-> {},
                best_index |-> NoIndex]

-----------------------------------------------------------------------------
(* Price levels.                                                           *)

empty(lvl) == lvl.order_count = 0

\* A defect in which a new order goes to the head of the queue.
level_push_front(lvl, order) ==
  [fifo |-> <<order.id>> \o lvl.fifo,
   total_quantity |-> lvl.total_quantity + order.remaining,
   order_count |-> lvl.order_count + 1]

level_push_back(lvl, order) ==
  [fifo |-> Append(lvl.fifo, order.id),
   total_quantity |-> lvl.total_quantity + order.remaining,
   order_count |-> lvl.order_count + 1]

\* Where an id sits in a queue.
Position(fifo, id) == CHOOSE k \in 1 .. Len(fifo) : fifo[k] = id

\* The queue q without its entry n.
RemovedAt(q, n) == SubSeq(q, 1, n - 1) \o SubSeq(q, n + 1, Len(q))

level_unlink(lvl, order) ==
  [fifo |-> RemovedAt(lvl.fifo, Position(lvl.fifo, order.id)),
   total_quantity |-> lvl.total_quantity - order.remaining,
   order_count |-> lvl.order_count - 1]

-----------------------------------------------------------------------------
(* The occupancy bitmap: the highest set bit at or below i, the lowest at  *)
(* or above i.                                                             *)

find_highest_at_or_below(bits, i) ==
  LET below == {j \in bits : j <= i}
  IN  IF below = {} THEN NoIndex ELSE Max(below)

find_lowest_at_or_above(bits, i) ==
  LET above == {j \in bits : j >= i}
  IN  IF above = {} THEN NoIndex ELSE Min(above)

-----------------------------------------------------------------------------
(* The best price of a side and how it moves.                              *)

is_better(s, i, j) == IF s = "Buy" THEN i > j ELSE i < j

next_after(s, bits, i) ==
  IF s = "Buy" THEN find_highest_at_or_below(bits, i - 1)
               ELSE find_lowest_at_or_above(bits, i + 1)

\* A defect in which the first occupied price stays the best one.
note_nonempty_keeping_best(s, l, i) ==
  [l EXCEPT !.occupied = @ \cup {i},
            !.best_index = IF @ = NoIndex THEN i ELSE @]

note_nonempty(s, l, i) ==
  [l EXCEPT !.occupied = @ \cup {i},
            !.best_index = IF @ = NoIndex \/ is_better(s, i, @) THEN i ELSE @]

\* A defect in which the vacated level keeps its bit in the bitmap.
note_maybe_empty_without_clear(s, l, i) ==
  IF ~empty(l.levels[i])
  THEN l
  ELSE [l EXCEPT !.best_index = IF @ = i THEN next_after(s, l.occupied, i) ELSE @]

\* A defect in which the best price moves to the neighbouring level without
\* a scan of the bitmap.
note_maybe_empty_stepping(s, l, i) ==
  IF ~empty(l.levels[i])
  THEN l
  ELSE [l EXCEPT !.occupied = @ \ {i},
                 !.best_index = IF @ = i THEN (IF s = "Buy" THEN i - 1 ELSE i + 1)
                                         ELSE @]

note_maybe_empty(s, l, i) ==
  IF ~empty(l.levels[i])
  THEN l
  ELSE [l EXCEPT !.occupied = @ \ {i},
                 !.best_index = IF @ = i THEN next_after(s, l.occupied \ {i}, i)
                                         ELSE @]

\* What a side becomes when o is queued at the back of level i.
PushInto(s, l, i, o) ==
  LET pushed == [l EXCEPT !.levels[i] = level_push_back(@, o)]
  IN  IF empty(l.levels[i]) THEN note_nonempty(s, pushed, i) ELSE pushed

\* What a side becomes when o leaves level i.
UnlinkFrom(s, l, i, o) ==
  note_maybe_empty(s, [l EXCEPT !.levels[i] = level_unlink(@, o)], i)
=============================================================================
