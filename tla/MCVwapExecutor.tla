--------------------------- MODULE MCVwapExecutor ---------------------------
(* An instance of VwapExecutor for TLC: the first number of slices, 43, for *)
(* which some parent order, of 18, comes out of the curve too large.        *)
EXTENDS VwapExecutor, TLC

CONSTANTS offered, buyer, seller, sym

MCOrderIds == {offered} \cup 1 .. 43

\* 1 + cos(2 pi i / 42) in thousandths, for i up to the middle and back.
FirstHalf ==
  <<2000, 1989, 1956, 1901, 1826, 1733, 1623, 1500, 1365, 1223, 1075,
    925, 777, 635, 500, 377, 267, 174, 99, 44, 11>>

MCWeights == FirstHalf \o <<0>> \o Reverse(FirstHalf)

\* More for sale, at the limit of the parent order, than it asks for.
MCNewOrders ==
  {[id |-> offered, client |-> seller, symbol |-> sym, side |-> "Sell",
    type |-> "Limit", tif |-> "Day", price |-> 10, quantity |-> 20]}
=============================================================================
