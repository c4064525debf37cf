-------------------------- MODULE MCMatchingEngine --------------------------
(* Small instances of MatchingEngine for TLC.                              *)
EXTENDS MatchingEngine, TLC

CONSTANTS o1, o2, o3, c1, sym, other

MCOrderIds == {o1, o2, o3}
MCClients == {c1}
MCSymbols == {sym, other}

\* Prices 10, 11 and 12 are on the ladder, 13 is not.
MCPrices == {10, 11, 12, 13}
MCQuantities == {0, 1, 2}

\* Limit orders of every kind at every price, market orders (whose price is
\* ignored), and one order that each early return of submit turns away.
MCNewOrders ==
  [id : OrderIds, client : Clients, symbol : {sym}, side : Sides,
   type : {"Limit"}, tif : {"Day"}, price : {10, 11, 12, 13}, quantity : {1, 2}]
  \cup
  [id : OrderIds, client : Clients, symbol : {sym}, side : Sides,
   type : {"Limit"}, tif : {"IOC", "FOK"}, price : {10, 12}, quantity : {2}]
  \cup
  [id : OrderIds, client : Clients, symbol : {sym}, side : Sides,
   type : {"Market"}, tif : {"Day", "FOK"}, price : {10}, quantity : {2}]
  \cup
  [id : OrderIds, client : Clients, symbol : {other}, side : {"Buy"},
   type : {"Limit"}, tif : {"Day"}, price : {10}, quantity : {0}]
  \cup
  [id : OrderIds, client : Clients, symbol : {sym}, side : {"Buy"},
   type : {"Limit"}, tif : {"Day"}, price : {10}, quantity : {0}]

Perms == Permutations(OrderIds)
=============================================================================
