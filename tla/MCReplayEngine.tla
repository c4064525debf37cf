--------------------------- MODULE MCReplayEngine ---------------------------
(* Small instances of ReplayEngine for TLC.                                *)
EXTENDS ReplayEngine, TLC

CONSTANTS o1, o2, o3, c1, c2, sym, other

MCOrderIds == {o1, o2, o3}
MCClients == {c1, c2}
MCSymbols == {sym, other}

\* Prices 10 and 11 are on the ladder, 12 is not.
MCPrices == {11, 12}
MCQuantities == {0, 2}
MCMaxLoss == 0

\* c1 uses the id o1 and c2 the ids o2 and o3, so that c2 may trade with
\* itself.
Owned(terms) == {t \in terms : t.client = IF t.id = o1 THEN c1 ELSE c2}

\* Day orders at both prices, immediate-or-cancel orders, market orders that
\* the size limit and the symbol check turn away.
MCNewOrders ==
  Owned(
    [id : OrderIds, client : Clients, symbol : {sym}, side : Sides,
     type : {"Limit"}, tif : {"Day"}, price : {10, 11}, quantity : {1, 2}]
    \cup
    [id : OrderIds, client : Clients, symbol : {sym}, side : Sides,
     type : {"Limit"}, tif : {"IOC"}, price : {11}, quantity : {2}]
    \cup
    [id : OrderIds, client : Clients, symbol : {sym, other}, side : {"Buy"},
     type : {"Market"}, tif : {"IOC"}, price : {0}, quantity : {1, 3}])

Perms == Permutations({o2, o3})
=============================================================================
