-------------------------- MODULE MCMarketDataFeed --------------------------
(* A small instance of MarketDataFeed for TLC.                             *)
EXTENDS MarketDataFeed

MCLevelStates ==
  {NoLevel, [total_quantity |-> 2, order_count |-> 1], [total_quantity |-> 3, order_count |-> 2]}
=============================================================================
