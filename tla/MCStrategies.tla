---------------------------- MODULE MCStrategies ----------------------------
(***************************************************************************)
(* Small instances of the strategies for TLC: the market maker in one      *)
(* market, the arbitrage between two.  subject says which of them trades   *)
(* in a behaviour, so that the state spaces add up.                        *)
(***************************************************************************)
EXTENDS MarketMaker, Arbitrage, TLC

CONSTANTS o1, o2, quoter, pair_trader, others, sym_a, sym_b,
          MaxArbitrageSequence   \* bound: sequence numbers, with two venues

VARIABLE subject

MCClients == {quoter, pair_trader, others}
MCSymbols == {sym_a, sym_b}
MCOrderIds == {o1, o2} \cup 1 .. 5

Asked(sides, prices, quantities) ==
  [id : {o1, o2}, client : {others}, symbol : {sym_a}, side : sides,
   type : {"Limit"}, tif : {"Day"}, price : prices, quantity : quantities]

\* The maker starts at 11 and 13.  Orders that trade with its quotes wholly
\* or in part and rest beyond them, and one that moves the mid.
MCNewOrders ==
  Asked({"Sell"}, {10}, {1, 2}) \cup Asked({"Sell"}, {12}, {1})
    \cup Asked({"Buy"}, {14}, {1, 2})

\* Edges of 2, in either direction, and of 1, which is below the threshold.
MCVenueOrders ==
  Asked({"Sell"}, {10}, {1}) \cup Asked({"Sell"}, {11}, {2}) \cup Asked({"Buy"}, {12}, {2})

MCInit ==
  /\ subject \in {"maker", "arbitrage"}
  /\ MakerInit
  /\ ArbitrageInit

MCNext ==
  /\ UNCHANGED subject
  /\ \/ /\ subject = "maker"
        /\ MakerNext
        /\ UNCHANGED <<venueVarsB, strategyVars>>
     \/ /\ subject = "arbitrage"
        /\ ArbitrageNext
        /\ next_sequence' <= MaxArbitrageSequence + 1
        /\ UNCHANGED <<maker, inventory, pending>>

MCSpec == MCInit /\ [][MCNext]_<<subject, makerVars, arbitrageVars>>

Perms == Permutations({o1, o2})
=============================================================================
