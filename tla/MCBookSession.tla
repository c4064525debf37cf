---------------------------- MODULE MCBookSession ----------------------------
(***************************************************************************)
(* Small instances of the book and of its data structures for TLC: the     *)
(* session of BookSession, run in step with the memory of NodeBook, and    *)
(* the pool, the price indices and the histogram on their own.  The last   *)
(* three have nothing to do with the first: subject says what a behaviour  *)
(* exercises, so that the state spaces add up instead of multiplying.      *)
(***************************************************************************)
EXTENDS BookSession, SlabPoolSession, PriceIndexVariants, LatencyHistogram, TLC

CONSTANTS o1, o2, o3, o4, c1, sym, WordBits

VARIABLES mem, error, subject

Memory == INSTANCE NodeBook

bookVars == <<book, next_sequence, last, mem, error>>

MCOrderIds == {o1, o2, o3, o4}
MCClients == {c1}
MCSymbols == {sym}

\* Prices 10 to 12 are on the ladder, 9 and 13 are not.
MCPrices == {10, 12, 13}
MCQuantities == {0, 1, 2}

\* Limit orders that rest, one off the ladder, one without a quantity, and a
\* market order, which add refuses.
MCNewOrders ==
  [id : OrderIds, client : Clients, symbol : Symbols, side : Sides,
   type : {"Limit"}, tif : {"Day"}, price : {10, 12}, quantity : {2}]
  \cup
  [id : OrderIds, client : Clients, symbol : Symbols, side : {"Buy"},
   type : {"Limit", "Market"}, tif : {"Day"}, price : {9}, quantity : {0, 1}]

\* On both sides of the bucket and octave boundaries, and beyond the last.
MCSamples == {-1, 0, 5, 7, 8, 9, 10, 15, 16, 19, 20, 31, 32, 40}
MCPercents == {0, 1, 25, 34, 50, 75, 99, 100}

MCInit ==
  /\ subject \in {"book", "pool", "index", "histogram"}
  /\ Memory!NodeInit
  /\ PoolInit
  /\ IndexInit
  /\ HistInit

MCNext ==
  /\ UNCHANGED subject
  /\ \/ /\ subject = "book"
        /\ Memory!NodeNext
        /\ UNCHANGED <<poolVars, indexVars, histVars>>
     \/ /\ subject = "pool"
        /\ PoolNext
        /\ UNCHANGED <<bookVars, indexVars, histVars>>
     \/ /\ subject = "index"
        /\ IndexNext
        /\ UNCHANGED <<bookVars, poolVars, histVars>>
     \/ /\ subject = "histogram"
        /\ HistNext
        /\ UNCHANGED <<bookVars, poolVars, indexVars>>

MCSpec == MCInit /\ [][MCNext]_<<subject, bookVars, poolVars, indexVars, histVars>>

\* After every call the memory of NodeBook stands for the book of BookSession,
\* and both calls returned the same error.
MemoryStandsForBook == Memory!MemoryStandsForBook

\* The audit of correctness/invariants.hpp, run on that memory, is clean.
AuditFindsNothing == Memory!AuditFindsNothing

Perms == Permutations(OrderIds)
=============================================================================
