---------------------------- MODULE VwapExecutor ----------------------------
(***************************************************************************)
(* The VWAP executor (strategy/vwap.hpp): it slices a parent order along a *)
(* volume curve and submits each slice to the matching engine, among the   *)
(* orders of others.                                                       *)
(***************************************************************************)
EXTENDS MatchingEngine, SequencesExt

CONSTANTS Executor,         \* its client id
          Weights,          \* the curve 1 + cos(2 pi t), in some integer unit:
                            \* naturals, the first of them positive
          FirstChildId,     \* the children's ids start here, all in OrderIds
          parent_side, total_quantity, limit_price   \* VwapConfig

VARIABLES slices_sent,
          executed        \* what the slices traded

vwapVars == <<vars, slices_sent, executed>>

num_slices == Len(Weights)

Total(seq) == FoldSeq(LAMBDA x, y : x + y, 0, seq)

\* llround(total_quantity * (weight / sum)): to the nearest integer, halves up.
Share(w, sum) == (2 * total_quantity * w + sum) \div (2 * sum)

\* All but the last slice have their share, and the last one what is left.
build_slice_sizes ==
  LET sum == Total(Weights)
      shares == [i \in 1 .. num_slices - 1 |-> Share(Weights[i], sum)]
  IN  Append(shares, total_quantity - Total(shares))

done == slices_sent >= num_slices

next_slice ==
  [id |-> FirstChildId + slices_sent, client |-> Executor, symbol |-> Symbol,
   side |-> parent_side, type |-> "Limit", tif |-> "IOC", price |-> limit_price,
   quantity |-> build_slice_sizes[slices_sent + 1]]

VwapInit == Init /\ slices_sent = 0 /\ executed = 0

SendSlice ==
  /\ ~done
  /\ Submit(next_slice)
  /\ slices_sent' = slices_sent + 1
  /\ UNCHANGED executed

\* Calls of others, and the rest of any call.
Trade ==
  /\ \/ (\E t \in NewOrders : Submit(t)) /\ UNCHANGED executed
     \/ /\ MatchOne
        /\ executed' = IF aggressor.client = Executor
                       THEN executed + Last(fills').quantity ELSE executed
     \/ FinishSubmit /\ UNCHANGED executed
  /\ UNCHANGED slices_sent

VwapNext == SendSlice \/ Trade

VwapSpec == VwapInit /\ [][VwapNext]_vwapVars

-----------------------------------------------------------------------------
\* The slices never trade more than the parent order.  vwap.hpp has the last
\* slice take "whatever's left over so the total always reconciles exactly
\* regardless of rounding"; when the others were rounded up by more than its
\* own share its quantity is negative, which submit rejects, and what was
\* traded too much before is not undone.
ParentNotExceeded == executed <= total_quantity
=============================================================================
