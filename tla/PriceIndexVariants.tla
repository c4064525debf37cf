------------------------- MODULE PriceIndexVariants -------------------------
(***************************************************************************)
(* The three price indices of book/price_index_variants.hpp, fed with the  *)
(* same insertions and erasures: the bitmap ladder, the ordered tree and   *)
(* the sorted vector.                                                      *)
(***************************************************************************)
EXTENDS Integers, Sequences, FiniteSetsExt

CONSTANTS NumPrices, IndexWordBits

ASSUME IndexAssumption == NumPrices \in Nat /\ IndexWordBits \in Nat \ {0}

VARIABLES ladder,   \* LadderIndexVariant: occupied_ and best_
          tree,     \* TreeIndexVariant: set_
          flat      \* FlatIndexVariant: v_

indexVars == <<ladder, tree, flat>>

Bits == INSTANCE Bitmap WITH NumBits <- NumPrices, WordBits <- IndexWordBits

None == Bits!None

IndexInit ==
  /\ ladder = [occupied |-> Bits!Cleared, best |-> None]
  /\ tree = {}
  /\ flat = << >>

ladder_insert(l, p) ==
  [occupied |-> Bits!set(l.occupied, p),
   best |-> IF l.best = None \/ p > l.best THEN p ELSE l.best]

ladder_erase(l, p) ==
  LET cleared == Bits!clear(l.occupied, p)
  IN  [occupied |-> cleared,
       best |-> IF l.best # p THEN l.best
                ELSE IF p = 0 THEN None
                ELSE Bits!find_highest_at_or_below(cleared, p - 1)]

\* The position of the first element that is not below p, one past the end
\* when there is none.
lower_bound(v, p) == Min({k \in DOMAIN v : v[k] >= p} \cup {Len(v) + 1})

\* std::vector's insert and erase at a position.
insert_at(v, k, p) == SubSeq(v, 1, k - 1) \o <<p>> \o SubSeq(v, k, Len(v))

erase_at(v, k) == SubSeq(v, 1, k - 1) \o SubSeq(v, k + 1, Len(v))

Holds(v, k, p) == k <= Len(v) /\ v[k] = p

\* A defect in which a price that is already there is inserted again.
flat_insert_again(v, p) == insert_at(v, lower_bound(v, p), p)

flat_insert(v, p) ==
  LET k == lower_bound(v, p)
  IN  IF Holds(v, k, p) THEN v ELSE insert_at(v, k, p)

flat_erase(v, p) ==
  LET k == lower_bound(v, p)
  IN  IF Holds(v, k, p) THEN erase_at(v, k) ELSE v

Insert(p) ==
  /\ ladder' = ladder_insert(ladder, p)
  /\ tree' = tree \cup {p}
  /\ flat' = flat_insert(flat, p)

Erase(p) ==
  /\ ladder' = ladder_erase(ladder, p)
  /\ tree' = tree \ {p}
  /\ flat' = flat_erase(flat, p)

IndexNext == \E p \in 0 .. NumPrices - 1 : Insert(p) \/ Erase(p)

IndexSpec == IndexInit /\ [][IndexNext]_indexVars

ladder_best(l) == l.best

tree_best(t) == IF t = {} THEN None ELSE Max(t)

flat_best(v) == IF v = << >> THEN None ELSE v[Len(v)]

\* After the same insertions and erasures, in any order and with repetitions,
\* the three structures answer best() alike: the scan of the bitmap finds the
\* next price wherever the word boundaries fall, and the vector keeps each
\* price once.
VariantsAgree ==
  /\ ladder_best(ladder) = tree_best(tree)
  /\ flat_best(flat) = tree_best(tree)
=============================================================================
