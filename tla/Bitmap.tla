------------------------------- MODULE Bitmap -------------------------------
(***************************************************************************)
(* The occupancy bitmap of book/bitmap.hpp, word by word.  A word is the   *)
(* set of the positions of its 1 bits, so that & is \cap and | is \cup;    *)
(* WordBits is 64 in the code.  std::nullopt is None.                      *)
(***************************************************************************)
EXTENDS Integers, FiniteSetsExt

CONSTANTS NumBits, WordBits

None == -1

NumWords == (NumBits + WordBits - 1) \div WordBits

Cleared == [k \in 0 .. NumWords - 1 |-> {}]

set(words, i) == [words EXCEPT ![i \div WordBits] = @ \cup {i % WordBits}]

clear(words, i) == [words EXCEPT ![i \div WordBits] = @ \ {i % WordBits}]

test(words, i) == i % WordBits \in words[i \div WordBits]

\* The mask (1 << n) - 1.  The processor takes the shift count modulo the
\* width of the word: a shift by WordBits is a shift by 0.
LowBits(n) == 0 .. (n % WordBits) - 1

\* A defect in which the shift by the width of the word is not avoided.
first_mask_without_case(bit_in_word) == LowBits(bit_in_word + 1)

first_mask(bit_in_word) ==
  IF bit_in_word = WordBits - 1 THEN 0 .. WordBits - 1 ELSE LowBits(bit_in_word + 1)

find_highest_at_or_below(words, i) ==
  LET last == IF i >= NumBits THEN NumBits - 1 ELSE i
      from == last \div WordBits
      w(k) == IF k = from THEN words[k] \cap first_mask(last % WordBits) ELSE words[k]
      scan[k \in -1 .. from] ==
        IF k < 0 THEN None
        ELSE IF w(k) # {} THEN k * WordBits + Max(w(k)) ELSE scan[k - 1]
  IN  IF NumBits = 0 THEN None ELSE scan[from]

find_lowest_at_or_above(words, i) ==
  LET from == i \div WordBits
      w(k) == IF k = from THEN words[k] \cap (i % WordBits .. WordBits - 1) ELSE words[k]
      scan[k \in from .. NumWords] ==
        IF k >= NumWords THEN None
        ELSE IF w(k) # {} THEN k * WordBits + Min(w(k)) ELSE scan[k + 1]
  IN  IF i >= NumBits THEN None ELSE scan[from]

\* The bits that are set, as a set: what LadderSide takes a bitmap to be.
SetBits(words) == {i \in 0 .. NumBits - 1 : test(words, i)}
=============================================================================
