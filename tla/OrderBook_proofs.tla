-------------------------- MODULE OrderBook_proofs --------------------------
(***************************************************************************)
(* What the operations of a ladder side and of a book preserve, for every  *)
(* number of levels, every capacity and every set of order ids: the scan   *)
(* of the bitmap finds the next best level, and queues, index, bitmap,     *)
(* best index and pool stay in step.  The proofs about BookSession and     *)
(* MatchingEngine rest on these lemmas.                                    *)
(***************************************************************************)
EXTENDS OrderBook, TLAPS, FiniteSetTheorems

\* A leaf is tried with the SMT solver, which gets more time than it has by
\* default, and then with Zenon.
USE SMTT(20), ZenonT(30), SMTT(21), SMTT(22)

-----------------------------------------------------------------------------
(* Sums over finite sets.                                                  *)

\* A nonempty set of natural numbers has a least element.
LEMMA LeastNatural ==
  ASSUME NEW T \in SUBSET Nat, T # {}
  PROVE  \E x \in T : \A y \in T : x <= y
<1> DEFINE R == {ss \in Nat \X Nat : ss[1] < ss[2]}
<1>1. IsWellFoundedOn(R, Nat)
  BY NatLessThanWellFounded DEF OpToRel
<1>2. \A x, y \in Nat : y < x => <<y, x>> \in R
  OBVIOUS
<1> HIDE DEF R
<1>3. PICK x \in T : \A y \in T : ~(<<y, x>> \in R)
  BY <1>1, WFMin, Zenon
<1>4. ASSUME NEW y \in T PROVE x <= y
  <2>1. x \in Nat /\ y \in Nat /\ ~(<<y, x>> \in R)
    BY <1>3
  <2>2. ~(y < x)
    BY <2>1, <1>2
  <2> QED
    BY <2>1, <2>2
<1> QED
  BY <1>4

\* The member of a set that a fold takes first.
Pick(s) == CHOOSE x \in s : TRUE

\* g maps each of the sets to the sum of f over it, taking out one member after
\* the other.
Sums(g, f, sets) ==
  g = [s \in sets |-> IF s = {} THEN 0 ELSE f[Pick(s)] + g[s \ {Pick(s)}]]

\* What the definition of SumFunctionOnSet comes to.
LEMMA SumUnfolds ==
  ASSUME NEW f, NEW S
  PROVE  SumFunctionOnSet(f, S) = (CHOOSE g : Sums(g, f, SUBSET S))[S]
  BY DEF SumFunctionOnSet, FoldFunctionOnSet, MapThenFoldSet, Sums, Pick

\* A set is larger by one than what is left when a member is taken out.
LEMMA Smaller ==
  ASSUME NEW s, IsFiniteSet(s), s # {}
  PROVE  /\ Pick(s) \in s
         /\ \A x \in s : /\ IsFiniteSet(s \ {x})
                         /\ Cardinality(s \ {x}) = Cardinality(s) - 1
         /\ Cardinality(s) \in Nat \ {0}
  BY FS_RemoveElement, FS_CardinalityType, FS_EmptySet DEF Pick

\* The subsets of S with at most n members.
SetsUpTo(S, n) == {s \in SUBSET S : Cardinality(s) <= n}

\* Such a function exists: it is built up along the size of the sets.
LEMMA SumsExist ==
  ASSUME NEW f, NEW S, IsFiniteSet(S)
  PROVE  \E g : Sums(g, f, SUBSET S)
<1> DEFINE Has(n) == \E g : Sums(g, f, SetsUpTo(S, n))
           Bad == {n \in Nat : ~Has(n)}
<1>1. \A s \in SUBSET S : IsFiniteSet(s) /\ Cardinality(s) \in Nat /\ Cardinality(s) <= Cardinality(S)
  BY FS_Subset, FS_CardinalityType
<1>2. Has(0)
  <2> DEFINE g == [s \in SetsUpTo(S, 0) |-> 0]
  <2>1. \A s \in SetsUpTo(S, 0) : s = {}
    BY <1>1, FS_EmptySet DEF SetsUpTo
  <2>2. g = [s \in SetsUpTo(S, 0) |-> IF s = {} THEN 0 ELSE f[Pick(s)] + g[s \ {Pick(s)}]]
    BY <2>1
  <2> QED BY <2>2 DEF Sums
<1>3. ASSUME NEW n \in Nat, Has(n) PROVE Has(n + 1)
  <2>1. PICK g : Sums(g, f, SetsUpTo(S, n))
    BY <1>3
  <2> DEFINE h == [s \in SetsUpTo(S, n + 1) |->
                     IF s = {} THEN 0 ELSE f[Pick(s)] + g[s \ {Pick(s)}]]
  <2>2. ASSUME NEW s \in SetsUpTo(S, n + 1), s # {}
        PROVE  /\ s \ {Pick(s)} \in SetsUpTo(S, n)
               /\ s \ {Pick(s)} \in SetsUpTo(S, n + 1)
    BY <1>1, <2>2, Smaller DEF SetsUpTo
  <2>3. ASSUME NEW s \in SetsUpTo(S, n) PROVE s \in SetsUpTo(S, n + 1) /\ h[s] = g[s]
    <3>1. s \in SetsUpTo(S, n + 1)
      BY <1>1 DEF SetsUpTo
    <3> QED BY <2>1, <3>1, Zenon DEF Sums
  <2>4. h = [s \in SetsUpTo(S, n + 1) |->
               IF s = {} THEN 0 ELSE f[Pick(s)] + h[s \ {Pick(s)}]]
    <3> DEFINE k == [s \in SetsUpTo(S, n + 1) |->
                 IF s = {} THEN 0 ELSE f[Pick(s)] + h[s \ {Pick(s)}]]
    <3>1. ASSUME NEW s \in SetsUpTo(S, n + 1) PROVE h[s] = k[s]
      BY <2>2, <2>3, Zenon
    <3> QED BY <3>1, Zenon
  <2> HIDE DEF h
  <2> QED BY <2>4, Zenon DEF Sums
<1>4. Bad = {}
  <2> SUFFICES ASSUME Bad # {} PROVE FALSE
    OBVIOUS
  <2>1. PICK m \in Bad : \A n \in Bad : m <= n
    BY LeastNatural, Zenon
  <2>2. m \in Nat /\ m # 0 /\ ~Has(m)
    BY <1>2, <2>1
  <2>3. m - 1 \in Nat /\ ~(m - 1 \in Bad)
    BY <2>1, <2>2
  <2>4. Has(m - 1) /\ m - 1 + 1 = m
    BY <2>2, <2>3
  <2> QED BY <1>3, <2>2, <2>3, <2>4
<1>5. Has(Cardinality(S))
  BY <1>4, FS_CardinalityType
<1>6. SetsUpTo(S, Cardinality(S)) = SUBSET S
  BY <1>1 DEF SetsUpTo
<1> QED BY <1>5, <1>6

\* Induction over the subsets of a finite set, with a set B in the place of a
\* predicate.
LEMMA SubsetInduction ==
  ASSUME NEW S, IsFiniteSet(S), NEW B,
         \A s \in SUBSET S : (\A x \in s : s \ {x} \in B) => s \in B
  PROVE  \A s \in SUBSET S : s \in B
<1> DEFINE Bad == {Cardinality(s) : s \in (SUBSET S) \ B}
<1>1. \A s \in SUBSET S : IsFiniteSet(s) /\ Cardinality(s) \in Nat
  BY FS_Subset, FS_CardinalityType
<1> SUFFICES ASSUME Bad # {} PROVE FALSE
  OBVIOUS
<1>2. Bad \in SUBSET Nat
  BY <1>1
<1>3. PICK m \in Bad : \A n \in Bad : m <= n
  <2> HIDE DEF Bad
  <2> QED BY <1>2, LeastNatural
<1>4. PICK s \in (SUBSET S) \ B : m = Cardinality(s)
  BY <1>3
<1>5. PICK x \in s : s \ {x} \notin B
  BY <1>4, Zenon
<1>6. Cardinality(s \ {x}) = m - 1 /\ m \in Nat /\ s \ {x} \in SUBSET S
  BY <1>1, <1>4, Smaller
<1>7. m - 1 \in Bad
  BY <1>5, <1>6
<1> QED BY <1>3, <1>6, <1>7

\* The functions that sum f agree on their common sets.
LEMMA SumsAgree ==
  ASSUME NEW f, NEW S, NEW T \in SUBSET S, IsFiniteSet(T)
  PROVE  \A F, G : Sums(F, f, SUBSET S) /\ Sums(G, f, SUBSET T) => F[T] = G[T]
<1> SUFFICES ASSUME NEW F, NEW G, Sums(F, f, SUBSET S), Sums(G, f, SUBSET T)
             PROVE  F[T] = G[T]
  OBVIOUS
<1> DEFINE B == {s \in SUBSET T : F[s] = G[s]}
<1>1. ASSUME NEW s \in SUBSET T, \A x \in s : s \ {x} \in B PROVE s \in B
  <2>1. s \in SUBSET S
    OBVIOUS
  <2>2. /\ F[s] = IF s = {} THEN 0 ELSE f[Pick(s)] + F[s \ {Pick(s)}]
        /\ G[s] = IF s = {} THEN 0 ELSE f[Pick(s)] + G[s \ {Pick(s)}]
    BY <2>1, Zenon DEF Sums
  <2>3. s # {} => Pick(s) \in s
    BY DEF Pick
  <2> QED BY <1>1, <2>2, <2>3
<1>2. \A s \in SUBSET T : (\A x \in s : s \ {x} \in B) => s \in B
  BY <1>1
<1>3. T \in B
  <2> HIDE DEF B
  <2>1. \A s \in SUBSET T : s \in B
    BY <1>2, SubsetInduction, Zenon
  <2> QED BY <2>1
<1> QED BY <1>3

\* What the sum over a set is computed from.
LEMMA SumSteps ==
  ASSUME NEW f, NEW S, IsFiniteSet(S)
  PROVE  SumFunctionOnSet(f, S) =
           IF S = {} THEN 0 ELSE f[Pick(S)] + SumFunctionOnSet(f, S \ {Pick(S)})
<1> DEFINE G(T) == CHOOSE g : Sums(g, f, SUBSET T)
<1>1. \A T : IsFiniteSet(T) => Sums(G(T), f, SUBSET T)
  BY SumsExist, Zenon
<1>2. \A T : SumFunctionOnSet(f, T) = G(T)[T]
  BY SumUnfolds
<1>3. G(S)[S] = IF S = {} THEN 0 ELSE f[Pick(S)] + G(S)[S \ {Pick(S)}]
  <2>1. Sums(G(S), f, SUBSET S) /\ S \in SUBSET S
    BY <1>1, Zenon
  <2> HIDE DEF G
  <2> QED BY <2>1, Zenon DEF Sums
<1>4. ASSUME S # {} PROVE G(S)[S \ {Pick(S)}] = G(S \ {Pick(S)})[S \ {Pick(S)}]
  <2> DEFINE T == S \ {Pick(S)}
  <2>1. IsFiniteSet(T) /\ T \in SUBSET S
    BY FS_Subset
  <2>2. Sums(G(S), f, SUBSET S) /\ Sums(G(T), f, SUBSET T)
    BY <1>1, <2>1, Zenon
  <2> HIDE DEF G, T
  <2>3. \A F, H : Sums(F, f, SUBSET S) /\ Sums(H, f, SUBSET T) => F[T] = H[T]
    BY <2>1, SumsAgree, Zenon
  <2>4. G(S)[T] = G(T)[T]
    BY <2>2, <2>3, Zenon
  <2> QED BY <2>4 DEF T
<1> HIDE DEF G
<1> QED BY <1>2, <1>3, <1>4

\* The sum over a set depends on the values there only.
LEMMA SumSame ==
  ASSUME NEW f, NEW g, NEW S, IsFiniteSet(S), \A x \in S : f[x] = g[x]
  PROVE  SumFunctionOnSet(f, S) = SumFunctionOnSet(g, S)
<1> DEFINE B == {s \in SUBSET S : SumFunctionOnSet(f, s) = SumFunctionOnSet(g, s)}
<1>1. ASSUME NEW s \in SUBSET S, \A x \in s : s \ {x} \in B PROVE s \in B
  <2>1. IsFiniteSet(s) /\ (s # {} => Pick(s) \in s)
    BY FS_Subset DEF Pick
  <2>2. /\ SumFunctionOnSet(f, s) =
             IF s = {} THEN 0 ELSE f[Pick(s)] + SumFunctionOnSet(f, s \ {Pick(s)})
        /\ SumFunctionOnSet(g, s) =
             IF s = {} THEN 0 ELSE g[Pick(s)] + SumFunctionOnSet(g, s \ {Pick(s)})
    BY <2>1, SumSteps
  <2> QED BY <1>1, <2>1, <2>2
<1>2. \A s \in SUBSET S : (\A x \in s : s \ {x} \in B) => s \in B
  BY <1>1
<1>3. S \in B
  <2> HIDE DEF B
  <2>1. \A s \in SUBSET S : s \in B
    BY <1>2, SubsetInduction, Zenon
  <2> QED BY <2>1
<1> QED BY <1>3

\* A sum of integers is an integer.
LEMMA SumInt ==
  ASSUME NEW f, NEW S, IsFiniteSet(S), \A x \in S : f[x] \in Int
  PROVE  SumFunctionOnSet(f, S) \in Int
<1> DEFINE B == {s \in SUBSET S : SumFunctionOnSet(f, s) \in Int}
<1>1. ASSUME NEW s \in SUBSET S, \A x \in s : s \ {x} \in B PROVE s \in B
  <2>1. IsFiniteSet(s) /\ (s # {} => Pick(s) \in s)
    BY FS_Subset DEF Pick
  <2>2. SumFunctionOnSet(f, s) =
          IF s = {} THEN 0 ELSE f[Pick(s)] + SumFunctionOnSet(f, s \ {Pick(s)})
    BY <2>1, SumSteps
  <2> QED BY <1>1, <2>1, <2>2
<1>2. \A s \in SUBSET S : (\A x \in s : s \ {x} \in B) => s \in B
  BY <1>1
<1>3. S \in B
  <2> HIDE DEF B
  <2>1. \A s \in SUBSET S : s \in B
    BY <1>2, SubsetInduction, Zenon
  <2> QED BY <2>1
<1> QED BY <1>3

\* Any member of the set may be taken out first.
LEMMA SumTakesOut ==
  ASSUME NEW f, NEW S, IsFiniteSet(S), \A x \in S : f[x] \in Int
  PROVE  \A x \in S : SumFunctionOnSet(f, S) = f[x] + SumFunctionOnSet(f, S \ {x})
<1> DEFINE Sum(s) == SumFunctionOnSet(f, s)
           Good(s) == \A x \in s : Sum(s) = f[x] + Sum(s \ {x})
           B == {s \in SUBSET S : Good(s)}
<1>0. \A s \in SUBSET S : Sum(s) \in Int
  BY FS_Subset, SumInt
<1>1. ASSUME NEW s \in SUBSET S, \A x \in s : s \ {x} \in B PROVE s \in B
  <2>1. IsFiniteSet(s) /\ \A x \in s : f[x] \in Int
    BY FS_Subset
  <2>2. ASSUME NEW x \in s PROVE Sum(s) = f[x] + Sum(s \ {x})
    <3> DEFINE y == Pick(s)
    <3>1. y \in s /\ Sum(s) = f[y] + Sum(s \ {y})
      BY <2>1, SumSteps, Zenon DEF Pick
    <3> HIDE DEF y
    <3>2. CASE x = y
      BY <3>1, <3>2
    <3>3. CASE x # y
      <4> DEFINE r == (s \ {x}) \ {y}
      <4>1. Good(s \ {x}) /\ Good(s \ {y})
        BY <1>1, <3>1
      <4>2. x \in s \ {y} /\ y \in s \ {x} /\ r = (s \ {y}) \ {x} /\ r \in SUBSET S
        BY <3>1, <3>3
      <4>3. Sum(s \ {y}) = f[x] + Sum(r) /\ Sum(s \ {x}) = f[y] + Sum(r)
        BY <4>1, <4>2, Zenon
      <4>4. Sum(r) \in Int
        BY <1>0, <4>2
      <4> HIDE DEF r, Sum
      <4> QED BY <2>1, <3>1, <4>3, <4>4
    <3> QED BY <3>2, <3>3
  <2> QED BY <2>2
<1>2. \A s \in SUBSET S : (\A x \in s : s \ {x} \in B) => s \in B
  BY <1>1
<1>3. S \in B
  <2> HIDE DEF B
  <2>1. \A s \in SUBSET S : s \in B
    BY <1>2, SubsetInduction, Zenon
  <2> QED BY <2>1
<1> QED BY <1>3

\* The sum over a union of disjoint sets.
LEMMA SumUnion ==
  ASSUME NEW f, NEW S, IsFiniteSet(S), \A x \in S : f[x] \in Int,
         NEW T \in SUBSET S
  PROVE  SumFunctionOnSet(f, S) = SumFunctionOnSet(f, T) + SumFunctionOnSet(f, S \ T)
<1> DEFINE Sum(s) == SumFunctionOnSet(f, s)
           B == {s \in SUBSET T : Sum(S) = Sum(s) + Sum(S \ s)}
<1>0. \A s \in SUBSET S : IsFiniteSet(s) /\ Sum(s) \in Int
  BY FS_Subset, SumInt
<1>1. ASSUME NEW s \in SUBSET T, \A x \in s : s \ {x} \in B PROVE s \in B
  <2>1. CASE s = {}
    <3>1. Sum({}) = 0
      BY SumSteps, FS_EmptySet, Zenon
    <3>2. S \ s = S /\ Sum(S) \in Int
      BY <1>0, <2>1
    <3>3. Sum(S) = Sum({}) + Sum(S \ {})
      <4> HIDE DEF Sum
      <4> QED BY <2>1, <3>1, <3>2
    <3> QED BY <2>1, <3>3
  <2>2. CASE s # {}
    <3>1. PICK x \in s : TRUE
      BY <2>2
    <3> DEFINE t == s \ {x}
               u == S \ s
    <3>2. t \in SUBSET S /\ u \in SUBSET S /\ s \in SUBSET S /\ S \ t \in SUBSET S
      OBVIOUS
    <3>3. /\ x \in S /\ f[x] \in Int /\ x \in S \ t /\ (S \ t) \ {x} = u
      BY <3>1
    <3>4. Sum(S) = Sum(t) + Sum(S \ t)
      BY <1>1, <3>1
    <3>5. Sum(s) = f[x] + Sum(t)
      BY <1>0, <3>2, SumTakesOut
    <3>6. Sum(S \ t) = f[x] + Sum(u)
      BY <1>0, <3>2, <3>3, SumTakesOut
    <3>7. Sum(s) \in Int /\ Sum(t) \in Int /\ Sum(u) \in Int /\ Sum(S \ t) \in Int
      BY <1>0, <3>2
    <3>8. Sum(S) = Sum(s) + Sum(u)
      <4> HIDE DEF Sum, t, u
      <4> QED BY <3>3, <3>4, <3>5, <3>6, <3>7
    <3> QED BY <3>8
  <2> QED BY <2>1, <2>2
<1>2. \A s \in SUBSET T : (\A x \in s : s \ {x} \in B) => s \in B
  BY <1>1
<1>3. IsFiniteSet(T)
  BY <1>0
<1>4. T \in B
  <2> HIDE DEF B
  <2>1. \A s \in SUBSET T : s \in B
    BY <1>2, <1>3, SubsetInduction, Zenon
  <2> QED BY <2>1
<1> QED BY <1>4

\* A sum of natural numbers is one.
LEMMA SumNat ==
  ASSUME NEW f, NEW S, IsFiniteSet(S), \A x \in S : f[x] \in Nat
  PROVE  SumFunctionOnSet(f, S) \in Nat
<1> DEFINE B == {s \in SUBSET S : SumFunctionOnSet(f, s) \in Nat}
<1>1. ASSUME NEW s \in SUBSET S, \A x \in s : s \ {x} \in B PROVE s \in B
  <2>1. IsFiniteSet(s) /\ (s # {} => Pick(s) \in s)
    BY FS_Subset DEF Pick
  <2>2. SumFunctionOnSet(f, s) =
          IF s = {} THEN 0 ELSE f[Pick(s)] + SumFunctionOnSet(f, s \ {Pick(s)})
    BY <2>1, SumSteps
  <2> QED BY <1>1, <2>1, <2>2
<1>2. \A s \in SUBSET S : (\A x \in s : s \ {x} \in B) => s \in B
  BY <1>1
<1>3. S \in B
  <2> HIDE DEF B
  <2>1. \A s \in SUBSET S : s \in B
    BY <1>2, SubsetInduction, Zenon
  <2> QED BY <2>1
<1> QED BY <1>3

\* A part has no larger sum.
LEMMA SumOfPart ==
  ASSUME NEW f, NEW S, IsFiniteSet(S), \A x \in S : f[x] \in Nat,
         NEW T \in SUBSET S
  PROVE  SumFunctionOnSet(f, T) <= SumFunctionOnSet(f, S)
<1>1. SumFunctionOnSet(f, S) = SumFunctionOnSet(f, T) + SumFunctionOnSet(f, S \ T)
  BY SumUnion
<1>2. IsFiniteSet(T) /\ IsFiniteSet(S \ T)
  BY FS_Subset
<1>3. SumFunctionOnSet(f, T) \in Nat /\ SumFunctionOnSet(f, S \ T) \in Nat
  BY <1>2, SumNat
<1> QED BY <1>1, <1>3

-----------------------------------------------------------------------------
(* Scanning the bitmap.                                                    *)

\* A nonempty set of ladder indices has a minimum.
LEMMA MinOfIndices ==
  ASSUME NEW T \in SUBSET Indices, T # {}
  PROVE  Min(T) \in T /\ \A y \in T : Min(T) <= y
<1>1. T \in SUBSET Nat
  BY LadderAssumption DEF Indices
<1> QED
  BY <1>1, LeastNatural, Zenon DEF Min

\* A nonempty set of ladder indices has a maximum: the minimum of the
\* distances from the top of the ladder.
LEMMA MaxOfIndices ==
  ASSUME NEW T \in SUBSET Indices, T # {}
  PROVE  Max(T) \in T /\ \A y \in T : y <= Max(T)
<1> DEFINE U == {NumLevels - 1 - y : y \in T}
<1>1. /\ NumLevels \in Nat
      /\ \A y \in T : y \in Nat /\ NumLevels - 1 - y \in Nat
  BY LadderAssumption DEF Indices
<1>2. U \in SUBSET Nat /\ U # {}
  BY <1>1
<1>3. PICK u \in U : \A v \in U : u <= v
  <2> HIDE DEF U
  <2> QED
    BY <1>2, LeastNatural
<1>4. PICK x \in T : u = NumLevels - 1 - x
  BY <1>3
<1>5. ASSUME NEW y \in T PROVE x >= y
  <2>1. NumLevels - 1 - y \in U
    OBVIOUS
  <2>2. u <= NumLevels - 1 - y
    BY <1>3, <2>1
  <2> QED
    BY <1>1, <1>4, <2>2
<1> QED
  BY <1>5, <1>1 DEF Max

\* The walk from a level to the next worse one finds the best of the set
\* bits that are worse, or nothing when there is none.
LEMMA NextAfter ==
  ASSUME NEW s \in Sides, NEW bits \in SUBSET Indices, NEW i \in Indices
  PROVE  LET n == next_after(s, bits, i)
             worse == {j \in bits : is_better(s, i, j)}
         IN  \/ n = NoIndex /\ worse = {}
             \/ n \in worse /\ \A j \in worse \ {n} : is_better(s, n, j)
<1> DEFINE worse == {j \in bits : is_better(s, i, j)}
<1>0. i \in Int /\ \A j \in bits : j \in Int
  BY LadderAssumption DEF Indices
<1>1. CASE s = "Buy"
  <2>1. \A j, k \in Int : is_better(s, j, k) <=> k <= j - 1
    BY <1>1 DEF is_better
  <2>2. worse = {j \in bits : j <= i - 1}
    BY <1>0, <2>1, Zenon
  <2>3. next_after(s, bits, i) = IF worse = {} THEN NoIndex ELSE Max(worse)
    BY <1>1, <2>2 DEF next_after, find_highest_at_or_below
  <2>4. CASE worse = {}
    BY <2>3, <2>4
  <2>5. CASE worse # {}
    <3>1. Max(worse) \in worse /\ \A y \in worse : y <= Max(worse)
      BY <2>5, MaxOfIndices
    <3>2. ASSUME NEW j \in worse \ {Max(worse)} PROVE is_better(s, Max(worse), j)
      <4>1. Max(worse) \in Int /\ j \in Int /\ j <= Max(worse) /\ j # Max(worse)
        BY <1>0, <3>1, Zenon
      <4> QED
        BY <2>1, <4>1
    <3> QED
      BY <2>3, <2>5, <3>1, <3>2
  <2> QED
    BY <2>4, <2>5
<1>2. CASE s = "Sell"
  <2>1. \A j, k \in Int : is_better(s, j, k) <=> k >= j + 1
    BY <1>2 DEF is_better
  <2>2. worse = {j \in bits : j >= i + 1}
    BY <1>0, <2>1, Zenon
  <2>3. next_after(s, bits, i) = IF worse = {} THEN NoIndex ELSE Min(worse)
    BY <1>2, <2>2 DEF next_after, find_lowest_at_or_above
  <2>4. CASE worse = {}
    BY <2>3, <2>4
  <2>5. CASE worse # {}
    <3>1. Min(worse) \in worse /\ \A y \in worse : Min(worse) <= y
      BY <2>5, MinOfIndices
    <3>2. ASSUME NEW j \in worse \ {Min(worse)} PROVE is_better(s, Min(worse), j)
      <4>1. Min(worse) \in Int /\ j \in Int /\ Min(worse) <= j /\ j # Min(worse)
        BY <1>0, <3>1, Zenon
      <4> QED
        BY <2>1, <4>1
    <3> QED
      BY <2>3, <2>5, <3>1, <3>2
  <2> QED
    BY <2>4, <2>5
<1> QED
  BY <1>1, <1>2 DEF Sides

-----------------------------------------------------------------------------
(* One side of the ladder.                                                 *)

\* Removing one element of a sequence closes the gap and keeps the order.
LEMMA RemovedAtProperties ==
  ASSUME NEW S, NEW q \in Seq(S), NEW n \in 1 .. Len(q)
  PROVE  /\ RemovedAt(q, n) \in Seq(S)
         /\ Len(RemovedAt(q, n)) = Len(q) - 1
         /\ \A k \in 1 .. Len(q) - 1 :
              RemovedAt(q, n)[k] = IF k < n THEN q[k] ELSE q[k + 1]
<1> DEFINE front == SubSeq(q, 1, n - 1)
           back == SubSeq(q, n + 1, Len(q))
<1>1. /\ Len(q) \in Nat
      /\ \A k \in 1 .. Len(q) : q[k] \in S
  OBVIOUS
<1>2. /\ front \in Seq(S)
      /\ Len(front) = n - 1
      /\ \A k \in 1 .. n - 1 : front[k] = q[k]
  <2>1. \A k \in 1 .. n - 1 : q[k] \in S
    BY <1>1
  <2> QED
    BY <1>1, <2>1
<1>3. /\ back \in Seq(S)
      /\ Len(back) = Len(q) - n
      /\ \A k \in 1 .. Len(q) - n : back[k] = q[n + k]
  <2>1. \A k \in n + 1 .. Len(q) : q[k] \in S
    BY <1>1
  <2> QED
    BY <1>1, <2>1
<1> HIDE DEF front, back
<1>4. /\ front \o back \in Seq(S)
      /\ Len(front \o back) = Len(q) - 1
      /\ \A k \in 1 .. Len(q) - 1 : (front \o back)[k] =
           IF k <= n - 1 THEN front[k] ELSE back[k - (n - 1)]
  <2>1. /\ front \o back \in Seq(S)
        /\ Len(front \o back) = Len(front) + Len(back)
        /\ \A k \in 1 .. Len(front) + Len(back) : (front \o back)[k] =
             IF k <= Len(front) THEN front[k] ELSE back[k - Len(front)]
    <3>1. front \in Seq(S) /\ back \in Seq(S)
      BY <1>2, <1>3
    <3>2. Len(front \o back) = Len(front) + Len(back)
      BY <3>1
    <3>3. front \o back \in Seq(S)
      BY <3>1
    <3>4. \A k \in 1 .. Len(front) + Len(back) : (front \o back)[k] =
            IF k <= Len(front) THEN front[k] ELSE back[k - Len(front)]
      BY <3>1
    <3> QED
      BY <3>2, <3>3, <3>4
  <2>2. Len(front) = n - 1 /\ Len(front) + Len(back) = Len(q) - 1
    BY <1>1, <1>2, <1>3
  <2> QED
    BY <2>1, <2>2
<1>5. ASSUME NEW k \in 1 .. Len(q) - 1
      PROVE  (front \o back)[k] = IF k < n THEN q[k] ELSE q[k + 1]
  <2>1. CASE k < n
    BY <1>1, <1>2, <1>4, <2>1
  <2>2. CASE ~(k < n)
    <3>1. k - (n - 1) \in 1 .. Len(q) - n /\ n + (k - (n - 1)) = k + 1 /\ ~(k <= n - 1)
      BY <1>1, <2>2
    <3>2. (front \o back)[k] = back[k - (n - 1)]
      BY <1>4, <3>1
    <3>3. back[k - (n - 1)] = q[n + (k - (n - 1))]
      BY <1>3, <3>1
    <3> QED
      BY <2>2, <3>1, <3>2, <3>3
  <2> QED
    BY <2>1, <2>2, Zenon
<1> QED
  BY <1>4, <1>5, Zenon DEF RemovedAt, front, back

\* The counts of a side are the lengths of its queues, its bitmap marks the
\* levels with a queue, and its best index is the best of them.
LadderSound(s, l) ==
  /\ \A i \in Indices : l.levels[i].order_count = Len(l.levels[i].fifo)
  /\ l.occupied = {i \in Indices : l.levels[i].fifo # << >>}
  /\ \/ l.best_index = NoIndex /\ l.occupied = {}
     \/ /\ l.best_index \in l.occupied
        /\ \A i \in l.occupied \ {l.best_index} : is_better(s, l.best_index, i)

\* A level with no order counted is a level without a queue.
LEMMA EmptyMeansNoQueue ==
  ASSUME NEW lvl \in PriceLevel, lvl.order_count = Len(lvl.fifo)
  PROVE  empty(lvl) <=> lvl.fifo = << >>
  BY DEF PriceLevel, empty

\* The index order of a side is total and transitive.
LEMMA IsBetterOrders ==
  ASSUME NEW s \in Sides, NEW i \in Indices, NEW j \in Indices, NEW k \in Indices
  PROVE  /\ is_better(s, i, j) \/ is_better(s, j, i) \/ i = j
         /\ is_better(s, i, j) /\ is_better(s, j, k) => is_better(s, i, k)
         /\ ~(is_better(s, i, j) /\ is_better(s, j, i))
         /\ ~is_better(s, i, i)
  BY LadderAssumption DEF is_better, Indices

\* Queueing an order keeps a side sound: the level gains the order at its
\* back and no other level changes (level_push_back and note_nonempty).
LEMMA PushIntoSound ==
  ASSUME NEW s \in Sides, NEW l \in Ladder, NEW i \in Indices,
         NEW o, o.id \in OrderIds, o.remaining \in Int,
         LadderSound(s, l)
  PROVE  /\ PushInto(s, l, i, o) \in Ladder
         /\ LadderSound(s, PushInto(s, l, i, o))
         /\ PushInto(s, l, i, o).levels =
              [l.levels EXCEPT ![i] = level_push_back(@, o)]
<1> DEFINE lvl == level_push_back(l.levels[i], o)
           r == PushInto(s, l, i, o)
<1>1. l.levels \in [Indices -> PriceLevel] /\ l.occupied \in SUBSET Indices
      /\ l.best_index \in Indices \cup {NoIndex}
  BY DEF Ladder
<1>2. /\ lvl \in PriceLevel
      /\ lvl.fifo # << >>
      /\ lvl.order_count = Len(lvl.fifo)
  <2>1. l.levels[i] \in PriceLevel /\ l.levels[i].order_count = Len(l.levels[i].fifo)
    BY <1>1 DEF LadderSound
  <2>2. o.id \in OrderIds /\ o.remaining \in Int
    OBVIOUS
  <2>3. \A q \in Seq(OrderIds) : /\ Append(q, o.id) \in Seq(OrderIds)
                                 /\ Append(q, o.id) # << >>
                                 /\ Len(Append(q, o.id)) = Len(q) + 1
    BY <2>2
  <2> QED
    BY <2>1, <2>2, <2>3 DEF PriceLevel, level_push_back
<1>3. r.levels = [l.levels EXCEPT ![i] = lvl]
  BY <1>1 DEF PushInto, note_nonempty, Ladder
<1>4. r.occupied = l.occupied \cup {i}
  <2>1. CASE empty(l.levels[i])
    BY <2>1 DEF PushInto, note_nonempty, Ladder
  <2>2. CASE ~empty(l.levels[i])
    <3>1. l.levels[i].fifo # << >>
      BY <1>1, <2>2, EmptyMeansNoQueue DEF LadderSound
    <3>2. i \in l.occupied
      BY <3>1 DEF LadderSound
    <3> QED
      BY <2>2, <3>2 DEF PushInto, Ladder
  <2> QED
    BY <2>1, <2>2
<1>5. r.best_index = IF empty(l.levels[i])
                        /\ (l.best_index = NoIndex \/ is_better(s, i, l.best_index))
                     THEN i ELSE l.best_index
  BY DEF PushInto, note_nonempty, Ladder
<1>6. r \in Ladder
  <2>1. r = [levels |-> r.levels, occupied |-> r.occupied, best_index |-> r.best_index]
    BY Zenon DEF PushInto, note_nonempty, Ladder
  <2> QED
    BY <1>1, <1>2, <1>3, <1>4, <1>5, <2>1 DEF Ladder
<1> HIDE DEF lvl, r
<1>7. \A j \in Indices : r.levels[j] = IF j = i THEN lvl ELSE l.levels[j]
  BY <1>1, <1>3
<1>8. \A j \in Indices : r.levels[j].order_count = Len(r.levels[j].fifo)
  BY <1>2, <1>7 DEF LadderSound
<1>9. r.occupied = {j \in Indices : r.levels[j].fifo # << >>}
  BY <1>2, <1>4, <1>7 DEF LadderSound
<1>10. /\ r.best_index \in r.occupied
       /\ \A j \in r.occupied \ {r.best_index} : is_better(s, r.best_index, j)
  <2>1. CASE l.best_index = NoIndex
    <3>1. l.occupied = {}
      BY <2>1, <1>1, LadderAssumption DEF LadderSound, Indices, NoIndex
    <3>2. empty(l.levels[i])
      BY <3>1, <1>1, EmptyMeansNoQueue DEF LadderSound
    <3> QED
      BY <1>4, <1>5, <2>1, <3>1, <3>2
  <2>2. CASE l.best_index # NoIndex
    <3>1. /\ l.best_index \in l.occupied
          /\ \A j \in l.occupied \ {l.best_index} : is_better(s, l.best_index, j)
      BY <2>2 DEF LadderSound
    <3>2. CASE empty(l.levels[i]) /\ is_better(s, i, l.best_index)
      <4>1. r.best_index = i
        BY <1>5, <3>2
      <4>2. ASSUME NEW j \in l.occupied PROVE is_better(s, i, j)
        BY <1>1, <3>1, <3>2, IsBetterOrders
      <4> QED
        BY <1>4, <4>1, <4>2
    <3>3. CASE ~(empty(l.levels[i]) /\ is_better(s, i, l.best_index))
      <4>1. r.best_index = l.best_index
        BY <1>5, <2>2, <3>3
      <4>2. i \in l.occupied \/ is_better(s, l.best_index, i) \/ i = l.best_index
        <5>1. CASE empty(l.levels[i])
          BY <1>1, <3>1, <3>3, <5>1, IsBetterOrders
        <5>2. CASE ~empty(l.levels[i])
          BY <1>1, <5>2, EmptyMeansNoQueue DEF LadderSound
        <5> QED
          BY <5>1, <5>2
      <4> QED
        BY <1>4, <3>1, <4>1, <4>2
    <3> QED
      BY <3>2, <3>3
  <2> QED
    BY <2>1, <2>2
<1>11. LadderSound(s, r)
  BY <1>8, <1>9, <1>10 DEF LadderSound
<1> QED
  BY <1>3, <1>6, <1>11 DEF r, lvl

\* Taking an order out of the queue it is in keeps a side sound: the level
\* loses the order, no other level changes, and when the best level is
\* vacated the best index moves to the next occupied one (level_unlink and
\* note_maybe_empty).
LEMMA UnlinkFromSound ==
  ASSUME NEW s \in Sides, NEW l \in Ladder, NEW i \in Indices,
         NEW o, o.id \in OrderIds, o.remaining \in Int,
         LadderSound(s, l),
         \E k \in DOMAIN l.levels[i].fifo : l.levels[i].fifo[k] = o.id
  PROVE  /\ UnlinkFrom(s, l, i, o) \in Ladder
         /\ LadderSound(s, UnlinkFrom(s, l, i, o))
         /\ UnlinkFrom(s, l, i, o).levels =
              [l.levels EXCEPT ![i] = level_unlink(@, o)]
<1> DEFINE lvl == level_unlink(l.levels[i], o)
           u == [l EXCEPT !.levels[i] = level_unlink(@, o)]
           r == UnlinkFrom(s, l, i, o)
<1>1. l.levels \in [Indices -> PriceLevel] /\ l.occupied \in SUBSET Indices
      /\ l.best_index \in Indices \cup {NoIndex}
  BY DEF Ladder
<1>2. /\ lvl \in PriceLevel
      /\ lvl.order_count = Len(lvl.fifo)
      /\ i \in l.occupied
  <2>1. /\ l.levels[i] \in PriceLevel
        /\ l.levels[i].order_count = Len(l.levels[i].fifo)
        /\ l.levels[i].fifo \in Seq(OrderIds)
    BY <1>1 DEF LadderSound, PriceLevel
  <2>2. o.remaining \in Int
    OBVIOUS
  <2>3. DOMAIN l.levels[i].fifo = 1 .. Len(l.levels[i].fifo)
    BY <2>1
  <2>4. Position(l.levels[i].fifo, o.id) \in 1 .. Len(l.levels[i].fifo)
    BY <2>3 DEF Position
  <2>5. l.levels[i].fifo # << >>
    BY <2>4
  <2>6. lvl \in PriceLevel /\ lvl.order_count = Len(lvl.fifo)
    <3> DEFINE f == RemovedAt(l.levels[i].fifo, Position(l.levels[i].fifo, o.id))
    <3>1. f \in Seq(OrderIds) /\ Len(f) = Len(l.levels[i].fifo) - 1
      BY <2>1, <2>4, RemovedAtProperties
    <3>2. /\ l.levels[i].total_quantity \in Int
          /\ l.levels[i].order_count \in Int
      BY <2>1 DEF PriceLevel
    <3>3. lvl = [fifo |-> f,
                 total_quantity |-> l.levels[i].total_quantity - o.remaining,
                 order_count |-> l.levels[i].order_count - 1]
      BY DEF level_unlink
    <3> HIDE DEF f, lvl
    <3> QED
      BY <2>1, <2>2, <3>1, <3>2, <3>3 DEF PriceLevel
  <2> QED
    BY <2>5, <2>6 DEF LadderSound
<1>3. /\ u \in Ladder
      /\ u.levels = [l.levels EXCEPT ![i] = lvl]
      /\ u.levels[i] = lvl
      /\ u.occupied = l.occupied
      /\ u.best_index = l.best_index
  BY <1>1, <1>2 DEF Ladder
<1>4. r = note_maybe_empty(s, u, i)
  BY DEF UnlinkFrom
<1> HIDE DEF u, r
<1>5. /\ r.levels = u.levels
      /\ r.occupied = IF empty(lvl) THEN l.occupied \ {i} ELSE l.occupied
      /\ r.best_index = IF empty(lvl) /\ l.best_index = i
                        THEN next_after(s, l.occupied \ {i}, i) ELSE l.best_index
      /\ r = [levels |-> r.levels, occupied |-> r.occupied, best_index |-> r.best_index]
  BY <1>3, <1>4, Zenon DEF note_maybe_empty, Ladder
<1> HIDE DEF lvl
<1>6. \A j \in Indices : r.levels[j] = IF j = i THEN lvl ELSE l.levels[j]
  BY <1>1, <1>3, <1>5
<1>7. \A j \in Indices : r.levels[j].order_count = Len(r.levels[j].fifo)
  BY <1>2, <1>6 DEF LadderSound
<1>8. empty(lvl) <=> lvl.fifo = << >>
  BY <1>2, EmptyMeansNoQueue
<1>9. r.occupied = {j \in Indices : r.levels[j].fifo # << >>}
  BY <1>2, <1>5, <1>6, <1>8 DEF LadderSound
<1>10. /\ l.best_index \in l.occupied
       /\ \A j \in l.occupied \ {l.best_index} : is_better(s, l.best_index, j)
  BY <1>2 DEF LadderSound
<1>11. /\ r.best_index \in Indices \cup {NoIndex}
       /\ \/ r.best_index = NoIndex /\ r.occupied = {}
          \/ /\ r.best_index \in r.occupied
             /\ \A j \in r.occupied \ {r.best_index} : is_better(s, r.best_index, j)
  <2>1. CASE empty(lvl) /\ l.best_index = i
    <3> DEFINE rest == l.occupied \ {i}
               n == next_after(s, rest, i)
    <3>1. r.occupied = rest /\ r.best_index = n
      BY <1>5, <2>1
    <3>2. rest \in SUBSET Indices /\ {j \in rest : is_better(s, i, j)} = rest
      BY <1>1, <1>10, <2>1
    <3> HIDE DEF rest
    <3>3. \/ n = NoIndex /\ rest = {}
          \/ n \in rest /\ \A j \in rest \ {n} : is_better(s, n, j)
      BY <3>2, NextAfter
    <3> QED
      BY <3>1, <3>2, <3>3
  <2>2. CASE empty(lvl) /\ l.best_index # i
    BY <1>1, <1>5, <1>10, <2>2
  <2>3. CASE ~empty(lvl)
    BY <1>1, <1>5, <1>10, <2>3
  <2> QED
    BY <2>1, <2>2, <2>3
<1>12. r \in Ladder
  <2>1. r.levels \in [Indices -> PriceLevel]
    BY <1>1, <1>2, <1>3, <1>5
  <2>2. r.occupied \in SUBSET Indices
    BY <1>1, <1>5
  <2> QED
    BY <1>5, <1>11, <2>1, <2>2 DEF Ladder
<1>13. LadderSound(s, r)
  BY <1>7, <1>9, <1>11 DEF LadderSound
<1> QED
  BY <1>3, <1>5, <1>12, <1>13 DEF r, lvl

-----------------------------------------------------------------------------
(* The book.                                                               *)

\* The queue of a level.
Queue(b, s, i) == b.ladder[s].levels[i].fifo

\* A well-formed book in which finitely many orders rest.
WellFormed(b) ==
  /\ Resting(b) \subseteq OrderIds
  /\ b \in BookWith(Resting(b))
  /\ IsFiniteSet(Resting(b))

\* The inductive part of every invariant of a book.
BookInv(b) == WellFormed(b) /\ Structured(b)

\* A price on the ladder has an index of the ladder.
LEMMA IndexOfPrice ==
  ASSUME NEW p \in Int, index_of(p) # NoIndex
  PROVE  index_of(p) \in Indices /\ p = price_at(index_of(p))
  BY LadderAssumption, BookAssumption DEF index_of, Indices, NoIndex, price_at

\* The parts of a well-formed book have their types.
LEMMA BookTypes ==
  ASSUME NEW b, WellFormed(b)
  PROVE  /\ b.ladder \in [Sides -> Ladder]
         /\ b.order_index \in [Resting(b) -> Node]
         /\ b.live_count \in Int
         /\ b.order_count \in Int
         /\ b = [ladder |-> b.ladder, order_index |-> b.order_index,
                 live_count |-> b.live_count, order_count |-> b.order_count]
         /\ \A s \in Sides, i \in Indices :
              /\ b.ladder[s].levels[i] \in PriceLevel
              /\ Queue(b, s, i) \in Seq(OrderIds)
              /\ Len(Queue(b, s, i)) \in Nat
              /\ DOMAIN Queue(b, s, i) = 1 .. Len(Queue(b, s, i))
         /\ \A id \in Resting(b) :
              /\ b.order_index[id] \in Node
              /\ b.order_index[id].order \in Order
              /\ b.order_index[id].order.side \in Sides
              /\ b.order_index[id].level_index \in Indices
<1>1. b \in BookWith(Resting(b))
  BY DEF WellFormed
<1>2. /\ b.ladder \in [Sides -> Ladder]
      /\ b.order_index \in [Resting(b) -> Node]
      /\ b.live_count \in Int
      /\ b.order_count \in Int
      /\ b = [ladder |-> b.ladder, order_index |-> b.order_index,
              live_count |-> b.live_count, order_count |-> b.order_count]
  BY <1>1 DEF BookWith
<1>3. ASSUME NEW s \in Sides, NEW i \in Indices
      PROVE  /\ b.ladder[s].levels[i] \in PriceLevel
             /\ Queue(b, s, i) \in Seq(OrderIds)
             /\ Len(Queue(b, s, i)) \in Nat
             /\ DOMAIN Queue(b, s, i) = 1 .. Len(Queue(b, s, i))
  <2>1. b.ladder[s].levels[i] \in PriceLevel
    BY <1>2 DEF Ladder
  <2>2. Queue(b, s, i) \in Seq(OrderIds)
    BY <2>1 DEF PriceLevel, Queue
  <2> QED
    BY <2>1, <2>2
<1>4. ASSUME NEW id \in Resting(b)
      PROVE  /\ b.order_index[id] \in Node
             /\ b.order_index[id].order \in Order
             /\ b.order_index[id].order.side \in Sides
             /\ b.order_index[id].level_index \in Indices
  BY <1>2 DEF Node, Order
<1> QED
  BY <1>2, <1>3, <1>4

\* Both sides of a structured book are sound.
LEMMA LaddersSound ==
  ASSUME NEW b, BookInv(b), NEW s \in Sides
  PROVE  b.ladder[s] \in Ladder /\ LadderSound(s, b.ladder[s])
<1>1. b.ladder[s] \in Ladder
  BY BookTypes DEF BookInv
<1> QED
  BY <1>1 DEF BookInv, Structured, CountsMatchQueues, BestIsTouch, LadderSound

\* An order that rests is in the queue of its side and level, and what is
\* queued rests on that side and level.
LEMMA QueuedIffResting ==
  ASSUME NEW b, BookInv(b)
  PROVE  /\ \A s \in Sides, i \in Indices :
              /\ \A k \in DOMAIN Queue(b, s, i) :
                   /\ Queue(b, s, i)[k] \in Resting(b)
                   /\ b.order_index[Queue(b, s, i)[k]].order.side = s
                   /\ b.order_index[Queue(b, s, i)[k]].level_index = i
              /\ \A j, k \in DOMAIN Queue(b, s, i) :
                   Queue(b, s, i)[j] = Queue(b, s, i)[k] => j = k
         /\ \A id \in Resting(b) :
              /\ b.order_index[id].order.id = id
              /\ b.order_index[id].level_index = index_of(b.order_index[id].order.price)
              /\ \E k \in DOMAIN Queue(b, b.order_index[id].order.side,
                                       b.order_index[id].level_index) :
                   Queue(b, b.order_index[id].order.side,
                         b.order_index[id].level_index)[k] = id
  BY Zenon DEF BookInv, Structured, QueuesMatchIndex, IsInjective, Queue

\* A resting order is in the queue of its side and level.
LEMMA RestingInQueue ==
  ASSUME NEW b, BookInv(b), NEW x \in Resting(b)
  PROVE  \E n \in DOMAIN Queue(b, b.order_index[x].order.side, b.order_index[x].level_index) :
           Queue(b, b.order_index[x].order.side, b.order_index[x].level_index)[n] = x
  BY QueuedIffResting

\* An order that add accepts goes to the back of the queue of its side and
\* price, and no other level changes.
LEMMA RestLevels ==
  ASSUME NEW b, BookInv(b), NEW o \in Order, add_error(b, o) = "None"
  PROVE  LET c == Rest(b, o)
             i == index_of(o.price)
         IN  /\ i \in Indices
             /\ c.ladder \in [Sides -> Ladder]
             /\ \A t \in Sides : LadderSound(t, c.ladder[t])
             /\ \A t \in Sides, j \in Indices :
                  c.ladder[t].levels[j] =
                    IF t = o.side /\ j = i THEN level_push_back(b.ladder[t].levels[j], o)
                                           ELSE b.ladder[t].levels[j]
<1> DEFINE c == Rest(b, o)
           i == index_of(o.price)
           s == o.side
           pushed == PushInto(s, b.ladder[s], i, o)
<1>1. /\ o.price \in Int /\ s \in Sides /\ o.id \in OrderIds /\ o.remaining \in Int
      /\ i \in Indices
  <2>1. o.price \in Int /\ s \in Sides /\ o.id \in OrderIds /\ o.remaining \in Int
    BY DEF Order
  <2>2. i # NoIndex
    BY DEF add_error
  <2> QED
    BY <2>1, <2>2, IndexOfPrice
<1>2. /\ b.ladder \in [Sides -> Ladder]
      /\ \A t \in Sides : LadderSound(t, b.ladder[t])
  BY BookTypes, LaddersSound DEF BookInv
<1>3. b.ladder[s] \in Ladder /\ b.ladder[s].levels \in [Indices -> PriceLevel]
  BY <1>1, <1>2 DEF Ladder
<1>4. c.ladder = [b.ladder EXCEPT ![s] = pushed]
  BY <1>1, <1>2 DEF Rest
<1> HIDE DEF i, s, c
<1>5. /\ pushed \in Ladder
      /\ LadderSound(s, pushed)
      /\ pushed.levels = [b.ladder[s].levels EXCEPT ![i] = level_push_back(@, o)]
  <2>1. LadderSound(s, b.ladder[s])
    BY <1>1, <1>2
  <2> QED
    BY <1>1, <1>3, <2>1, PushIntoSound
<1> HIDE DEF pushed
<1>6. /\ c.ladder \in [Sides -> Ladder]
      /\ c.ladder[s] = pushed
      /\ \A t \in Sides \ {s} : c.ladder[t] = b.ladder[t]
  BY <1>1, <1>2, <1>4, <1>5
<1>7. \A t \in Sides : LadderSound(t, c.ladder[t])
  BY <1>2, <1>5, <1>6
<1>8. \A j \in Indices : pushed.levels[j] =
        IF j = i THEN level_push_back(b.ladder[s].levels[i], o) ELSE b.ladder[s].levels[j]
  BY <1>1, <1>3, <1>5
<1> QED
  BY <1>1, <1>6, <1>7, <1>8 DEF c, i, s

\* Storing an order that add accepts keeps the book sound, provided that it
\* was sequenced after every order that rests (the last lines of add).
LEMMA RestSound ==
  ASSUME NEW b, BookInv(b), NEW o \in Order, add_error(b, o) = "None",
         \A id \in Resting(b) : b.order_index[id].order.sequence < o.sequence
  PROVE  /\ BookInv(Rest(b, o))
         /\ Resting(Rest(b, o)) = Resting(b) \cup {o.id}
         /\ \A id \in Resting(b) : Rest(b, o).order_index[id] = b.order_index[id]
         /\ Rest(b, o).order_index[o.id].order = o
<1> DEFINE c == Rest(b, o)
           i == index_of(o.price)
           s == o.side
           old == Queue(b, s, i)
           n == Len(old)
<1>1. /\ i \in Indices /\ s \in Sides /\ o.id \in OrderIds
      /\ o.remaining > 0 /\ o.sequence \in Nat
      /\ o.id \notin Resting(b)
      /\ b.live_count < MaxOrders
  <2>1. o.price \in Int /\ s \in Sides /\ o.id \in OrderIds /\ o.remaining \in Int
        /\ o.sequence \in Nat
    BY DEF Order
  <2>2. /\ ~(o.remaining <= 0) /\ i # NoIndex
        /\ o.id \notin Resting(b) /\ ~(b.live_count >= MaxOrders)
    BY DEF add_error
  <2>3. b.live_count \in Int
    BY BookTypes DEF BookInv
  <2> QED
    BY <2>1, <2>2, <2>3, IndexOfPrice, BookAssumption
<1>2. WellFormed(b)
  BY DEF BookInv
<1>3. b.ladder[s] \in Ladder /\ LadderSound(s, b.ladder[s])
  BY <1>1, LaddersSound
<1>4. /\ c.ladder = [b.ladder EXCEPT ![s] = PushInto(s, b.ladder[s], i, o)]
      /\ c.order_index = [id \in Resting(b) \cup {o.id} |->
                            IF id = o.id THEN [order |-> o, level_index |-> i]
                                         ELSE b.order_index[id]]
      /\ c.live_count = b.live_count + 1
      /\ c.order_count = b.order_count + 1
      /\ c = [ladder |-> c.ladder, order_index |-> c.order_index,
              live_count |-> c.live_count, order_count |-> c.order_count]
  BY <1>2, BookTypes DEF Rest
<1>5. Resting(c) = Resting(b) \cup {o.id}
  BY <1>4 DEF Resting
<1>6. /\ \A id \in Resting(b) : c.order_index[id] = b.order_index[id]
      /\ c.order_index[o.id] = [order |-> o, level_index |-> i]
  BY <1>1, <1>4
<1> HIDE DEF c
<1>7. /\ c.ladder \in [Sides -> Ladder]
      /\ \A t \in Sides : LadderSound(t, c.ladder[t])
      /\ \A t \in Sides, j \in Indices :
           Queue(c, t, j) = IF t = s /\ j = i THEN Append(old, o.id) ELSE Queue(b, t, j)
  <2>1. /\ c.ladder \in [Sides -> Ladder]
        /\ \A t \in Sides : LadderSound(t, c.ladder[t])
        /\ \A t \in Sides, j \in Indices :
             c.ladder[t].levels[j] =
               IF t = s /\ j = i THEN level_push_back(b.ladder[t].levels[j], o)
                                 ELSE b.ladder[t].levels[j]
    BY RestLevels DEF c
  <2>2. level_push_back(b.ladder[s].levels[i], o).fifo = Append(old, o.id)
    BY Zenon DEF level_push_back, Queue
  <2>3. ASSUME NEW t \in Sides, NEW j \in Indices
        PROVE  Queue(c, t, j) = IF t = s /\ j = i THEN Append(old, o.id)
                                                  ELSE Queue(b, t, j)
    <3> HIDE DEF old, i, s
    <3> QED
      BY <2>1, <2>2, <2>3, Zenon DEF Queue
  <2> QED
    BY <2>1, <2>3
<1>8. WellFormed(c)
  <2>1. [order |-> o, level_index |-> i] \in Node
    BY <1>1 DEF Node
  <2>2. c.order_index \in [Resting(c) -> Node]
    BY <1>2, <1>4, <1>5, <2>1, BookTypes
  <2>3. c.live_count \in Int /\ c.order_count \in Int
    BY <1>2, <1>4, BookTypes
  <2>4. c \in BookWith(Resting(c))
    BY <1>4, <1>7, <2>2, <2>3, Zenon DEF BookWith
  <2>5. IsFiniteSet(Resting(c))
    BY <1>2, <1>5, FS_AddElement DEF WellFormed
  <2> QED
    BY <1>1, <1>2, <1>5, <2>4, <2>5 DEF WellFormed
<1>9. /\ old \in Seq(OrderIds) /\ n \in Nat /\ DOMAIN old = 1 .. n
      /\ Append(old, o.id) \in Seq(OrderIds)
      /\ Len(Append(old, o.id)) = n + 1
      /\ DOMAIN Append(old, o.id) = 1 .. n + 1
      /\ \A k \in 1 .. n : Append(old, o.id)[k] = old[k]
      /\ Append(old, o.id)[n + 1] = o.id
  <2>1. old \in Seq(OrderIds) /\ n \in Nat /\ DOMAIN old = 1 .. n
    BY <1>1, <1>2, BookTypes
  <2> QED
    BY <1>1, <2>1
<1>10. QueuesMatchIndex(c)
  <2>1. ASSUME NEW t \in Sides, NEW j \in Indices
        PROVE  /\ IsInjective(Queue(c, t, j))
               /\ \A k \in DOMAIN Queue(c, t, j) :
                    /\ Queue(c, t, j)[k] \in Resting(c)
                    /\ c.order_index[Queue(c, t, j)[k]].order.side = t
                    /\ c.order_index[Queue(c, t, j)[k]].level_index = j
    <3>1. CASE t = s /\ j = i
      <4>1. Queue(c, t, j) = Append(old, o.id)
        BY <1>7, <3>1
      <4>2. /\ \A k \in 1 .. n : /\ old[k] \in Resting(b)
                                 /\ b.order_index[old[k]].order.side = s
                                 /\ b.order_index[old[k]].level_index = i
            /\ \A k, m \in 1 .. n : old[k] = old[m] => k = m
        BY <1>1, <1>9, QueuedIffResting
      <4> HIDE DEF old, n, i
      <4>3. \A k \in 1 .. n + 1 : k \in 1 .. n \/ k = n + 1
        BY <1>9
      <4>4. IsInjective(Append(old, o.id))
        BY <1>1, <1>9, <4>2, <4>3 DEF IsInjective
      <4>5. ASSUME NEW k \in 1 .. n + 1
            PROVE  /\ Append(old, o.id)[k] \in Resting(c)
                   /\ c.order_index[Append(old, o.id)[k]].order.side = s
                   /\ c.order_index[Append(old, o.id)[k]].level_index = i
        <5>1. CASE k \in 1 .. n
          BY <1>5, <1>6, <1>9, <4>2, <5>1
        <5>2. CASE k = n + 1
          BY <1>5, <1>6, <1>9, <5>2
        <5> QED
          BY <4>3, <5>1, <5>2, Zenon
      <4> QED
        BY <1>9, <3>1, <4>1, <4>4, <4>5
    <3>2. CASE ~(t = s /\ j = i)
      <4>1. Queue(c, t, j) = Queue(b, t, j)
        BY <1>7, <3>2
      <4>2. IsInjective(Queue(b, t, j))
        BY QueuedIffResting DEF IsInjective
      <4> QED
        BY <1>5, <1>6, <4>1, <4>2, QueuedIffResting
    <3> QED
      BY <3>1, <3>2
  <2>2. ASSUME NEW id \in Resting(c)
        PROVE  LET node == c.order_index[id]
               IN  /\ node.order.id = id
                   /\ node.level_index = index_of(node.order.price)
                   /\ \E k \in DOMAIN Queue(c, node.order.side, node.level_index) :
                        Queue(c, node.order.side, node.level_index)[k] = id
    <3>1. CASE id = o.id
      <4>1. Queue(c, s, i) = Append(old, o.id)
        BY <1>1, <1>7
      <4>2. n + 1 \in DOMAIN Append(old, o.id)
        BY <1>9
      <4>3. Append(old, o.id)[n + 1] = id
        BY <1>9, <3>1
      <4>4. c.order_index[id].order = o /\ c.order_index[id].level_index = i
        BY <1>6, <3>1
      <4> HIDE DEF old, n
      <4> QED
        BY <3>1, <4>1, <4>2, <4>3, <4>4
    <3>2. CASE id # o.id
      <4> DEFINE t == b.order_index[id].order.side
                 j == b.order_index[id].level_index
      <4>1. id \in Resting(b) /\ c.order_index[id] = b.order_index[id]
        BY <1>5, <1>6, <3>2
      <4>2. t \in Sides /\ j \in Indices
        BY <1>2, <4>1, BookTypes
      <4>3. PICK k \in DOMAIN Queue(b, t, j) : Queue(b, t, j)[k] = id
        BY <4>1, QueuedIffResting
      <4>4. k \in DOMAIN Queue(c, t, j) /\ Queue(c, t, j)[k] = id
        <5>1. CASE t = s /\ j = i
          <6>1. k \in 1 .. n /\ old[k] = id
            BY <1>9, <4>3, <5>1
          <6>2. k \in 1 .. n + 1
            BY <1>9, <6>1
          <6> QED
            BY <1>7, <1>9, <4>2, <5>1, <6>1, <6>2
        <5>2. CASE ~(t = s /\ j = i)
          BY <1>7, <4>2, <4>3, <5>2
        <5> QED
          BY <5>1, <5>2
      <4> QED
        BY <4>1, <4>4, QueuedIffResting
    <3> QED
      BY <3>1, <3>2
  <2> QED
    BY <2>1, <2>2, Zenon DEF QueuesMatchIndex, Queue
<1>11. CountsMatchQueues(c)
  <2>1. \A id \in Resting(c) : c.order_index[id].order.remaining > 0
    BY <1>1, <1>5, <1>6 DEF BookInv, Structured, CountsMatchQueues
  <2> QED
    BY <1>7, <2>1 DEF CountsMatchQueues, LadderSound
<1>12. BestIsTouch(c)
  BY <1>7 DEF BestIsTouch, LadderSound
<1>13. NothingLeaked(c)
  <2>1. Cardinality(Resting(c)) = Cardinality(Resting(b)) + 1
    BY <1>1, <1>2, <1>5, FS_AddElement, Zenon DEF WellFormed
  <2>2. Cardinality(Resting(b)) \in Nat
    BY <1>2, FS_CardinalityType DEF WellFormed
  <2> QED
    BY <1>1, <1>4, <2>1, <2>2, BookAssumption
    DEF NothingLeaked, BookInv, Structured
<1>14. QueuesInTimeOrder(c)
  <2>1. ASSUME NEW t \in Sides, NEW j \in Indices,
               NEW k \in DOMAIN Queue(c, t, j), NEW m \in DOMAIN Queue(c, t, j), k < m
        PROVE  c.order_index[Queue(c, t, j)[k]].order.sequence
                 < c.order_index[Queue(c, t, j)[m]].order.sequence
    <3>0. \A h, g \in DOMAIN Queue(b, t, j) :
            h < g => b.order_index[Queue(b, t, j)[h]].order.sequence
                       < b.order_index[Queue(b, t, j)[g]].order.sequence
      BY ZenonT(30) DEF BookInv, Structured, QueuesInTimeOrder, Queue
    <3>1. \A h \in DOMAIN Queue(b, t, j) :
            /\ Queue(b, t, j)[h] \in Resting(b)
            /\ c.order_index[Queue(b, t, j)[h]] = b.order_index[Queue(b, t, j)[h]]
      BY <1>6, QueuedIffResting
    <3>2. CASE t = s /\ j = i
      <4>1. k \in 1 .. n + 1 /\ m \in 1 .. n + 1 /\ Queue(c, t, j) = Append(old, o.id)
        BY <1>7, <1>9, <3>2
      <4>2. k \in 1 .. n
        BY <1>9, <2>1, <4>1
      <4>b. Queue(b, t, j) = old /\ DOMAIN old = 1 .. n
        BY <1>9, <3>2
      <4>k. Queue(c, t, j)[k] = old[k]
        BY <1>9, <4>1, <4>2
      <4> HIDE DEF old, n
      <4>3. CASE m \in 1 .. n
        <5>1. Queue(c, t, j)[m] = old[m]
          BY <1>9, <4>1, <4>3
        <5>2. b.order_index[old[k]].order.sequence < b.order_index[old[m]].order.sequence
          BY <2>1, <3>0, <4>b, <4>2, <4>3
        <5>3. /\ c.order_index[old[k]] = b.order_index[old[k]]
              /\ c.order_index[old[m]] = b.order_index[old[m]]
          BY <3>1, <4>b, <4>2, <4>3
        <5> QED
          BY <4>k, <5>1, <5>2, <5>3
      <4>4. CASE m = n + 1
        <5>1. Queue(c, t, j)[m] = o.id
          BY <1>9, <4>1, <4>4
        <5>2. old[k] \in Resting(b) /\ c.order_index[old[k]] = b.order_index[old[k]]
          BY <3>1, <4>b, <4>2
        <5>3. c.order_index[o.id].order = o
          BY <1>6
        <5>4. b.order_index[old[k]].order.sequence < o.sequence
          BY <5>2
        <5> QED
          BY <4>k, <5>1, <5>2, <5>3, <5>4
      <4>5. m \in 1 .. n \/ m = n + 1
        BY <1>9, <4>1
      <4> QED
        BY <4>3, <4>4, <4>5
    <3>3. CASE ~(t = s /\ j = i)
      BY <1>7, <2>1, <3>0, <3>1, <3>3
    <3> QED
      BY <3>2, <3>3, ZenonT(30)
  <2> QED
    BY <2>1, ZenonT(30) DEF QueuesInTimeOrder, Queue
<1> QED
  BY <1>5, <1>6, <1>8, <1>10, <1>11, <1>12, <1>13, <1>14 DEF BookInv, Structured, c

\* A resting order that is taken out leaves the queue of its side and level,
\* and no other level changes.
LEMMA WithoutLevels ==
  ASSUME NEW b, BookInv(b), NEW x \in Resting(b)
  PROVE  LET c == Without(b, x)
             o == b.order_index[x].order
             i == b.order_index[x].level_index
         IN  /\ c.ladder \in [Sides -> Ladder]
             /\ \A t \in Sides : LadderSound(t, c.ladder[t])
             /\ \A t \in Sides, j \in Indices :
                  c.ladder[t].levels[j] =
                    IF t = o.side /\ j = i THEN level_unlink(b.ladder[t].levels[j], o)
                                           ELSE b.ladder[t].levels[j]
<1> DEFINE c == Without(b, x)
           o == b.order_index[x].order
           i == b.order_index[x].level_index
           s == o.side
           left == UnlinkFrom(s, b.ladder[s], i, o)
<1>1. /\ o \in Order /\ o.id = x /\ s \in Sides /\ i \in Indices
      /\ b.ladder \in [Sides -> Ladder]
  BY BookTypes, QueuedIffResting DEF BookInv
<1>2. o.id \in OrderIds /\ o.remaining \in Int
  BY <1>1 DEF Order
<1>3. \A t \in Sides : LadderSound(t, b.ladder[t])
  BY LaddersSound
<1>4. \E k \in DOMAIN b.ladder[s].levels[i].fifo : b.ladder[s].levels[i].fifo[k] = o.id
  <2>1. \E k \in DOMAIN Queue(b, s, i) : Queue(b, s, i)[k] = x
    BY QueuedIffResting
  <2> HIDE DEF o, i, s
  <2> QED
    BY <1>1, <2>1 DEF Queue
<1>5. c.ladder = [b.ladder EXCEPT ![s] = left]
  BY <1>1, ZenonT(30) DEF Without
<1> HIDE DEF c, o, i, s
<1>6. b.ladder[s] \in Ladder /\ b.ladder[s].levels \in [Indices -> PriceLevel]
  BY <1>1 DEF Ladder
<1>7. /\ left \in Ladder
      /\ LadderSound(s, left)
      /\ left.levels = [b.ladder[s].levels EXCEPT ![i] = level_unlink(@, o)]
  BY <1>1, <1>2, <1>3, <1>4, <1>6, UnlinkFromSound
<1> HIDE DEF left
<1>8. /\ c.ladder \in [Sides -> Ladder]
      /\ c.ladder[s] = left
      /\ \A t \in Sides \ {s} : c.ladder[t] = b.ladder[t]
  BY <1>1, <1>5, <1>7
<1>9. \A t \in Sides : LadderSound(t, c.ladder[t])
  BY <1>3, <1>7, <1>8
<1>10. \A j \in Indices : left.levels[j] =
         IF j = i THEN level_unlink(b.ladder[s].levels[i], o) ELSE b.ladder[s].levels[j]
  BY <1>1, <1>6, <1>7
<1> QED
  BY <1>8, <1>9, <1>10, ZenonT(30) DEF c, o, i, s

\* Taking a resting order out keeps the book sound and leaves every other
\* order as it is (unlink_and_free, erase and the count).
LEMMA WithoutSound ==
  ASSUME NEW b, BookInv(b), NEW x \in Resting(b)
  PROVE  /\ BookInv(Without(b, x))
         /\ Resting(Without(b, x)) = Resting(b) \ {x}
         /\ \A id \in Resting(b) \ {x} :
              Without(b, x).order_index[id] = b.order_index[id]
<1> DEFINE c == Without(b, x)
           o == b.order_index[x].order
           i == b.order_index[x].level_index
           s == o.side
           old == Queue(b, s, i)
           n == Position(old, x)
           new == RemovedAt(old, n)
<1>1. WellFormed(b)
  BY DEF BookInv
<1>2. o \in Order /\ o.id = x /\ s \in Sides /\ i \in Indices
  BY <1>1, BookTypes, QueuedIffResting
<1>3. b.ladder[s] \in Ladder /\ LadderSound(s, b.ladder[s])
  BY <1>2, LaddersSound
<1>4. /\ c.ladder = [b.ladder EXCEPT ![s] = UnlinkFrom(s, b.ladder[s], i, o)]
      /\ c.order_index = [id \in Resting(b) \ {x} |-> b.order_index[id]]
      /\ c.live_count = b.live_count - 1
      /\ c.order_count = b.order_count - 1
      /\ c = [ladder |-> c.ladder, order_index |-> c.order_index,
              live_count |-> c.live_count, order_count |-> c.order_count]
  BY <1>1, BookTypes DEF Without
<1>5. Resting(c) = Resting(b) \ {x}
  BY <1>4 DEF Resting
<1>6. \A id \in Resting(c) : c.order_index[id] = b.order_index[id]
  BY <1>4, <1>5
<1>7. /\ old \in Seq(OrderIds) /\ Len(old) \in Nat /\ DOMAIN old = 1 .. Len(old)
      /\ \A k \in 1 .. Len(old) : /\ old[k] \in Resting(b)
                                  /\ b.order_index[old[k]].order.side = s
                                  /\ b.order_index[old[k]].level_index = i
      /\ \A k, m \in 1 .. Len(old) : old[k] = old[m] => k = m
      /\ n \in 1 .. Len(old) /\ old[n] = x
  <2>1. old \in Seq(OrderIds) /\ Len(old) \in Nat /\ DOMAIN old = 1 .. Len(old)
    BY <1>1, <1>2, BookTypes
  <2>2. \E k \in DOMAIN old : old[k] = x
    BY QueuedIffResting
  <2>3. n \in 1 .. Len(old) /\ old[n] = x
    BY <2>1, <2>2, Zenon DEF Position
  <2>4. /\ \A k \in DOMAIN old : /\ old[k] \in Resting(b)
                                /\ b.order_index[old[k]].order.side = s
                                /\ b.order_index[old[k]].level_index = i
        /\ \A k, m \in DOMAIN old : old[k] = old[m] => k = m
    <3>1. \A t \in Sides, j \in Indices :
            /\ \A k \in DOMAIN Queue(b, t, j) :
                 /\ Queue(b, t, j)[k] \in Resting(b)
                 /\ b.order_index[Queue(b, t, j)[k]].order.side = t
                 /\ b.order_index[Queue(b, t, j)[k]].level_index = j
            /\ \A k, m \in DOMAIN Queue(b, t, j) :
                 Queue(b, t, j)[k] = Queue(b, t, j)[m] => k = m
      BY QueuedIffResting
    <3> HIDE DEF o, i, s
    <3> QED
      BY <1>2, <3>1
  <2> HIDE DEF old, n, o, i, s
  <2>5. \A k \in 1 .. Len(old) : /\ old[k] \in Resting(b)
                                 /\ b.order_index[old[k]].order.side = s
                                 /\ b.order_index[old[k]].level_index = i
    BY <2>1, <2>4
  <2>6. \A k, m \in 1 .. Len(old) : old[k] = old[m] => k = m
    BY <2>1, <2>4
  <2> QED
    BY <2>1, <2>3, <2>5, <2>6
<1> HIDE DEF c
<1>8. /\ c.ladder \in [Sides -> Ladder]
      /\ \A t \in Sides : LadderSound(t, c.ladder[t])
      /\ \A t \in Sides, j \in Indices :
           Queue(c, t, j) = IF t = s /\ j = i THEN new ELSE Queue(b, t, j)
  <2>1. /\ c.ladder \in [Sides -> Ladder]
        /\ \A t \in Sides : LadderSound(t, c.ladder[t])
        /\ \A t \in Sides, j \in Indices :
             c.ladder[t].levels[j] =
               IF t = s /\ j = i THEN level_unlink(b.ladder[t].levels[j], o)
                                 ELSE b.ladder[t].levels[j]
    BY WithoutLevels DEF c
  <2>2. level_unlink(b.ladder[s].levels[i], o).fifo = new
    BY <1>2, Zenon DEF level_unlink, Queue
  <2>3. ASSUME NEW t \in Sides, NEW j \in Indices
        PROVE  Queue(c, t, j) = IF t = s /\ j = i THEN new ELSE Queue(b, t, j)
    <3> HIDE DEF new, o, i, s
    <3> QED
      BY <2>1, <2>2, <2>3 DEF Queue
  <2> QED
    BY <2>1, <2>3
<1>9. WellFormed(c)
  <2>1. c.order_index \in [Resting(c) -> Node]
    BY <1>1, <1>4, <1>5, BookTypes
  <2>2. c.live_count \in Int /\ c.order_count \in Int
    BY <1>1, <1>4, BookTypes
  <2>3. c \in BookWith(Resting(c))
    BY <1>4, <1>8, <2>1, <2>2, Zenon DEF BookWith
  <2>4. IsFiniteSet(Resting(c))
    BY <1>1, <1>5, FS_RemoveElement DEF WellFormed
  <2> QED
    BY <1>1, <1>5, <2>3, <2>4 DEF WellFormed
<1>10. /\ new \in Seq(OrderIds) /\ Len(new) = Len(old) - 1
       /\ DOMAIN new = 1 .. Len(old) - 1
       /\ \A k \in 1 .. Len(old) - 1 : new[k] = IF k < n THEN old[k] ELSE old[k + 1]
  <2> HIDE DEF old, n
  <2>1. /\ new \in Seq(OrderIds) /\ Len(new) = Len(old) - 1
        /\ \A k \in 1 .. Len(old) - 1 : new[k] = IF k < n THEN old[k] ELSE old[k + 1]
    BY <1>7, RemovedAtProperties, Zenon
  <2> QED
    BY <2>1
<1> HIDE DEF new, n
<1>11. \A k \in 1 .. Len(old) - 1 :
         \E h \in 1 .. Len(old) :
           h # n /\ h = (IF k < n THEN k ELSE k + 1) /\ new[k] = old[h]
  <2> HIDE DEF old
  <2> TAKE k \in 1 .. Len(old) - 1
  <2>1. CASE k < n
    BY <1>7, <1>10, <2>1
  <2>2. CASE ~(k < n)
    BY <1>7, <1>10, <2>2
  <2> QED
    BY <2>1, <2>2
<1>12. QueuesMatchIndex(c)
  <2>1. ASSUME NEW t \in Sides, NEW j \in Indices
        PROVE  /\ IsInjective(Queue(c, t, j))
               /\ \A k \in DOMAIN Queue(c, t, j) :
                    /\ Queue(c, t, j)[k] \in Resting(c)
                    /\ c.order_index[Queue(c, t, j)[k]].order.side = t
                    /\ c.order_index[Queue(c, t, j)[k]].level_index = j
    <3>1. CASE t = s /\ j = i
      <4>1. Queue(c, t, j) = new
        BY <1>8, <3>1
      <4> HIDE DEF old, i, o
      <4>2. ASSUME NEW k \in DOMAIN new, NEW m \in DOMAIN new, new[k] = new[m]
            PROVE  k = m
        <5>1. PICK h \in 1 .. Len(old) :
                h = (IF k < n THEN k ELSE k + 1) /\ new[k] = old[h]
          BY <1>10, <1>11
        <5>2. PICK g \in 1 .. Len(old) :
                g = (IF m < n THEN m ELSE m + 1) /\ new[m] = old[g]
          BY <1>10, <1>11
        <5>3. h = g
          BY <1>7, <4>2, <5>1, <5>2, Zenon
        <5> QED
          BY <1>7, <1>10, <5>1, <5>2, <5>3
      <4>3. ASSUME NEW k \in DOMAIN new
            PROVE  /\ new[k] \in Resting(c)
                   /\ c.order_index[new[k]].order.side = s
                   /\ c.order_index[new[k]].level_index = i
        <5>1. PICK h \in 1 .. Len(old) : h # n /\ new[k] = old[h]
          BY <1>10, <1>11
        <5>2. old[h] # x
          BY <1>7, <5>1
        <5> QED
          BY <1>5, <1>6, <1>7, <5>1, <5>2
      <4> QED
        BY <3>1, <4>1, <4>2, <4>3 DEF IsInjective
    <3>2. CASE ~(t = s /\ j = i)
      <4>1. Queue(c, t, j) = Queue(b, t, j)
        BY <1>8, <3>2
      <4>2. IsInjective(Queue(b, t, j))
        BY QueuedIffResting DEF IsInjective
      <4>3. \A k \in DOMAIN Queue(b, t, j) : Queue(b, t, j)[k] # x
        BY <3>2, QueuedIffResting
      <4> QED
        BY <1>5, <1>6, <4>1, <4>2, <4>3, QueuedIffResting
    <3> QED
      BY <3>1, <3>2
  <2>2. ASSUME NEW id \in Resting(c)
        PROVE  LET node == c.order_index[id]
               IN  /\ node.order.id = id
                   /\ node.level_index = index_of(node.order.price)
                   /\ \E k \in DOMAIN Queue(c, node.order.side, node.level_index) :
                        Queue(c, node.order.side, node.level_index)[k] = id
    <3> DEFINE t == b.order_index[id].order.side
               j == b.order_index[id].level_index
    <3>1. id \in Resting(b) /\ id # x /\ c.order_index[id] = b.order_index[id]
      BY <1>5, <1>6
    <3>2. t \in Sides /\ j \in Indices
      BY <1>1, <3>1, BookTypes
    <3>3. PICK k \in DOMAIN Queue(b, t, j) : Queue(b, t, j)[k] = id
      BY <3>1, QueuedIffResting
    <3>4. \E m \in DOMAIN Queue(c, t, j) : Queue(c, t, j)[m] = id
      <4>1. CASE t = s /\ j = i
        <5>1. k \in 1 .. Len(old) /\ old[k] = id /\ k # n
          BY <1>7, <3>1, <3>3, <4>1, Zenon
        <5> DEFINE m == IF k < n THEN k ELSE k - 1
        <5> HIDE DEF old, i, o, t, j
        <5>2. m \in 1 .. Len(old) - 1 /\ new[m] = old[k]
          BY <1>7, <1>10, <5>1
        <5> QED
          BY <1>8, <1>10, <3>2, <4>1, <5>1, <5>2
      <4>2. CASE ~(t = s /\ j = i)
        BY <1>8, <3>2, <3>3, <4>2
      <4> QED
        BY <4>1, <4>2
    <3> QED
      BY <3>1, <3>4, QueuedIffResting
  <2> QED
    BY <2>1, <2>2, Zenon DEF QueuesMatchIndex, Queue
<1>13. CountsMatchQueues(c)
  <2>1. \A id \in Resting(c) : c.order_index[id].order.remaining > 0
    BY <1>5, <1>6 DEF BookInv, Structured, CountsMatchQueues
  <2> QED
    BY <1>8, <2>1 DEF CountsMatchQueues, LadderSound
<1>14. BestIsTouch(c)
  BY <1>8 DEF BestIsTouch, LadderSound
<1>15. NothingLeaked(c)
  <2>1. Cardinality(Resting(c)) = Cardinality(Resting(b)) - 1
    BY <1>1, <1>5, FS_RemoveElement, Zenon DEF WellFormed
  <2>2. Cardinality(Resting(b)) \in Nat
    BY <1>1, FS_CardinalityType DEF WellFormed
  <2> QED
    BY <1>4, <2>1, <2>2, BookAssumption DEF NothingLeaked, BookInv, Structured
<1>16. QueuesInTimeOrder(c)
  <2>1. ASSUME NEW t \in Sides, NEW j \in Indices,
               NEW k \in DOMAIN Queue(c, t, j), NEW m \in DOMAIN Queue(c, t, j), k < m
        PROVE  c.order_index[Queue(c, t, j)[k]].order.sequence
                 < c.order_index[Queue(c, t, j)[m]].order.sequence
    <3>0. \A h, g \in DOMAIN Queue(b, t, j) :
            h < g => b.order_index[Queue(b, t, j)[h]].order.sequence
                       < b.order_index[Queue(b, t, j)[g]].order.sequence
      BY Zenon DEF BookInv, Structured, QueuesInTimeOrder, Queue
    <3>1. /\ c.order_index[Queue(c, t, j)[k]] = b.order_index[Queue(c, t, j)[k]]
          /\ c.order_index[Queue(c, t, j)[m]] = b.order_index[Queue(c, t, j)[m]]
      BY <1>6, <1>12, Zenon DEF QueuesMatchIndex, Queue
    <3>2. CASE t = s /\ j = i
      <4>1. Queue(c, t, j) = new /\ Queue(b, t, j) = old
        BY <1>8, <3>2
      <4> HIDE DEF old, i, o
      <4>2. PICK h \in 1 .. Len(old) :
              h = (IF k < n THEN k ELSE k + 1) /\ new[k] = old[h]
        BY <1>10, <1>11, <4>1
      <4>3. PICK g \in 1 .. Len(old) :
              g = (IF m < n THEN m ELSE m + 1) /\ new[m] = old[g]
        BY <1>10, <1>11, <4>1
      <4>4. h < g
        BY <1>7, <1>10, <2>1, <4>1, <4>2, <4>3
      <4>5. b.order_index[old[h]].order.sequence < b.order_index[old[g]].order.sequence
        <5>1. h \in DOMAIN Queue(b, t, j) /\ g \in DOMAIN Queue(b, t, j)
          BY <1>7, <4>1, <4>2, <4>3
        <5> QED
          BY <3>0, <4>1, <4>4, <5>1, ZenonT(30)
      <4> QED
        BY <3>1, <4>1, <4>2, <4>3, <4>5, Zenon
    <3>3. CASE ~(t = s /\ j = i)
      BY <1>8, <2>1, <3>0, <3>1, <3>3
    <3> QED
      BY <3>2, <3>3
  <2> QED
    BY <2>1, Zenon DEF QueuesInTimeOrder, Queue
<1> QED
  BY <1>5, <1>6, <1>9, <1>12, <1>13, <1>14, <1>15, <1>16 DEF BookInv, Structured, c

\* A partial fill of a resting order keeps the book sound: it changes no
\* queue, only what the order has open (the last branch of reduce_quantity).
LEMMA ShrunkSound ==
  ASSUME NEW b, BookInv(b), NEW x \in Resting(b), NEW q \in Int,
         0 < q, q < b.order_index[x].order.remaining
  PROVE  /\ BookInv(Shrunk(b, x, q))
         /\ Resting(Shrunk(b, x, q)) = Resting(b)
         /\ \A id \in Resting(b) \ {x} :
              Shrunk(b, x, q).order_index[id] = b.order_index[id]
         /\ Shrunk(b, x, q).order_index[x].order =
              [b.order_index[x].order EXCEPT !.remaining = @ - q]
<1> DEFINE c == Shrunk(b, x, q)
           node == b.order_index[x]
           s == node.order.side
           i == node.level_index
           lvl == [b.ladder[s].levels[i] EXCEPT !.total_quantity = @ - q]
           side == [b.ladder[s] EXCEPT !.levels[i] = lvl]
           less == [node EXCEPT !.order.remaining = @ - q]
<1>1. WellFormed(b)
  BY DEF BookInv
<1>2. /\ node \in Node /\ node.order \in Order /\ s \in Sides /\ i \in Indices
      /\ b.ladder \in [Sides -> Ladder] /\ b.order_index \in [Resting(b) -> Node]
      /\ b.ladder[s].levels[i] \in PriceLevel
  BY <1>1, BookTypes, ZenonT(30)
<1>3. /\ c.ladder = [b.ladder EXCEPT ![s] = side]
      /\ c.order_index = [b.order_index EXCEPT ![x] = less]
      /\ c.live_count = b.live_count
      /\ c.order_count = b.order_count
      /\ c = [ladder |-> c.ladder, order_index |-> c.order_index,
              live_count |-> c.live_count, order_count |-> c.order_count]
  <2>1. b = [ladder |-> b.ladder, order_index |-> b.order_index,
             live_count |-> b.live_count, order_count |-> b.order_count]
    BY <1>1, BookTypes
  <2>2. c = [b EXCEPT !.ladder[s].levels[i].total_quantity = @ - q,
                      !.order_index[x].order.remaining = @ - q]
    BY DEF Shrunk
  <2>3. c = [ladder |-> [b.ladder EXCEPT ![s].levels[i].total_quantity = @ - q],
             order_index |-> [b.order_index EXCEPT ![x].order.remaining = @ - q],
             live_count |-> b.live_count, order_count |-> b.order_count]
    BY <2>1, <2>2, Zenon
  <2>4. [b.ladder EXCEPT ![s].levels[i].total_quantity = @ - q]
          = [b.ladder EXCEPT ![s] = side]
    OBVIOUS
  <2>5. [b.order_index EXCEPT ![x].order.remaining = @ - q]
          = [b.order_index EXCEPT ![x] = less]
    OBVIOUS
  <2>6. c = [ladder |-> [b.ladder EXCEPT ![s] = side],
             order_index |-> [b.order_index EXCEPT ![x] = less],
             live_count |-> b.live_count, order_count |-> b.order_count]
    BY <2>3, <2>4, <2>5, Zenon
  <2> HIDE DEF c, side, less
  <2> QED
    BY <2>6
<1>4. /\ lvl \in PriceLevel
      /\ lvl.fifo = b.ladder[s].levels[i].fifo
      /\ lvl.order_count = b.ladder[s].levels[i].order_count
  <2> DEFINE L == b.ladder[s].levels[i]
  <2>1. L \in PriceLevel /\ lvl = [L EXCEPT !.total_quantity = @ - q]
    BY <1>2, Zenon
  <2> HIDE DEF L, lvl
  <2>2. lvl \in PriceLevel /\ lvl.fifo = L.fifo /\ lvl.order_count = L.order_count
    BY <2>1 DEF PriceLevel
  <2> QED
    BY <2>2, Zenon DEF L
<1>5. /\ less \in Node
      /\ less.order = [node.order EXCEPT !.remaining = @ - q]
      /\ less.order.remaining = node.order.remaining - q
      /\ less.order.remaining > 0
      /\ less.order.id = node.order.id
      /\ less.order.side = node.order.side
      /\ less.order.price = node.order.price
      /\ less.order.sequence = node.order.sequence
      /\ less.level_index = node.level_index
  <2>1. q < node.order.remaining
    OBVIOUS
  <2> HIDE DEF node
  <2>2. less.order = [node.order EXCEPT !.remaining = @ - q]
        /\ less.level_index = node.level_index
        /\ less = [order |-> less.order, level_index |-> less.level_index]
    BY <1>2 DEF Node
  <2>3. node.order.remaining \in Int
    BY <1>2 DEF Order
  <2> HIDE DEF less
  <2>4. /\ less.order \in Order
        /\ less.order.remaining = node.order.remaining - q
        /\ less.order.id = node.order.id
        /\ less.order.side = node.order.side
        /\ less.order.price = node.order.price
        /\ less.order.sequence = node.order.sequence
    BY <1>2, <2>2, <2>3 DEF Order
  <2>5. less \in Node
    BY <1>2, <2>2, <2>4 DEF Node
  <2> QED
    BY <2>1, <2>2, <2>3, <2>4, <2>5
<1>6. Resting(c) = Resting(b)
  BY <1>2, <1>3, Zenon DEF Resting
<1>7. \A id \in Resting(b) : c.order_index[id] = IF id = x THEN less ELSE b.order_index[id]
  BY <1>2, <1>3, Zenon
<1>8. /\ side \in Ladder
      /\ side.occupied = b.ladder[s].occupied
      /\ side.best_index = b.ladder[s].best_index
      /\ \A j \in Indices : side.levels[j] = IF j = i THEN lvl ELSE b.ladder[s].levels[j]
  <2>1. b.ladder[s] \in Ladder
    BY <1>2, ZenonT(30)
  <2> HIDE DEF s, i, lvl
  <2> QED
    BY <1>2, <1>4, <2>1 DEF Ladder
<1> HIDE DEF c, side, lvl, less
<1>9. /\ c.ladder \in [Sides -> Ladder]
      /\ \A t \in Sides : /\ c.ladder[t].occupied = b.ladder[t].occupied
                          /\ c.ladder[t].best_index = b.ladder[t].best_index
      /\ \A t \in Sides, j \in Indices :
           /\ Queue(c, t, j) = Queue(b, t, j)
           /\ c.ladder[t].levels[j].order_count = b.ladder[t].levels[j].order_count
  <2> HIDE DEF s, i
  <2> QED
    BY <1>2, <1>3, <1>4, <1>8 DEF Queue
<1>10. WellFormed(c)
  <2>1. c.order_index \in [Resting(c) -> Node]
    <3> HIDE DEF node
    <3> QED
      BY <1>2, <1>3, <1>5, <1>6
  <2>2. c.live_count \in Int /\ c.order_count \in Int
    BY <1>1, <1>3, BookTypes
  <2>3. c \in BookWith(Resting(c))
    BY <1>3, <1>9, <2>1, <2>2 DEF BookWith
  <2> QED
    BY <1>1, <1>6, <2>3 DEF WellFormed
<1>11. \A id \in Resting(b) :
         /\ c.order_index[id].order.id = b.order_index[id].order.id
         /\ c.order_index[id].order.side = b.order_index[id].order.side
         /\ c.order_index[id].order.price = b.order_index[id].order.price
         /\ c.order_index[id].order.sequence = b.order_index[id].order.sequence
         /\ c.order_index[id].level_index = b.order_index[id].level_index
         /\ c.order_index[id].order.remaining > 0
  BY <1>5, <1>7, Zenon DEF BookInv, Structured, CountsMatchQueues
<1>12. QueuesMatchIndex(c)
  <2>1. ASSUME NEW t \in Sides, NEW j \in Indices
        PROVE  /\ IsInjective(Queue(c, t, j))
               /\ \A k \in DOMAIN Queue(c, t, j) :
                    /\ Queue(c, t, j)[k] \in Resting(c)
                    /\ c.order_index[Queue(c, t, j)[k]].order.side = t
                    /\ c.order_index[Queue(c, t, j)[k]].level_index = j
    <3>1. Queue(c, t, j) = Queue(b, t, j)
      BY <1>9
    <3>2. /\ \A k \in DOMAIN Queue(b, t, j) :
               /\ Queue(b, t, j)[k] \in Resting(b)
               /\ b.order_index[Queue(b, t, j)[k]].order.side = t
               /\ b.order_index[Queue(b, t, j)[k]].level_index = j
          /\ \A k, m \in DOMAIN Queue(b, t, j) :
               Queue(b, t, j)[k] = Queue(b, t, j)[m] => k = m
      BY QueuedIffResting
    <3>3. IsInjective(Queue(b, t, j))
      BY <3>2 DEF IsInjective
    <3>4. ASSUME NEW k \in DOMAIN Queue(b, t, j)
          PROVE  /\ Queue(b, t, j)[k] \in Resting(c)
                 /\ c.order_index[Queue(b, t, j)[k]].order.side = t
                 /\ c.order_index[Queue(b, t, j)[k]].level_index = j
      BY <1>6, <1>11, <3>2
    <3> QED
      BY <3>1, <3>3, <3>4
  <2>2. ASSUME NEW id \in Resting(c)
        PROVE  LET nd == c.order_index[id]
               IN  /\ nd.order.id = id
                   /\ nd.level_index = index_of(nd.order.price)
                   /\ \E k \in DOMAIN Queue(c, nd.order.side, nd.level_index) :
                        Queue(c, nd.order.side, nd.level_index)[k] = id
    <3>1. id \in Resting(b)
      BY <1>6
    <3>2. /\ b.order_index[id].order.side \in Sides
          /\ b.order_index[id].level_index \in Indices
      BY <1>1, <3>1, BookTypes
    <3>3. /\ b.order_index[id].order.id = id
          /\ b.order_index[id].level_index = index_of(b.order_index[id].order.price)
          /\ \E k \in DOMAIN Queue(b, b.order_index[id].order.side,
                                    b.order_index[id].level_index) :
               Queue(b, b.order_index[id].order.side,
                     b.order_index[id].level_index)[k] = id
      BY <3>1, QueuedIffResting
    <3>4. Queue(c, b.order_index[id].order.side, b.order_index[id].level_index)
            = Queue(b, b.order_index[id].order.side, b.order_index[id].level_index)
      BY <1>9, <3>2
    <3>5. /\ c.order_index[id].order.id = b.order_index[id].order.id
          /\ c.order_index[id].order.side = b.order_index[id].order.side
          /\ c.order_index[id].order.price = b.order_index[id].order.price
          /\ c.order_index[id].level_index = b.order_index[id].level_index
      BY <1>11, <3>1
    <3> QED
      BY <3>3, <3>4, <3>5, Zenon
  <2> QED
    BY <2>1, <2>2, Zenon DEF QueuesMatchIndex, Queue
<1>13. CountsMatchQueues(c)
  BY <1>6, <1>9, <1>11 DEF BookInv, Structured, CountsMatchQueues, Queue
<1>14. BestIsTouch(c)
  BY <1>9 DEF BookInv, Structured, BestIsTouch, Queue
<1>15. NothingLeaked(c)
  BY <1>3, <1>6 DEF BookInv, Structured, NothingLeaked
<1>16. QueuesInTimeOrder(c)
  <2>1. \A t \in Sides, j \in Indices : \A k \in DOMAIN Queue(b, t, j) :
          Queue(b, t, j)[k] \in Resting(b)
    BY QueuedIffResting
  <2>2. QueuesInTimeOrder(b)
    BY DEF BookInv, Structured
  <2>3. ASSUME NEW t \in Sides, NEW j \in Indices,
               NEW k \in DOMAIN Queue(b, t, j), NEW m \in DOMAIN Queue(b, t, j), k < m
        PROVE  c.order_index[Queue(b, t, j)[k]].order.sequence
                 < c.order_index[Queue(b, t, j)[m]].order.sequence
    <3>1. b.order_index[Queue(b, t, j)[k]].order.sequence
            < b.order_index[Queue(b, t, j)[m]].order.sequence
      BY <2>2, <2>3, Zenon DEF QueuesInTimeOrder, Queue
    <3> QED
      BY <1>11, <2>1, <3>1
  <2> QED
    BY <1>9, <2>3, Zenon DEF QueuesInTimeOrder, Queue
<1> QED
  BY <1>5, <1>6, <1>7, <1>10, <1>12, <1>13, <1>14, <1>15, <1>16
  DEF BookInv, Structured, c

\* The empty book is sound.
LEMMA EmptyBookSound == BookInv(EmptyBook) /\ Resting(EmptyBook) = {}
<1>1. Resting(EmptyBook) = {}
  BY DEF Resting, EmptyBook
<1>2. /\ EmptyLevel \in PriceLevel
      /\ EmptyLadder \in Ladder
      /\ \A i \in Indices : EmptyLadder.levels[i] = EmptyLevel
      /\ EmptyLadder.occupied = {} /\ EmptyLadder.best_index = NoIndex
      /\ \A s \in Sides : EmptyBook.ladder[s] = EmptyLadder
      /\ EmptyLevel.fifo = << >> /\ EmptyLevel.order_count = 0
  BY DEF PriceLevel, EmptyLevel, Ladder, EmptyLadder, EmptyBook
<1>3. WellFormed(EmptyBook)
  <2>1. EmptyBook.order_index \in [{} -> Node]
    BY DEF EmptyBook
  <2>2. EmptyBook \in BookWith({})
    BY <1>2, <2>1 DEF EmptyBook, BookWith
  <2> QED
    BY <1>1, <2>2, FS_EmptySet DEF WellFormed
<1>4. Structured(EmptyBook)
  <2>0. \A s \in Sides, i \in Indices :
          /\ EmptyBook.ladder[s].levels[i].fifo = << >>
          /\ DOMAIN EmptyBook.ladder[s].levels[i].fifo = {}
    BY <1>2
  <2>1. QueuesMatchIndex(EmptyBook)
    BY <1>1, <2>0, Zenon DEF QueuesMatchIndex, IsInjective
  <2>2. CountsMatchQueues(EmptyBook)
    BY <1>1, <1>2 DEF CountsMatchQueues
  <2>3. BestIsTouch(EmptyBook)
    BY <1>2 DEF BestIsTouch
  <2>4. NothingLeaked(EmptyBook)
    <3>1. EmptyBook.live_count = 0 /\ EmptyBook.order_count = 0
      BY DEF EmptyBook
    <3> QED
      BY <1>1, <3>1, FS_EmptySet, BookAssumption DEF NothingLeaked
  <2>5. QueuesInTimeOrder(EmptyBook)
    BY <2>0, Zenon DEF QueuesInTimeOrder
  <2> QED
    BY <2>1, <2>2, <2>3, <2>4, <2>5 DEF Structured
<1> QED
  BY <1>1, <1>3, <1>4 DEF BookInv

\* When a side has a best price, the queue at that price has a front, and it
\* is a resting order of that side and price (front_at of best_bid or
\* best_ask is never null).
LEMMA FrontOfBest ==
  ASSUME NEW b, BookInv(b), NEW s \in Sides, best_index(b, s) # NoIndex
  PROVE  LET id == Head(Queue(b, s, best_index(b, s)))
         IN  /\ best_index(b, s) \in Indices
             /\ id \in Resting(b)
             /\ b.order_index[id].order.id = id
             /\ b.order_index[id].order.side = s
             /\ b.order_index[id].order.price = price_at(best_index(b, s))
             /\ front_at(b, s, price_at(best_index(b, s))) = b.order_index[id].order
<1> DEFINE i == best_index(b, s)
           q == Queue(b, s, i)
<1>1. WellFormed(b)
  BY DEF BookInv
<1>2. i \in Indices /\ q # << >>
  BY DEF BookInv, Structured, BestIsTouch, best_index, Queue
<1>3. q \in Seq(OrderIds) /\ DOMAIN q = 1 .. Len(q) /\ Len(q) \in Nat
  BY <1>1, <1>2, BookTypes
<1>4. 1 \in DOMAIN q /\ Head(q) = q[1]
  <2> HIDE DEF q
  <2> QED
    BY <1>2, <1>3
<1>5. /\ Head(q) \in Resting(b)
      /\ b.order_index[Head(q)].order.side = s
      /\ b.order_index[Head(q)].level_index = i
  BY <1>2, <1>4, QueuedIffResting
<1>6. /\ b.order_index[Head(q)].order.id = Head(q)
      /\ i = index_of(b.order_index[Head(q)].order.price)
  BY <1>5, QueuedIffResting
<1>7. b.order_index[Head(q)].order.price \in Int
  BY <1>1, <1>5, BookTypes DEF Order
<1>8. b.order_index[Head(q)].order.price = price_at(i)
  <2> DEFINE p == b.order_index[Head(q)].order.price
  <2>1. p \in Int /\ index_of(p) = i /\ i # NoIndex
    BY <1>6, <1>7
  <2> HIDE DEF p, i
  <2> QED
    BY <2>1, IndexOfPrice DEF p
<1>9. index_of(price_at(i)) = i
  BY <1>6, <1>8
<1>10. front_at(b, s, price_at(i)) = b.order_index[Head(q)].order
  BY <1>9 DEF front_at, level_at, Queue
<1> QED
  BY <1>2, <1>5, <1>6, <1>8, <1>10

\* No resting order of a side has a better price than the touch, and a side
\* without a touch has no resting order.
LEMMA TouchBounds ==
  ASSUME NEW b, BookInv(b), NEW id \in Resting(b)
  PROVE  LET o == b.order_index[id].order
             best == best_index(b, o.side)
         IN  /\ best # NoIndex
             /\ o.price \in Int
             /\ o.side = "Buy" => o.price <= price_at(best)
             /\ o.side = "Sell" => o.price >= price_at(best)
<1> DEFINE o == b.order_index[id].order
           s == o.side
           i == b.order_index[id].level_index
           best == best_index(b, s)
<1>1. WellFormed(b)
  BY DEF BookInv
<1>2. s \in Sides /\ i \in Indices /\ o.price \in Int
  BY <1>1, BookTypes DEF Order
<1>3. i = index_of(o.price)
  BY QueuedIffResting
<1>4. Queue(b, s, i) # << >>
  BY QueuedIffResting
<1>5. LadderSound(s, b.ladder[s]) /\ b.ladder[s] \in Ladder
  BY <1>2, LaddersSound
<1>6. i \in b.ladder[s].occupied
  BY <1>2, <1>4, <1>5, Zenon DEF LadderSound, Queue
<1>7. best # NoIndex /\ (best = i \/ is_better(s, best, i)) /\ best \in Indices
  <2>1. best = b.ladder[s].best_index
    BY DEF best_index
  <2>2. b.ladder[s].occupied \in SUBSET Indices
    BY <1>5, Zenon DEF Ladder
  <2>3. /\ best \in b.ladder[s].occupied
        /\ \A j \in b.ladder[s].occupied \ {best} : is_better(s, best, j)
    BY <1>5, <1>6, <2>1, Zenon DEF LadderSound
  <2> HIDE DEF best
  <2>4. best \in Indices /\ (best = i \/ is_better(s, best, i))
    BY <1>6, <2>2, <2>3, Zenon
  <2> QED
    BY <2>4, LadderAssumption DEF Indices, NoIndex
<1>8. o.price = price_at(i)
  <2> DEFINE p == o.price
  <2>1. p \in Int /\ index_of(p) = i /\ i # NoIndex
    BY <1>2, <1>3, LadderAssumption DEF Indices, NoIndex
  <2> HIDE DEF p, i
  <2> QED
    BY <2>1, IndexOfPrice DEF p
<1> HIDE DEF o, i, best
<1> QED
  BY <1>2, <1>7, <1>8, LadderAssumption, BookAssumption
  DEF price_at, is_better, Indices, o, best

\* What the queries of a ladder say in terms of prices: a limit order crosses
\* a resting one only if it crosses the touch.
LEMMA CrossesOnlyThroughTouch ==
  ASSUME NEW b, BookInv(b), NEW id \in Resting(b), NEW p \in Int
  PROVE  LET o == b.order_index[id].order
             best == best_index(b, o.side)
         IN  /\ o.side = "Sell" /\ ~(p >= price_at(best)) => p < o.price
             /\ o.side = "Buy" /\ ~(p <= price_at(best)) => o.price < p
<1> DEFINE o == b.order_index[id].order
           best == best_index(b, o.side)
<1>1. /\ best # NoIndex
      /\ o.price \in Int
      /\ o.side = "Buy" => o.price <= price_at(best)
      /\ o.side = "Sell" => o.price >= price_at(best)
  BY TouchBounds
<1>2. best \in Indices
  <2>1. o.side \in Sides
    BY BookTypes DEF BookInv
  <2> QED
    BY <1>1, <2>1, FrontOfBest
<1>3. price_at(best) \in Int
  BY <1>2, LadderAssumption, BookAssumption DEF price_at, Indices
<1> HIDE DEF o, best
<1> QED
  BY <1>1, <1>3 DEF o, best

\* What is left of the orders of b in c has the terms it had in b.
KeepsTerms(b, c) ==
  /\ Resting(c) \subseteq Resting(b)
  /\ \A id \in Resting(c) :
       LET old == b.order_index[id].order
           new == c.order_index[id].order
       IN  /\ new.client = old.client
           /\ new.side = old.side /\ new.price = old.price
           /\ new.type = old.type /\ new.tif = old.tif
           /\ new.symbol = old.symbol /\ new.sequence = old.sequence

\* A fill that a resting order can take is never refused and keeps the book
\* sound (reduce_quantity as the matching engine calls it).
LEMMA ReduceSound ==
  ASSUME NEW b, BookInv(b), NEW x \in Resting(b), NEW q \in Int,
         0 < q, q <= b.order_index[x].order.remaining
  PROVE  /\ reduce_quantity(b, x, q).error = "None"
         /\ BookInv(reduce_quantity(b, x, q).book)
         /\ KeepsTerms(b, reduce_quantity(b, x, q).book)
         /\ reduce_quantity(b, x, q).book =
              IF q = b.order_index[x].order.remaining THEN Without(b, x) ELSE Shrunk(b, x, q)
<1> DEFINE r == b.order_index[x].order.remaining
           c == reduce_quantity(b, x, q).book
<1>1. b.order_index[x].order \in Order /\ r \in Int
  BY BookTypes DEF BookInv, Order
<1>2. /\ reduce_quantity(b, x, q).error = "None"
      /\ c = IF q = r THEN Without(b, x) ELSE Shrunk(b, x, q)
  BY <1>1 DEF reduce_quantity
<1> HIDE DEF c
<1>3. CASE q = r
  <2>1. c = Without(b, x)
    BY <1>2, <1>3
  <2>2. BookInv(c)
    BY <2>1, WithoutSound
  <2>3. KeepsTerms(b, c)
    BY <2>1, WithoutSound DEF KeepsTerms
  <2> QED
    BY <1>2, <2>2, <2>3 DEF c
<1>4. CASE q # r
  <2>1. c = Shrunk(b, x, q) /\ q < r
    BY <1>1, <1>2, <1>4
  <2>2. /\ BookInv(c)
        /\ Resting(c) = Resting(b)
        /\ \A id \in Resting(b) \ {x} : c.order_index[id] = b.order_index[id]
        /\ c.order_index[x].order = [b.order_index[x].order EXCEPT !.remaining = @ - q]
    BY <2>1, ShrunkSound
  <2>3. KeepsTerms(b, c)
    <3> DEFINE old == b.order_index[x].order
               new == c.order_index[x].order
    <3>1. old \in Order /\ new = [old EXCEPT !.remaining = @ - q]
      BY <1>1, <2>2
    <3> HIDE DEF old, new
    <3>2. /\ new.client = old.client
          /\ new.side = old.side /\ new.price = old.price
          /\ new.type = old.type /\ new.tif = old.tif
          /\ new.symbol = old.symbol /\ new.sequence = old.sequence
      BY <3>1 DEF Order
    <3> QED
      BY <2>2, <3>2, Zenon DEF KeepsTerms, old, new
  <2> QED
    BY <1>2, <2>2, <2>3 DEF c
<1> QED
  BY <1>3, <1>4

\* An order with new terms is again an order, of the same side and kind.
LEMMA UpdatedOrder ==
  ASSUME NEW o \in Order, NEW p \in Int, NEW q \in Int, NEW n \in Nat
  PROVE  LET u == Updated(o, p, q, n)
         IN  /\ u \in Order
             /\ u.id = o.id /\ u.side = o.side /\ u.type = o.type /\ u.tif = o.tif
             /\ u.client = o.client /\ u.symbol = o.symbol
             /\ u.price = p /\ u.quantity = q /\ u.remaining = q /\ u.sequence = n
  BY Zenon DEF Updated, Order

\* An order taken out of the book always fits back in, at any price of the
\* ladder: the node it occupied is free again (the argument of the comment
\* in replace).
LEMMA ReplacedFitsBack ==
  ASSUME NEW b, BookInv(b), NEW x \in Resting(b), NEW u \in Order,
         u.id = x, u.type = "Limit", u.remaining > 0, index_of(u.price) # NoIndex
  PROVE  add_error(Without(b, x), u) = "None"
<1>1. /\ BookInv(Without(b, x))
      /\ Resting(Without(b, x)) = Resting(b) \ {x}
  BY WithoutSound
<1>2. Without(b, x).live_count = b.live_count - 1
  BY ZenonT(30) DEF Without
<1>3. b.live_count \in Int /\ b.live_count <= MaxOrders
  BY BookTypes DEF BookInv, Structured, NothingLeaked
<1>4. u.remaining \in Int
  BY DEF Order
<1> QED
  BY <1>1, <1>2, <1>3, <1>4, BookAssumption DEF add_error
-----------------------------------------------------------------------------
(* The aggregate quantities.                                              *)

\* The ids that the queue of a level holds are those of the resting orders of
\* that side and price.
LEMMA QueueHolds ==
  ASSUME NEW b, BookInv(b), NEW s \in Sides, NEW i \in Indices
  PROVE  /\ Range(Queue(b, s, i)) =
              {id \in Resting(b) : /\ b.order_index[id].order.side = s
                                   /\ b.order_index[id].level_index = i}
         /\ IsFiniteSet(Range(Queue(b, s, i)))
<1> DEFINE held == {id \in Resting(b) : /\ b.order_index[id].order.side = s
                                        /\ b.order_index[id].level_index = i}
<1>1. \A k \in DOMAIN Queue(b, s, i) : Queue(b, s, i)[k] \in held
  BY QueuedIffResting
<1>2. ASSUME NEW id \in held PROVE \E k \in DOMAIN Queue(b, s, i) : Queue(b, s, i)[k] = id
  BY QueuedIffResting
<1>3. Range(Queue(b, s, i)) = held
  BY <1>1, <1>2 DEF Range
<1>4. IsFiniteSet(held)
  BY FS_Subset DEF BookInv, WellFormed
<1> QED
  BY <1>3, <1>4

\* What the resting orders have open are integers.
LEMMA OpenType ==
  ASSUME NEW b, WellFormed(b)
  PROVE  \A id \in Resting(b) : Open(b)[id] = b.order_index[id].order.remaining
                                /\ Open(b)[id] \in Int
  BY BookTypes DEF Open, Order

\* Storing an order adds what it has open to the aggregate of its level.
LEMMA RestKeepsQuantities ==
  ASSUME NEW b, BookInv(b), QuantitiesMatchQueues(b), NEW o \in Order,
         add_error(b, o) = "None",
         \A id \in Resting(b) : b.order_index[id].order.sequence < o.sequence
  PROVE  QuantitiesMatchQueues(Rest(b, o))
<1> DEFINE c == Rest(b, o)
           i == index_of(o.price)
           s == o.side
<1>1. /\ BookInv(c) /\ Resting(c) = Resting(b) \cup {o.id}
      /\ \A id \in Resting(b) : c.order_index[id] = b.order_index[id]
      /\ c.order_index[o.id].order = o
  BY RestSound
<1>2. /\ i \in Indices
      /\ \A t \in Sides, j \in Indices :
           c.ladder[t].levels[j] =
             IF t = s /\ j = i THEN level_push_back(b.ladder[t].levels[j], o)
                               ELSE b.ladder[t].levels[j]
  BY RestLevels
<1>3. /\ o.id \notin Resting(b) /\ o.remaining \in Int /\ s \in Sides
      /\ WellFormed(b) /\ WellFormed(c)
  BY <1>1 DEF add_error, Order, BookInv
<1> HIDE DEF c, i
<1>4. \A id \in Resting(b) : Open(c)[id] = Open(b)[id]
  BY <1>1, <1>3, OpenType
<1>5. Open(c)[o.id] = o.remaining
  BY <1>1, <1>3, OpenType
<1>6. ASSUME NEW t \in Sides, NEW j \in Indices
      PROVE  c.ladder[t].levels[j].total_quantity =
               SumFunctionOnSet(Open(c), Range(Queue(c, t, j)))
  <2> DEFINE old == Range(Queue(b, t, j))
             new == Range(Queue(c, t, j))
  <2>1. /\ IsFiniteSet(old) /\ IsFiniteSet(new)
        /\ old \subseteq Resting(b) /\ new \subseteq Resting(c)
    BY <1>1, QueueHolds
  <2>2. b.ladder[t].levels[j].total_quantity = SumFunctionOnSet(Open(b), old)
    BY DEF QuantitiesMatchQueues, Queue
  <2>3. SumFunctionOnSet(Open(c), old) = SumFunctionOnSet(Open(b), old)
    <3>1. \A id \in old : Open(c)[id] = Open(b)[id]
      BY <1>4, <2>1
    <3> HIDE DEF old
    <3> QED
      BY <2>1, <3>1, SumSame, ZenonT(30)
  <2>4. CASE ~(t = s /\ j = i)
    <3>1. new = old /\ c.ladder[t].levels[j] = b.ladder[t].levels[j]
      BY <1>2, <2>4 DEF Queue
    <3> QED
      BY <2>2, <2>3, <3>1
  <2>5. CASE t = s /\ j = i
    <3>1. /\ c.ladder[t].levels[j].total_quantity
               = b.ladder[t].levels[j].total_quantity + o.remaining
          /\ Queue(c, t, j) = Append(Queue(b, t, j), o.id)
      <4>1. c.ladder[t].levels[j] = level_push_back(b.ladder[t].levels[j], o)
        BY <1>2, <2>5
      <4>2. \A l : /\ level_push_back(l, o).total_quantity = l.total_quantity + o.remaining
                   /\ level_push_back(l, o).fifo = Append(l.fifo, o.id)
        BY DEF level_push_back
      <4> QED
        BY <4>1, <4>2, ZenonT(30) DEF Queue
    <3>2. Queue(b, t, j) \in Seq(OrderIds) /\ o.id \in OrderIds
      BY <1>3, BookTypes DEF Order
    <3>3. new = old \cup {o.id}
      BY <3>1, <3>2 DEF Range
    <3>4. o.id \in new /\ new \ {o.id} = old
      BY <1>3, <2>1, <3>3, ZenonT(30)
    <3>5. \A id \in new : Open(c)[id] \in Int
      BY <1>3, <2>1, OpenType
    <3>6. SumFunctionOnSet(Open(c), new) = o.remaining + SumFunctionOnSet(Open(c), old)
      <4>0. IsFiniteSet(new) /\ o.id \in new
        BY <2>1, <3>4
      <4> HIDE DEF old, new
      <4>1. SumFunctionOnSet(Open(c), new)
              = Open(c)[o.id] + SumFunctionOnSet(Open(c), new \ {o.id})
        BY <3>5, <4>0, SumTakesOut
      <4> QED
        BY <1>5, <3>4, <4>1, ZenonT(30)
    <3>7. SumFunctionOnSet(Open(c), old) \in Int
      BY <2>1, <3>3, <3>5, SumInt
    <3>8. c.ladder[t].levels[j].total_quantity = SumFunctionOnSet(Open(c), new)
      <4> HIDE DEF old, new
      <4> QED
        BY <1>3, <2>2, <2>3, <3>1, <3>6, <3>7
    <3> QED
      BY <3>8
  <2> QED
    BY <2>4, <2>5, ZenonT(30)
<1> QED
  BY <1>6 DEF QuantitiesMatchQueues, Queue, c

\* Taking an order out subtracts what it had open.
LEMMA WithoutKeepsQuantities ==
  ASSUME NEW b, BookInv(b), QuantitiesMatchQueues(b), NEW x \in Resting(b)
  PROVE  QuantitiesMatchQueues(Without(b, x))
<1> DEFINE c == Without(b, x)
           o == b.order_index[x].order
           i == b.order_index[x].level_index
           s == o.side
<1>1. /\ BookInv(c) /\ Resting(c) = Resting(b) \ {x}
      /\ \A id \in Resting(b) \ {x} : c.order_index[id] = b.order_index[id]
  BY WithoutSound
<1>2. \A t \in Sides, j \in Indices :
        c.ladder[t].levels[j] =
          IF t = s /\ j = i THEN level_unlink(b.ladder[t].levels[j], o)
                            ELSE b.ladder[t].levels[j]
  BY WithoutLevels
<1>3. /\ o \in Order /\ o.remaining \in Int /\ s \in Sides /\ i \in Indices
      /\ WellFormed(b) /\ WellFormed(c)
  BY <1>1, BookTypes DEF Order, BookInv
<1> HIDE DEF c
<1>4. \A id \in Resting(c) : Open(c)[id] = Open(b)[id]
  BY <1>1, <1>3, OpenType
<1>5. Open(b)[x] = o.remaining
  BY <1>3, OpenType
<1>6. ASSUME NEW t \in Sides, NEW j \in Indices
      PROVE  c.ladder[t].levels[j].total_quantity =
               SumFunctionOnSet(Open(c), Range(Queue(c, t, j)))
  <2> DEFINE old == Range(Queue(b, t, j))
             new == Range(Queue(c, t, j))
  <2>1. /\ IsFiniteSet(old) /\ IsFiniteSet(new)
        /\ old = {id \in Resting(b) : /\ b.order_index[id].order.side = t
                                      /\ b.order_index[id].level_index = j}
        /\ new = {id \in Resting(c) : /\ c.order_index[id].order.side = t
                                      /\ c.order_index[id].level_index = j}
    BY <1>1, QueueHolds
  <2>2. new = old \ {x}
    BY <1>1, <2>1
  <2>3. b.ladder[t].levels[j].total_quantity = SumFunctionOnSet(Open(b), old)
    BY DEF QuantitiesMatchQueues, Queue
  <2>4. SumFunctionOnSet(Open(c), new) = SumFunctionOnSet(Open(b), new)
    <3>1. \A id \in new : Open(c)[id] = Open(b)[id]
      BY <1>4, <2>1, ZenonT(30)
    <3> HIDE DEF new
    <3> QED
      BY <2>1, <3>1, SumSame, ZenonT(30)
  <2>5. CASE ~(t = s /\ j = i)
    <3>1. x \notin old
      BY <2>1, <2>5
    <3>2. new = old /\ c.ladder[t].levels[j] = b.ladder[t].levels[j]
      <4> HIDE DEF old, new
      <4> QED
        BY <1>2, <2>2, <2>5, <3>1, ZenonT(30)
    <3> QED
      BY <2>3, <2>4, <3>2
  <2>6. CASE t = s /\ j = i
    <3>1. c.ladder[t].levels[j].total_quantity
            = b.ladder[t].levels[j].total_quantity - o.remaining
      <4>1. c.ladder[t].levels[j] = level_unlink(b.ladder[t].levels[j], o)
        BY <1>2, <2>6, ZenonT(30)
      <4> QED
        BY <4>1 DEF level_unlink
    <3>2. x \in old
      BY <2>1, <2>6
    <3>3. \A id \in old : Open(b)[id] \in Int
      BY <1>3, <2>1, OpenType, Zenon
    <3>4. SumFunctionOnSet(Open(b), old) = o.remaining + SumFunctionOnSet(Open(b), new)
      <4>0. IsFiniteSet(old)
        BY <2>1
      <4> HIDE DEF old, new
      <4>1. SumFunctionOnSet(Open(b), old)
              = Open(b)[x] + SumFunctionOnSet(Open(b), old \ {x})
        BY <3>2, <3>3, <4>0, SumTakesOut
      <4> QED
        BY <1>5, <2>2, <4>1, ZenonT(30)
    <3>5. SumFunctionOnSet(Open(b), new) \in Int
      BY <2>1, <2>2, <3>3, SumInt, ZenonT(30)
    <3>6. c.ladder[t].levels[j].total_quantity = SumFunctionOnSet(Open(c), new)
      <4> HIDE DEF old, new, o
      <4> QED
        BY <1>3, <2>3, <2>4, <3>1, <3>4, <3>5
    <3> QED
      BY <3>6
  <2> QED
    BY <2>5, <2>6, ZenonT(30)
<1> QED
  BY <1>6 DEF QuantitiesMatchQueues, Queue, c

\* A partial fill changes the aggregate of one level by what it takes from one
\* order, and no queue.
LEMMA ShrunkLevels ==
  ASSUME NEW b, BookInv(b), NEW x \in Resting(b), NEW q \in Int
  PROVE  LET c == Shrunk(b, x, q)
             node == b.order_index[x]
         IN  \A t \in Sides, j \in Indices :
               /\ Queue(c, t, j) = Queue(b, t, j)
               /\ c.ladder[t].levels[j].total_quantity =
                    IF t = node.order.side /\ j = node.level_index
                    THEN b.ladder[t].levels[j].total_quantity - q
                    ELSE b.ladder[t].levels[j].total_quantity
<1> DEFINE c == Shrunk(b, x, q)
           s == b.order_index[x].order.side
           i == b.order_index[x].level_index
<1>1. /\ s \in Sides /\ i \in Indices /\ b.ladder \in [Sides -> Ladder]
      /\ b = [ladder |-> b.ladder, order_index |-> b.order_index,
              live_count |-> b.live_count, order_count |-> b.order_count]
  BY BookTypes DEF BookInv
<1>2. c.ladder = [b.ladder EXCEPT ![s].levels[i].total_quantity = @ - q]
  BY <1>1, Zenon DEF Shrunk
<1> HIDE DEF c, s, i
<1> DEFINE side == [b.ladder[s] EXCEPT !.levels[i].total_quantity = @ - q]
           lvl == [b.ladder[s].levels[i] EXCEPT !.total_quantity = @ - q]
<1>3. /\ b.ladder[s] \in Ladder /\ b.ladder[s].levels \in [Indices -> PriceLevel]
      /\ b.ladder[s].levels[i] \in PriceLevel
  BY <1>1 DEF Ladder
<1>4. c.ladder = [b.ladder EXCEPT ![s] = side]
  BY <1>2
<1>5. side.levels = [b.ladder[s].levels EXCEPT ![i] = lvl]
  BY <1>3 DEF Ladder
<1>6. /\ lvl.fifo = b.ladder[s].levels[i].fifo
      /\ lvl.total_quantity = b.ladder[s].levels[i].total_quantity - q
  BY <1>3 DEF PriceLevel
<1> HIDE DEF side, lvl
<1>7. /\ c.ladder[s].levels = [b.ladder[s].levels EXCEPT ![i] = lvl]
      /\ \A t \in Sides \ {s} : c.ladder[t] = b.ladder[t]
  BY <1>1, <1>4, <1>5
<1>8. /\ c.ladder[s].levels[i] = lvl
      /\ \A j \in Indices \ {i} : c.ladder[s].levels[j] = b.ladder[s].levels[j]
  BY <1>1, <1>3, <1>7
<1>9. ASSUME NEW t \in Sides, NEW j \in Indices
      PROVE  /\ Queue(c, t, j) = Queue(b, t, j)
             /\ c.ladder[t].levels[j].total_quantity =
                  IF t = s /\ j = i THEN b.ladder[t].levels[j].total_quantity - q
                                    ELSE b.ladder[t].levels[j].total_quantity
  BY <1>6, <1>7, <1>8, ZenonT(30) DEF Queue
<1> QED
  BY <1>9 DEF c, s, i

\* A partial fill is taken from the order and from the aggregate of its level.
LEMMA ShrunkKeepsQuantities ==
  ASSUME NEW b, BookInv(b), QuantitiesMatchQueues(b), NEW x \in Resting(b), NEW q \in Int,
         0 < q, q < b.order_index[x].order.remaining
  PROVE  QuantitiesMatchQueues(Shrunk(b, x, q))
<1> DEFINE c == Shrunk(b, x, q)
           o == b.order_index[x].order
           i == b.order_index[x].level_index
           s == o.side
<1>1. /\ BookInv(c) /\ Resting(c) = Resting(b)
      /\ \A id \in Resting(b) \ {x} : c.order_index[id] = b.order_index[id]
      /\ c.order_index[x].order = [o EXCEPT !.remaining = @ - q]
  BY ShrunkSound
<1>2. \A t \in Sides, j \in Indices :
        /\ Queue(c, t, j) = Queue(b, t, j)
        /\ c.ladder[t].levels[j].total_quantity =
             IF t = s /\ j = i THEN b.ladder[t].levels[j].total_quantity - q
                               ELSE b.ladder[t].levels[j].total_quantity
  BY ShrunkLevels
<1>3. /\ o \in Order /\ o.remaining \in Int /\ s \in Sides /\ i \in Indices
      /\ WellFormed(b) /\ WellFormed(c)
  BY <1>1, BookTypes DEF Order, BookInv
<1> HIDE DEF c
<1>4. \A id \in Resting(b) \ {x} : Open(c)[id] = Open(b)[id]
  BY <1>1, <1>3, OpenType
<1>5. Open(b)[x] = o.remaining /\ Open(c)[x] = o.remaining - q
  <2>1. c.order_index[x].order.remaining = o.remaining - q
    <3> HIDE DEF o
    <3> QED
      BY <1>1, <1>3 DEF Order
  <2> QED
    BY <1>1, <1>3, <2>1, OpenType, Zenon
<1>6. ASSUME NEW t \in Sides, NEW j \in Indices
      PROVE  c.ladder[t].levels[j].total_quantity =
               SumFunctionOnSet(Open(c), Range(Queue(b, t, j)))
  <2> DEFINE ids == Range(Queue(b, t, j))
             rest == ids \ {x}
  <2>1. /\ IsFiniteSet(ids) /\ IsFiniteSet(rest)
        /\ ids = {id \in Resting(b) : /\ b.order_index[id].order.side = t
                                      /\ b.order_index[id].level_index = j}
    BY QueueHolds, FS_Subset
  <2>2. b.ladder[t].levels[j].total_quantity = SumFunctionOnSet(Open(b), ids)
    BY DEF QuantitiesMatchQueues, Queue
  <2>3. SumFunctionOnSet(Open(c), rest) = SumFunctionOnSet(Open(b), rest)
    <3>1. \A id \in rest : Open(c)[id] = Open(b)[id]
      BY <1>4, <2>1, ZenonT(30)
    <3> HIDE DEF rest
    <3> QED
      BY <2>1, <3>1, SumSame, Zenon
  <2>4. CASE ~(t = s /\ j = i)
    <3>1. x \notin ids
      BY <2>1, <2>4, ZenonT(30)
    <3>2. rest = ids
      BY <3>1
    <3>3. c.ladder[t].levels[j].total_quantity = b.ladder[t].levels[j].total_quantity
      BY <1>2, <2>4
    <3> QED
      BY <2>2, <2>3, <3>2, <3>3
  <2>5. CASE t = s /\ j = i
    <3>1. c.ladder[t].levels[j].total_quantity = b.ladder[t].levels[j].total_quantity - q
      BY <1>2, <2>5, ZenonT(30)
    <3>2. x \in ids
      BY <2>1, <2>5
    <3>3. \A id \in ids : Open(b)[id] \in Int /\ Open(c)[id] \in Int
      BY <1>1, <1>3, <2>1, OpenType
    <3>4. /\ SumFunctionOnSet(Open(b), ids) = Open(b)[x] + SumFunctionOnSet(Open(b), rest)
          /\ SumFunctionOnSet(Open(c), ids) = Open(c)[x] + SumFunctionOnSet(Open(c), rest)
      <4>0. IsFiniteSet(ids)
        BY <2>1
      <4> HIDE DEF ids
      <4> QED
        BY <3>2, <3>3, <4>0, SumTakesOut
    <3>5. SumFunctionOnSet(Open(b), rest) \in Int
      BY <2>1, <3>3, SumInt, ZenonT(30)
    <3>6. c.ladder[t].levels[j].total_quantity = SumFunctionOnSet(Open(c), ids)
      <4> HIDE DEF ids, rest, o
      <4> QED
        BY <1>3, <1>5, <2>2, <2>3, <3>1, <3>4, <3>5
    <3> QED
      BY <3>6
  <2> QED
    BY <2>4, <2>5, ZenonT(30)
<1> QED
  <2>1. \A t \in Sides, j \in Indices :
          c.ladder[t].levels[j].total_quantity = SumFunctionOnSet(Open(c), Range(Queue(c, t, j)))
    BY <1>2, <1>6
  <2> QED
    BY <2>1 DEF QuantitiesMatchQueues, Queue, c

\* So does every fill.
LEMMA ReduceKeepsQuantities ==
  ASSUME NEW b, BookInv(b), QuantitiesMatchQueues(b), NEW x \in Resting(b), NEW q \in Int,
         0 < q, q <= b.order_index[x].order.remaining
  PROVE  QuantitiesMatchQueues(reduce_quantity(b, x, q).book)
<1>1. b.order_index[x].order.remaining \in Int
  BY BookTypes DEF BookInv, Order
<1>2. CASE q = b.order_index[x].order.remaining
  <2>1. reduce_quantity(b, x, q).book = Without(b, x)
    BY <1>2, ReduceSound, ZenonT(30)
  <2> QED
    BY <2>1, WithoutKeepsQuantities
<1>3. CASE q # b.order_index[x].order.remaining
  <2>1. reduce_quantity(b, x, q).book = Shrunk(b, x, q)
    BY <1>3, ReduceSound, ZenonT(30)
  <2>2. q < b.order_index[x].order.remaining
    BY <1>1, <1>3
  <2> QED
    BY <2>1, <2>2, ShrunkKeepsQuantities
<1> QED
  BY <1>2, <1>3

\* The levels of the empty book have nothing.
LEMMA EmptyBookQuantities == QuantitiesMatchQueues(EmptyBook)
<1> SUFFICES ASSUME NEW s \in Sides, NEW i \in Indices
             PROVE  EmptyBook.ladder[s].levels[i].total_quantity =
                      SumFunctionOnSet(Open(EmptyBook),
                                       Range(EmptyBook.ladder[s].levels[i].fifo))
  BY DEF QuantitiesMatchQueues
<1>1. EmptyBook.ladder[s].levels[i] = EmptyLevel
  BY DEF EmptyBook, EmptyLadder
<1>2. Range(EmptyLevel.fifo) = {} /\ EmptyLevel.total_quantity = 0
  BY DEF Range, EmptyLevel
<1> QED
  BY <1>1, <1>2, SumSteps, FS_EmptySet
=============================================================================
