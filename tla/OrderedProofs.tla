---------------------------- MODULE OrderedProofs ----------------------------
(***************************************************************************)
(* Counting in an order: what ORDER BY with LIMIT returns. An order is a   *)
(* set of pairs here, for a lemma about an operator cannot be applied.     *)
(***************************************************************************)
EXTENDS Ordered, FiniteSetTheorems, WellFoundedInduction, TLAPS

Orders(R, S) ==
  /\ \A x \in S : <<x, x>> \notin R
  /\ \A x, y, z \in S : <<x, y>> \in R /\ <<y, z>> \in R => <<x, z>> \in R
  /\ \A x, y \in S : x = y \/ <<x, y>> \in R \/ <<y, x>> \in R

Preceding(R, S, x) == {y \in S : <<y, x>> \in R}
Rank(R, S, x) == Cardinality(Preceding(R, S, x))
Top(n, R, S) == {x \in S : Rank(R, S, x) < n}

\* A set of numbers that is not empty has a least one.
LEMMA LeastNumber ==
  ASSUME NEW T \in SUBSET Nat, T # {}
  PROVE  \E m \in T : \A k \in T : m <= k
<1>1. PICK m \in T : \A k \in T : <<k, m>> \notin OpToRel(<, Nat)
  BY NatLessThanWellFounded, WFMin
<1>2. \A k \in T : ~ (k < m)
  BY <1>1 DEF OpToRel
<1> QED BY <1>2

\* Ranks are numbers, and they grow along the order.
LEMMA RankType ==
  ASSUME NEW S, IsFiniteSet(S), NEW R, NEW x
  PROVE  Rank(R, S, x) \in Nat /\ IsFiniteSet(Preceding(R, S, x))
BY FS_Subset, FS_CardinalityType, Preceding(R, S, x) \in SUBSET S DEF Rank, Preceding

\* What comes earlier has fewer before it.
LEMMA RankGrows ==
  ASSUME NEW S, IsFiniteSet(S), NEW R, Orders(R, S), NEW x \in S, NEW y \in S, <<x, y>> \in R
  PROVE  Rank(R, S, x) < Rank(R, S, y)
<1>1. Preceding(R, S, x) \in SUBSET Preceding(R, S, y)
  BY DEF Orders, Preceding
<1>2. x \in Preceding(R, S, y) /\ x \notin Preceding(R, S, x)
  BY DEF Orders, Preceding
<1>3. Rank(R, S, x) \in Nat /\ Rank(R, S, y) \in Nat /\ IsFiniteSet(Preceding(R, S, y))
  BY RankType
<1>4. Rank(R, S, x) <= Rank(R, S, y) /\ Rank(R, S, x) # Rank(R, S, y)
  BY <1>1, <1>2, <1>3, FS_Subset DEF Rank
<1> QED BY <1>3, <1>4

\* A set of rows has a first one and a last one.
LEMMA Lowest ==
  ASSUME NEW S, IsFiniteSet(S), NEW R, Orders(R, S), NEW T \in SUBSET S, T # {}
  PROVE  \E m \in T : \A k \in T \ {m} : <<m, k>> \in R
<1> DEFINE Ranks == {Rank(R, S, x) : x \in T}
<1>1. Ranks \in SUBSET Nat /\ Ranks # {}
  BY RankType
<1>2. PICK r \in Ranks : \A k \in Ranks : r <= k
  <2> HIDE DEF Ranks
  <2> QED BY <1>1, LeastNumber
<1>3. PICK m \in T : r = Rank(R, S, m)
  BY <1>2
<1>4. ASSUME NEW k \in T \ {m}, <<k, m>> \in R PROVE FALSE
  <2>1. Rank(R, S, k) < Rank(R, S, m) /\ Rank(R, S, k) \in Nat /\ Rank(R, S, m) \in Nat
    BY <1>4, RankGrows, RankType
  <2> QED BY <1>2, <1>3, <2>1
<1> QED BY <1>4 DEF Orders

\* And one that comes last: the first of the converse order.
LEMMA Highest ==
  ASSUME NEW S, IsFiniteSet(S), NEW R, Orders(R, S), NEW T \in SUBSET S, T # {}
  PROVE  \E m \in T : \A k \in T \ {m} : <<k, m>> \in R
<1> DEFINE C == {<<p[2], p[1]>> : p \in R \cap (S \X S)}
<1>1. \A x, y \in S : <<x, y>> \in C <=> <<y, x>> \in R
  OBVIOUS
<1>2. Orders(C, S)
  <2> HIDE DEF C
  <2> QED BY <1>1 DEF Orders
<1>3. PICK m \in T : \A k \in T \ {m} : <<m, k>> \in C
  <2> HIDE DEF C
  <2> QED BY <1>2, Lowest
<1> QED
  <2> HIDE DEF C
  <2> QED BY <1>1, <1>3

\* What is left out comes after everything that is returned.
LEMMA TopSeparates ==
  ASSUME NEW S, IsFiniteSet(S), NEW R, Orders(R, S), NEW n \in Nat,
         NEW x \in Top(n, R, S), NEW y \in S \ Top(n, R, S)
  PROVE  <<x, y>> \in R
<1>1. x \in S /\ y \in S /\ x # y /\ Rank(R, S, x) < n /\ ~ (Rank(R, S, y) < n)
  BY DEF Top
<1>2. Rank(R, S, x) \in Nat /\ Rank(R, S, y) \in Nat
  BY RankType
<1>3. <<y, x>> \in R => Rank(R, S, y) < Rank(R, S, x)
  BY <1>1, RankGrows
<1> QED BY <1>1, <1>2, <1>3 DEF Orders

\* What is returned is finite.
LEMMA TopIsFinite ==
  ASSUME NEW S, IsFiniteSet(S), NEW R, NEW n
  PROVE  IsFiniteSet(Top(n, R, S)) /\ Cardinality(Top(n, R, S)) \in Nat
BY FS_Subset, FS_CardinalityType, Top(n, R, S) \in SUBSET S DEF Top

\* No more than n rows are returned, ...
LEMMA TopIsBounded ==
  ASSUME NEW S, IsFiniteSet(S), NEW R, Orders(R, S), NEW n \in Nat
  PROVE  Cardinality(Top(n, R, S)) <= n
<1> DEFINE F == Top(n, R, S)
<1>1. F \in SUBSET S /\ IsFiniteSet(F) /\ Cardinality(F) \in Nat
  BY TopIsFinite DEF Top
<1>2. CASE F = {}
  BY <1>2, FS_EmptySet
<1>3. CASE F # {}
  <2>1. PICK m \in F : \A k \in F \ {m} : <<k, m>> \in R
    BY <1>1, <1>3, Highest
  <2>2. m \in S /\ Rank(R, S, m) < n
    BY <2>1 DEF Top
  <2>3. F \ {m} \in SUBSET Preceding(R, S, m)
    BY <1>1, <2>1 DEF Preceding
  <2>4. Cardinality(F \ {m}) = Cardinality(F) - 1 /\ IsFiniteSet(Preceding(R, S, m))
    BY <1>1, FS_RemoveElement, RankType
  <2>5. Cardinality(F) - 1 <= Rank(R, S, m) /\ Rank(R, S, m) \in Nat
    BY <2>3, <2>4, FS_Subset, RankType DEF Rank
  <2> QED BY <1>1, <2>2, <2>5
<1> QED BY <1>2, <1>3

\* ... exactly n when some are left out, ...
LEMMA TopIsFull ==
  ASSUME NEW S, IsFiniteSet(S), NEW R, Orders(R, S), NEW n \in Nat, Top(n, R, S) # S
  PROVE  Cardinality(Top(n, R, S)) = n
<1> DEFINE F == Top(n, R, S)
<1>1. F \in SUBSET S /\ IsFiniteSet(F) /\ Cardinality(F) \in Nat
  BY TopIsFinite DEF Top
<1> DEFINE Rest == S \ F
<1>2. Rest \in SUBSET S /\ Rest # {}
  BY <1>1
<1>3. PICK m \in Rest : \A k \in Rest \ {m} : <<m, k>> \in R
  <2> HIDE DEF Rest
  <2> QED BY <1>2, Lowest
<1>4. Preceding(R, S, m) \in SUBSET F
  BY <1>3 DEF Preceding, Orders
<1>5. Rank(R, S, m) <= Cardinality(F) /\ Rank(R, S, m) \in Nat
  BY <1>1, <1>4, FS_Subset, RankType DEF Rank
<1>6. ~ (Rank(R, S, m) < n)
  BY <1>3 DEF Top
<1> QED BY <1>1, <1>5, <1>6, TopIsBounded

\* ... and all when there are no more than n.
LEMMA TopIsAll ==
  ASSUME NEW S, IsFiniteSet(S), NEW R, Orders(R, S), NEW n \in Nat, Cardinality(S) <= n
  PROVE  Top(n, R, S) = S
<1>1. ASSUME NEW x \in S PROVE Rank(R, S, x) < n
  <2>1. Preceding(R, S, x) \in SUBSET (S \ {x})
    BY DEF Preceding, Orders
  <2>2. IsFiniteSet(S \ {x}) /\ Cardinality(S \ {x}) = Cardinality(S) - 1 /\ Cardinality(S) \in Nat
    BY FS_RemoveElement, FS_CardinalityType
  <2>3. Rank(R, S, x) <= Cardinality(S) - 1 /\ Rank(R, S, x) \in Nat
    BY <2>1, <2>2, FS_Subset, RankType DEF Rank
  <2> QED BY <2>2, <2>3
<1> QED BY <1>1 DEF Top
=============================================================================
