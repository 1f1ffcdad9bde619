------------------------------ MODULE Extrema ------------------------------
(***************************************************************************)
(* Max and Min of the community modules on bounded sets of naturals: the   *)
(* newest footer of a file, the first failing item of a list.              *)
(***************************************************************************)
EXTENDS Naturals, FiniteSetsExt, FiniteSetTheorems, WellFoundedInduction, TLAPS

\* A bounded non-empty set of naturals has a largest element.
LEMMA LargestExists ==
    ASSUME NEW n \in Nat, NEW S \in SUBSET (0..n), S # {}
    PROVE  \E x \in S : \A y \in S : x >= y
<1> DEFINE R == StrictSubsetOrdering(0..n)
           Above(x) == (x + 1)..n
           T == {Above(x) : x \in S}
<1>1. T \subseteq FiniteSubsetsOf(0..n)
  <2>1. SUFFICES ASSUME NEW x \in S PROVE Above(x) \in FiniteSubsetsOf(0..n)
    OBVIOUS
  <2>2. Above(x) \subseteq 0..n /\ x + 1 \in Int
    BY SMT
  <2>3. IsFiniteSet(Above(x))
    BY <2>2, FS_Interval
  <2> QED BY <2>2, <2>3 DEF FiniteSubsetsOf
<1>2. T # {}
  OBVIOUS
<1>3. PICK t \in T : \A u \in T : ~(<<u, t>> \in R)
  <2> HIDE DEF T
  <2>1. IsWellFoundedOn(R, FiniteSubsetsOf(0..n))
    BY FS_StrictSubsetOrderingWellFounded
  <2> QED BY <1>1, <1>2, <2>1, WFMin
<1>4. PICK x \in S : t = Above(x)
  OBVIOUS
<1>5. ASSUME NEW y \in S, y > x PROVE FALSE
  <2>1. Above(y) \in T
    OBVIOUS
  <2>2. Above(y) \subseteq Above(x)
    BY <1>5, SMT
  <2>3. y \in Above(x) /\ y \notin Above(y)
    BY <1>5, SMT
  <2>4. <<Above(y), t>> \in R
    <3>1. t \in SUBSET (0..n) /\ Above(y) \in SUBSET (0..n)
      BY <1>1, <2>1 DEF FiniteSubsetsOf
    <3> HIDE DEF T
    <3> QED BY <3>1, <1>4, <2>2, <2>3 DEF StrictSubsetOrdering
  <2> QED BY <2>4, <2>1, <1>3
<1> QED BY <1>5, SMT

LEMMA MaxIsLargest ==
    ASSUME NEW n \in Nat, NEW S \in SUBSET (0..n), S # {}
    PROVE  Max(S) \in S /\ \A y \in S : y <= Max(S)
<1>1. Max(S) \in S /\ \A y \in S : Max(S) >= y
  BY LargestExists DEF Max
<1> QED BY <1>1, SMT

\* The smallest element, from the largest of the mirrored set.
LEMMA MinIsSmallest ==
    ASSUME NEW n \in Nat, NEW S \in SUBSET (0..n), S # {}
    PROVE  Min(S) \in S /\ \A y \in S : Min(S) <= y
<1> DEFINE M == {n - x : x \in S}
<1>1. \A x \in S : n - x \in 0..n
  BY SMT
<1>2. M \in SUBSET (0..n) /\ M # {}
  BY <1>1
<1>3. PICK m \in M : \A y \in M : m >= y
  BY <1>2, LargestExists
<1>4. PICK x \in S : m = n - x
  OBVIOUS
<1>5. \A y \in S : n - x >= n - y
  BY <1>3, <1>4
<1>6. \A y \in S : x =< y
  BY <1>5, SMT
<1> QED BY <1>6 DEF Min

\* What holds of a number once it holds of all below it, holds up to any bound.
LEMMA Climb ==
    ASSUME NEW n \in Nat, NEW G,
           \A k \in 0..n : (\A j \in 0..n : j < k => j \in G) => k \in G
    PROVE  \A k \in 0..n : k \in G
<1> SUFFICES ASSUME NEW k0 \in 0..n, k0 \notin G PROVE FALSE
  OBVIOUS
<1> DEFINE B == {k \in 0..n : k \notin G}
<1>1. B \in SUBSET (0..n) /\ B # {}
  OBVIOUS
<1>2. Min(B) \in B /\ \A y \in B : Min(B) <= y
  <2> HIDE DEF B
  <2> QED BY <1>1, MinIsSmallest
<1>3. \A j \in 0..n : j < Min(B) => j \in G
  BY <1>2
<1> QED BY <1>2, <1>3
=============================================================================
