----------------------------- MODULE NumberLemmas -----------------------------
(***************************************************************************)
(* What the proofs of this project need to know of sets of numbers: that   *)
(* they have a least and, when they are bounded, a greatest element, and   *)
(* how many numbers there are below a bound.                               *)
(***************************************************************************)
EXTENDS Integers, FiniteSetsExt, FiniteSetTheorems, TLAPS

\* The least-number principle, for a set.
LEMMA LeastNatural ==
    ASSUME NEW S \in SUBSET Nat, S # {}
    PROVE  \E m \in S : \A k \in S : m <= k
<1>1. PICK m \in S : \A k \in S : ~(<<k, m>> \in OpToRel(<, Nat))
  BY NatLessThanWellFounded, WFMin
<1>2. ASSUME NEW k \in S PROVE m <= k
  <2>1. ~(k < m)
    BY <1>1 DEF OpToRel
  <2> QED
    BY <2>1
<1> QED
  BY <1>2

\* A bounded set of numbers has a greatest element: the one nearest to the bound.
LEMMA GreatestNatural ==
    ASSUME NEW S \in SUBSET Nat, S # {}, NEW b \in Nat, \A k \in S : k <= b
    PROVE  \E m \in S : \A k \in S : k <= m
<1> DEFINE D == {b - k : k \in S}
<1>1. D \in SUBSET Nat /\ D # {}
  <2>1. ASSUME NEW k \in S PROVE b - k \in Nat
    BY k <= b
  <2> QED
    BY <2>1
<1>2. PICK d \in D : \A e \in D : d <= e
  BY <1>1, LeastNatural
<1>3. PICK m \in S : d = b - m
  BY <1>2
<1>4. ASSUME NEW k \in S PROVE k <= m
  <2>1. b - k \in D
    OBVIOUS
  <2>2. d <= b - k
    BY <1>2, <2>1
  <2> QED
    BY <1>3, <2>2
<1> QED
  BY <1>4

\* Max and Min are what they are called.
LEMMA MinIsLeast ==
    ASSUME NEW S \in SUBSET Nat, S # {}
    PROVE  Min(S) \in S /\ \A k \in S : Min(S) <= k
BY LeastNatural DEF Min

\* A bounded set has a greatest member.
LEMMA MaxIsGreatest ==
    ASSUME NEW S \in SUBSET Nat, S # {}, NEW b \in Nat, \A k \in S : k <= b
    PROVE  Max(S) \in S /\ \A k \in S : k <= Max(S)
<1>1. \E m \in S : \A k \in S : m >= k
  BY GreatestNatural
<1> QED
  BY <1>1 DEF Max

\* A member that is not exceeded is Max.
LEMMA MaxIs ==
    ASSUME NEW S \in SUBSET Nat, NEW m \in S, \A k \in S : k <= m
    PROVE  Max(S) = m
<1> DEFINE x == Max(S)
<1>1. x \in S /\ \A k \in S : k <= x
  BY MaxIsGreatest
<1> HIDE DEF x
<1>2. x = m
  BY <1>1
<1> QED
  BY <1>2 DEF x

\* A member that is not undercut is Min.
LEMMA MinIs ==
    ASSUME NEW S \in SUBSET Nat, NEW m \in S, \A k \in S : m <= k
    PROVE  Min(S) = m
<1> DEFINE x == Min(S)
<1>1. x \in S /\ \A k \in S : x <= k
  BY MinIsLeast
<1> HIDE DEF x
<1>2. x = m
  BY <1>1
<1> QED
  BY <1>2 DEF x

\* A set of numbers below n is finite, and has n members at most.
LEMMA NumbersBelow ==
    ASSUME NEW n \in Nat, NEW S \in SUBSET (0..(n - 1))
    PROVE  IsFiniteSet(S) /\ Cardinality(S) \in Nat /\ Cardinality(S) <= n
<1>1. IsFiniteSet(0..(n - 1)) /\ Cardinality(0..(n - 1)) = n
  BY FS_Interval
<1> QED
  BY <1>1, FS_Subset, FS_CardinalityType
===============================================================================
