------------------------------ MODULE Extremes ------------------------------
(***************************************************************************)
(* Greatest and least elements of bounded sets of naturals: what the       *)
(* proofs about logs use where they would use induction.                   *)
(***************************************************************************)
EXTENDS Integers, FiniteSetTheorems, TLAPS

\* A non-empty set of naturals with an upper bound has a greatest element: one
\* above which the fewest others lie.
LEMMA Greatest ==
  ASSUME NEW N \in Nat, NEW S \in SUBSET (0..N), S # {}
  PROVE  \E m \in S : \A n \in S : n =< m
<1> DEFINE Above(m) == {n \in S : m < n}
           T == {Above(m) : m \in S}
<1>1. IsWellFoundedOn(StrictSubsetOrdering(S), FiniteSubsetsOf(S))
  BY FS_StrictSubsetOrderingWellFounded
<1>2. IsFiniteSet(S)
  BY FS_BoundedSetOfNaturals
<1>3. T \subseteq FiniteSubsetsOf(S) /\ T # {}
  <2>1. ASSUME NEW A \in SUBSET S PROVE A \in FiniteSubsetsOf(S)
    <3>1. IsFiniteSet(A)
      BY <1>2, FS_Subset
    <3> QED
      BY <3>1 DEF FiniteSubsetsOf
  <2>2. \A m \in S : Above(m) \in SUBSET S
    OBVIOUS
  <2> HIDE DEF Above
  <2> QED
    BY <2>1, <2>2
<1>4. PICK x \in T : \A y \in T : ~(<<y, x>> \in StrictSubsetOrdering(S))
  <2> HIDE DEF T
  <2> QED
    BY <1>1, <1>3, WFMin
<1>5. PICK m \in S : x = Above(m)
  BY <1>4
<1>6. ASSUME NEW n \in S, m < n PROVE FALSE
  <2>1. Above(n) \in T /\ Above(n) \subseteq S /\ x \subseteq S
    BY <1>5
  <2>2. Above(n) \subseteq x /\ n \in x /\ n \notin Above(n)
    <3>1. \A l \in S : l \in Nat
      OBVIOUS
    <3>2. \A l \in S : n < l => m < l
      BY <1>6, <3>1
    <3>3. ~(n < n)
      BY <3>1
    <3>4. Above(n) \subseteq Above(m) /\ n \in Above(m) /\ n \notin Above(n)
      BY <1>6, <3>2, <3>3
    <3> QED
      BY <1>5, <3>4
  <2>3. <<Above(n), x>> \in StrictSubsetOrdering(S)
    <3>1. ASSUME NEW A \in SUBSET S, NEW B \in SUBSET S, A \subseteq B, A # B
          PROVE  <<A, B>> \in StrictSubsetOrdering(S)
      BY <3>1 DEF StrictSubsetOrdering
    <3>2. Above(n) # x
      BY <2>2
    <3> HIDE DEF Above
    <3> QED
      BY <2>1, <2>2, <3>1, <3>2
  <2> QED
    BY <1>4, <2>1, <2>3
<1> QED
  <2>1. \A n \in S : n \in Nat
    OBVIOUS
  <2> QED
    BY <1>6, <2>1

\* Likewise a least one.
LEMMA Least ==
  ASSUME NEW N \in Nat, NEW S \in SUBSET (0..N), S # {}
  PROVE  \E m \in S : \A n \in S : m =< n
<1> DEFINE T == {N - n : n \in S}
<1>1. T \in SUBSET (0..N) /\ T # {}
  <2>1. ASSUME NEW n \in S PROVE N - n \in 0..N
    OBVIOUS
  <2> QED
    BY <2>1
<1>2. PICK m \in T : \A n \in T : n =< m
  <2> HIDE DEF T
  <2> QED
    BY <1>1, Greatest
<1>3. PICK l \in S : m = N - l
  BY <1>2
<1>4. ASSUME NEW n \in S PROVE l =< n
  <2>1. N - n \in T
    OBVIOUS
  <2>2. N - n =< N - l
    BY <1>2, <1>3, <2>1
  <2> QED
    BY <2>2
<1> QED
  BY <1>4

=============================================================================
