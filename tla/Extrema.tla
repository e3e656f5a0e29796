------------------------------- MODULE Extrema -------------------------------
(***************************************************************************)
(* Least and greatest elements of sets of natural numbers.                  *)
(***************************************************************************)
EXTENDS Integers, WellFoundedInduction, TLAPS

\* Every set of natural numbers that is not empty has a least element.
LEMMA LeastNatural ==
    ASSUME NEW T, T \subseteq Nat, T # {}
    PROVE  \E n \in T : \A m \in T : ~(m < n)
<1>1. \E n \in T : \A m \in T : ~(<<m, n>> \in OpToRel(<, Nat))
  BY NatLessThanWellFounded, WFMin, Zenon
<1>. QED
  BY <1>1 DEF OpToRel

\* Every set of natural numbers that is not empty and has a bound has a greatest element.
LEMMA GreatestNatural ==
    ASSUME NEW n \in Nat, NEW T, T \subseteq 0 .. n, T # {}
    PROVE  \E g \in T : \A m \in T : g >= m
<1>. DEFINE Distance == {n - m : m \in T}
<1>1. Distance \subseteq Nat /\ Distance # {}
  <2>1. \A m \in T : n - m \in Nat
    OBVIOUS
  <2>2. PICK m \in T : TRUE
    OBVIOUS
  <2>3. n - m \in Distance
    OBVIOUS
  <2>. QED
    BY <2>1, <2>3
<1>2. PICK d \in Distance : \A e \in Distance : ~(e < d)
  <2>. HIDE DEF Distance
  <2>. QED
    BY <1>1, LeastNatural, Zenon
<1>3. PICK g \in T : d = n - g
  BY <1>2
<1>4. ASSUME NEW m \in T
      PROVE  g >= m
  <2>1. n - m \in Distance
    OBVIOUS
  <2>2. ~(n - m < n - g)
    BY <1>2, <1>3, <2>1
  <2>. QED
    BY <2>2
<1>. QED
  BY <1>4
=============================================================================
