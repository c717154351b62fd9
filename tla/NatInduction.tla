------------------------------ MODULE NatInduction -----------------------------
(***************************************************************************)
(* Induction on the naturals, for a set instead of a predicate: what the   *)
(* proofs about recursive functions need.                                  *)
(***************************************************************************)
EXTENDS Integers, WellFoundedInduction, TLAPS

\* Any nonempty set of naturals has a smallest element.
LEMMA LeastElement ==
  ASSUME NEW D \in SUBSET Nat, D # {}
  PROVE  \E x \in D : \A y \in D : x <= y
  <1> DEFINE R == {ss \in Nat \X Nat : ss[1] < ss[2]}
  <1>1. IsWellFoundedOn(R, Nat)
    BY NatLessThanWellFounded DEF OpToRel
  <1>2. \E m \in D : \A y \in D : ~(<<y, m>> \in R)
    <2> HIDE DEF R
    <2>1. QED
      BY <1>1, WFMin, Zenon
  <1>3. \A m, y \in D : <<y, m>> \in R <=> y < m
    OBVIOUS
  <1>4. \E m \in D : \A y \in D : ~(y < m)
    BY <1>2, <1>3, Zenon
  <1>5. \A m, y \in D : ~(y < m) => m <= y
    OBVIOUS
  <1>6. QED
    BY <1>4, <1>5, Zenon

\* What holds of 0, and of n + 1 when it holds of n, holds of every natural.
LEMMA NatInduct ==
  ASSUME NEW S, 0 \in S, \A n \in Nat : n \in S => n + 1 \in S
  PROVE  Nat \subseteq S
  <1> SUFFICES ASSUME Nat \ S # {} PROVE FALSE
    OBVIOUS
  <1>1. PICK n \in Nat \ S : \A m \in Nat \ S : n <= m
    BY LeastElement
  <1>2. n # 0 /\ n - 1 \in Nat
    OBVIOUS
  <1>3. n - 1 \in S
    BY <1>1, <1>2
  <1>4. QED
    BY <1>2, <1>3
=============================================================================
