------------------------------ MODULE Induction ------------------------------
(***************************************************************************)
(* Induction over the natural numbers, for a set instead of a predicate:   *)
(* what a recursive function of the models computes is proved with the set *)
(* of the arguments for which it does.                                     *)
(***************************************************************************)
EXTENDS Integers, WellFoundedInduction, TLAPS

\* A set with 0 and the successor of each of its numbers has all of them.
LEMMA InductionOnSet ==
  ASSUME NEW S, 0 \in S, \A n \in Nat : n \in S => n + 1 \in S
  PROVE  \A n \in Nat : n \in S
<1> SUFFICES ASSUME NEW k \in Nat, k \notin S PROVE FALSE
  OBVIOUS
<1> DEFINE Less == OpToRel(<, Nat)
           Rest == Nat \ S
<1>1. IsWellFoundedOn(Less, Nat)
  BY NatLessThanWellFounded
<1>2. \A x, y \in Nat : <<x, y>> \in Less <=> x < y
  BY DEF OpToRel
<1>3. Rest \subseteq Nat /\ Rest # {}
  OBVIOUS
<1> HIDE DEF Less
<1>4. PICK m \in Rest : \A j \in Rest : <<j, m>> \notin Less
  BY <1>1, <1>3, WFMin
<1>5. m \in Nat /\ m \notin S /\ m # 0
  OBVIOUS
<1>6. m - 1 \in Nat /\ m - 1 < m /\ (m - 1) + 1 = m
  BY <1>5
<1>7. m - 1 \in S
  BY <1>2, <1>4, <1>5, <1>6
<1> QED BY <1>5, <1>6, <1>7

\* The same for the numbers up to a last one.
LEMMA InductionUpTo ==
  ASSUME NEW last \in Nat, NEW S, 0 \in S, \A n \in 0 .. last - 1 : n \in S => n + 1 \in S
  PROVE  \A n \in 0 .. last : n \in S
<1> DEFINE More == S \cup {n \in Nat : n > last}
<1>1. 0 \in More
  OBVIOUS
<1>2. ASSUME NEW n \in Nat, n \in More PROVE n + 1 \in More
  <2>1. CASE n < last
    <3>1. n \in S /\ n \in 0 .. last - 1
      BY <1>2, <2>1
    <3> QED BY <3>1
  <2>2. CASE n >= last
    <3>1. n + 1 \in Nat /\ n + 1 > last
      BY <2>2
    <3> QED BY <3>1
  <2> QED BY <2>1, <2>2
<1> HIDE DEF More
<1>3. \A n \in Nat : n \in More
  BY <1>1, <1>2, InductionOnSet
<1>4. ASSUME NEW n \in 0 .. last PROVE n \in S
  <2>1. n \in Nat /\ ~(n > last)
    OBVIOUS
  <2> QED BY <1>3, <2>1 DEF More
<1> QED BY <1>4
=============================================================================
