---------------------------- MODULE NatSetProofs -----------------------------
(***************************************************************************)
(* What the proofs of several components need of sets of naturals.         *)
(***************************************************************************)
EXTENDS Integers, WellFoundedInduction, TLAPS

(* Every non-empty set of naturals has a least one.                        *)
LEMMA NatMin ==
  ASSUME NEW T, T \subseteq Nat, T # {}
  PROVE  \E m \in T : \A n \in T : m <= n
<1>1. PICK m \in T : \A n \in T : ~(<<n, m>> \in OpToRel(<, Nat))
  BY NatLessThanWellFounded, WFMin
<1>2. \A n \in T : ~(n < m)
  BY <1>1 DEF OpToRel
<1>3. QED
  BY <1>2

(* Every non-empty bounded set of naturals has a greatest one.                *)
LEMMA NatMax ==
  ASSUME NEW T, T \subseteq Nat, T # {}, NEW b \in Nat, \A n \in T : n <= b
  PROVE  \E m \in T : \A n \in T : n <= m
<1> DEFINE U == {b - n : n \in T}
<1>0. \A n \in T : b - n \in Nat
  OBVIOUS
<1>1. U \subseteq Nat /\ U # {}
  BY <1>0
<1> HIDE DEF U
<1>2. PICK u \in U : \A v \in U : u <= v
  BY <1>1, NatMin
<1>3. PICK m \in T : u = b - m
  BY <1>2 DEF U
<1>4. \A n \in T : b - m <= b - n
  BY <1>2, <1>3 DEF U
<1>5. \A n \in T : n <= m
  BY <1>4
<1>6. QED
  BY <1>5

=============================================================================
