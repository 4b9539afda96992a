------------------------------ MODULE FiniteFacts ------------------------------
(***************************************************************************)
(* Facts about finite sets and natural numbers that the proofs share.      *)
(***************************************************************************)
EXTENDS Naturals, FiniteSets, FiniteSetTheorems, FunctionTheorems, WellFoundedInduction, TLAPS

\* A set of naturals has a least member.
LEMMA NatMin ==
  ASSUME NEW T, T \subseteq Nat, T # {}
  PROVE  \E x \in T : \A y \in T : x <= y
<1>. DEFINE R == OpToRel(<, Nat)
<1>1. IsWellFoundedOn(R, Nat)
  BY NatLessThanWellFounded
<1>2. \A x, y \in Nat : y < x => <<y, x>> \in R
  BY DEF OpToRel
<1>. HIDE DEF R
<1>3. PICK x \in T : \A y \in T : ~(<<y, x>> \in R)
  BY <1>1, WFMin
<1>4. \A y \in T : ~(y < x) /\ y \in Nat /\ x \in Nat
  BY <1>2, <1>3
<1>. QED  BY <1>4

\* The image of a finite set is finite.
LEMMA FiniteImage ==
  ASSUME NEW S, IsFiniteSet(S), NEW f, f = [x \in S |-> f[x]]
  PROVE  IsFiniteSet({f[x] : x \in S})
<1>1. f \in Surjection(S, {f[x] : x \in S})
  BY DEF Surjection
<1>. QED  BY <1>1, FS_Surjection

\* A finite set of naturals has a greatest member: of the sets that have none,
\* take one with the fewest members, and take a member away.
LEMMA NatMax ==
  ASSUME NEW S, S \subseteq Nat, S # {}, IsFiniteSet(S)
  PROVE  \E x \in S : \A y \in S : x >= y
<1>. DEFINE Topless == {T \in SUBSET S : T # {} /\ ~\E x \in T : \A y \in T : x >= y}
            sizes == {Cardinality(T) : T \in Topless}
<1>. SUFFICES ASSUME Topless # {} PROVE FALSE
  OBVIOUS
<1>1. \A T \in Topless : IsFiniteSet(T) /\ Cardinality(T) \in Nat
  BY FS_Subset, FS_CardinalityType
<1>2. PICK n \in sizes : \A m \in sizes : n <= m
  <2>1. sizes \subseteq Nat /\ sizes # {}
    BY <1>1
  <2>. HIDE DEF sizes
  <2>. QED  BY <2>1, NatMin
<1>3. PICK T \in Topless : Cardinality(T) = n
  OBVIOUS
<1>4. PICK x \in T : TRUE
  OBVIOUS
<1>. DEFINE U == T \ {x}
<1>5. IsFiniteSet(U) /\ Cardinality(U) = n - 1 /\ n \in Nat
  BY <1>1, <1>3, <1>4, FS_RemoveElement
<1>6. U # {} /\ U \subseteq S
  <2>1. \E y \in T : ~(x >= y)
    BY <1>4
  <2>2. PICK y \in T : ~(x >= y)
    BY <2>1
  <2>. QED  BY <2>2, <1>4
<1>7. U \notin Topless
  <2>. SUFFICES ASSUME U \in Topless PROVE FALSE
    OBVIOUS
  <2>1. Cardinality(U) \in sizes
    OBVIOUS
  <2>. HIDE DEF sizes, U
  <2>2. n <= Cardinality(U)
    BY <1>2, <2>1
  <2>. QED  BY <1>5, <2>2
<1>8. PICK z \in U : \A y \in U : z >= y
  BY <1>6, <1>7
<1>9. x \in Nat /\ z \in Nat /\ U \subseteq Nat
  BY <1>4, <1>6
<1>10. CASE x >= z
  <2>1. \A y \in T : x >= y
    BY <1>8, <1>9, <1>10
  <2>. QED  BY <2>1, <1>4
<1>11. CASE ~(x >= z)
  <2>1. \A y \in T : z >= y
    BY <1>8, <1>9, <1>11
  <2>. QED  BY <2>1, <1>8
<1>. QED  BY <1>10, <1>11
=============================================================================
