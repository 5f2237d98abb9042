---------------------------- MODULE LeastNumber ----------------------------
(***************************************************************************)
(* The least-number principle and induction, stated for sets of numbers.   *)
(***************************************************************************)
EXTENDS Integers, FiniteSetTheorems, WellFoundedInduction, TLAPS

\* A set of numbers that is not empty has a least element: the segments 0..x
\* are finite, and inclusion is well-founded on finite sets.
LEMMA LeastNumber ==
  ASSUME NEW S \in SUBSET Nat, S # {}
  PROVE  \E x \in S : \A y \in S : x <= y
<1>. DEFINE Upto == {0..x : x \in S}
<1>1. Upto \subseteq FiniteSubsetsOf(Nat)
  <2>1. ASSUME NEW x \in S PROVE 0..x \in FiniteSubsetsOf(Nat)
    <3>1. x \in Int /\ 0 \in Int /\ 0..x \in SUBSET Nat
      OBVIOUS
    <3>2. IsFiniteSet(0..x)
      BY <3>1, FS_Interval
    <3>. QED  BY <3>1, <3>2 DEF FiniteSubsetsOf
  <2>. QED  BY <2>1
<1>2. Upto # {}
  OBVIOUS
<1>3. PICK d \in Upto : \A e \in Upto : ~(<<e, d>> \in StrictSubsetOrdering(Nat))
  <2>. HIDE DEF Upto
  <2>. QED  BY <1>1, <1>2, FS_StrictSubsetOrderingWellFounded, WFMin
<1>4. PICK x \in S : d = 0..x
  BY <1>3
<1>5. ASSUME NEW y \in S PROVE x <= y
  <2>1. ~(<<0..y, 0..x>> \in StrictSubsetOrdering(Nat))
    BY <1>3, <1>4
  <2>2. 0..y \in SUBSET Nat /\ 0..x \in SUBSET Nat
    OBVIOUS
  <2>3. ~(0..y \subseteq 0..x /\ 0..y # 0..x)
    BY <2>1, <2>2 DEF StrictSubsetOrdering
  <2>4. y < x => 0..y \subseteq 0..x /\ x \notin 0..y /\ x \in 0..x
    OBVIOUS
  <2>. QED  BY <2>3, <2>4
<1>. QED  BY <1>5

\* What holds of m, and of i + 1 when it holds of i, holds from m to n.
LEMMA UpTo ==
  ASSUME NEW T, NEW m \in Nat, NEW n \in Nat, m \in T,
         \A i \in m..(n - 1) : i \in T => i + 1 \in T
  PROVE  m..n \subseteq T
<1>. DEFINE Bad == {i \in m..n : i \notin T}
<1>. SUFFICES ASSUME Bad # {} PROVE FALSE
  OBVIOUS
<1>1. Bad \in SUBSET Nat
  OBVIOUS
<1>2. PICK b \in Bad : \A i \in Bad : b <= i
  <2>. HIDE DEF Bad
  <2>. QED  BY <1>1, LeastNumber
<1>3. b \in m..n /\ b \notin T /\ b # m
  OBVIOUS
<1>4. b - 1 \in m..(n - 1) /\ b - 1 \notin Bad
  BY <1>2, <1>3
<1>5. b - 1 \in T /\ (b - 1) + 1 = b
  BY <1>4
<1>. QED  BY <1>3, <1>4, <1>5
=============================================================================
