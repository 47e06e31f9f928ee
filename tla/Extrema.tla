------------------------------- MODULE Extrema -------------------------------
(***************************************************************************)
(* Least and greatest elements of sets of numbers, for the proofs about    *)
(* every operator that takes the last of something.                        *)
(***************************************************************************)
EXTENDS Integers, FiniteSetsExt, WellFoundedInduction, TLAPS

\* A nonempty set of natural numbers has a least element.
LEMMA LeastNat ==
  ASSUME NEW S \in SUBSET Nat, S # {}
  PROVE  \E x \in S : \A y \in S : x <= y
<1>1. PICK x \in S : \A y \in S : <<y, x>> \notin OpToRel(<, Nat)
  BY WFMin, NatLessThanWellFounded, Zenon
<1>2. \A y \in S : ~(y < x)
  BY <1>1, Zenon DEF OpToRel
<1>3. \A y \in S : x \in Nat /\ y \in Nat
  OBVIOUS
<1> QED  BY <1>2, <1>3

\* Max of a nonempty set of natural numbers with an upper bound is its greatest element.
LEMMA MaxOfBounded ==
  ASSUME NEW b \in Nat, NEW S \in SUBSET (0..b), S # {}
  PROVE  /\ Max(S) \in S /\ Max(S) \in Nat /\ Max(S) <= b
         /\ \A y \in S : y <= Max(S)
<1> DEFINE T == {b - x : x \in S}
<1>1. T \in SUBSET Nat /\ T # {}
  <2>1. \A x \in S : x \in Int /\ 0 <= x /\ x <= b
    OBVIOUS
  <2>2. \A x \in S : b - x \in Nat
    BY <2>1
  <2> QED  BY <2>2
<1>2. PICK d \in T : \A e \in T : d <= e
  BY <1>1, LeastNat
<1>3. PICK m \in S : d = b - m
  BY <1>2
<1>4. \A y \in S : m >= y
  <2> TAKE y \in S
  <2>1. b - y \in T
    OBVIOUS
  <2>2. b - m <= b - y
    BY <1>2, <1>3, <2>1
  <2> QED  BY <2>2
<1>5. Max(S) \in S /\ \A y \in S : Max(S) >= y
  BY <1>3, <1>4, Zenon DEF Max
<1>6. \A y \in S : y \in Nat /\ y <= b
  OBVIOUS
<1> QED  BY <1>5, <1>6

\* The numbers of a finite sequence have an upper bound.
LEMMA BoundedNumbers ==
  ASSUME NEW n \in Nat, NEW g \in [1..n -> Nat]
  PROVE  \E b \in Nat : \A i \in 1..n : g[i] <= b
<1> DEFINE Bound(m) == \E b \in Nat : \A i \in 1..m : g[i] <= b
           Bad == {m \in 0..n : ~Bound(m)}
<1>1. CASE Bad = {}
  <2>1. n \in 0..n
    OBVIOUS
  <2>2. Bound(n)
    BY <1>1, <2>1
  <2> QED  BY <2>2
<1>2. CASE Bad # {}
  <2> HIDE DEF Bound
  <2>0. Bad \in SUBSET Nat
    OBVIOUS
  <2> HIDE DEF Bad
  <2>1. PICK m \in Bad : \A k \in Bad : m <= k
    BY <1>2, <2>0, LeastNat
  <2> USE DEF Bad
  <2>2. m # 0
    <3>1. \A i \in 1..0 : g[i] <= 0
      OBVIOUS
    <3>2. Bound(0)
      BY <3>1 DEF Bound
    <3> QED  BY <3>2, <2>1
  <2>3. m - 1 \in 0..n /\ m - 1 \notin Bad
    <3>1. m \in 1..n
      BY <2>1, <2>2
    <3>2. m - 1 \in 0..n /\ ~(m <= m - 1)
      BY <3>1
    <3> QED  BY <2>1, <3>2
  <2>4. PICK b \in Nat : \A i \in 1..(m - 1) : g[i] <= b
    BY <2>3 DEF Bound
  <2>5. m \in 1..n /\ g[m] \in Nat
    BY <2>1, <2>2
  <2>6. \A i \in 1..m : g[i] <= b + g[m]
    <3> TAKE i \in 1..m
    <3>1. g[i] \in Nat
      BY <2>5
    <3>2. CASE i = m
      BY <2>5, <3>1, <3>2
    <3>3. CASE i # m
      BY <2>4, <2>5, <3>1, <3>3
    <3> QED  BY <3>2, <3>3
  <2>7. Bound(m)
    <3>1. b + g[m] \in Nat
      BY <2>4, <2>5
    <3> QED  BY <2>6, <3>1 DEF Bound
  <2> QED  BY <2>1, <2>7
<1> QED  BY <1>1, <1>2
=============================================================================
