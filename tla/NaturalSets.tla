---------------------------- MODULE NaturalSets ----------------------------
(***************************************************************************)
(* Induction over the natural numbers, in forms that speak of sets: the    *)
(* other proofs cite these where a loop or a sequence may be of any        *)
(* length.                                                                 *)
(***************************************************************************)
EXTENDS Integers, FiniteSetsExt, WellFoundedInduction, TLAPS

LEMMA LeastNatural ==
    ASSUME NEW S \in SUBSET Nat, S # {}
    PROVE  \E m \in S : \A k \in S : m <= k
  <1>1. PICK m \in S : \A k \in S : <<k, m>> \notin OpToRel(<, Nat)
    BY NatLessThanWellFounded, WFMin
  <1>2. \A k \in S : ~(k < m)
    BY <1>1 DEF OpToRel
  <1> QED
    BY <1>2

(* What holds of 0, and of n + 1 if of n, holds of every number.           *)
LEMMA SetInduction ==
    ASSUME NEW S, 0 \in S, \A n \in Nat : n \in S => n + 1 \in S
    PROVE  \A n \in Nat : n \in S
  <1> SUFFICES ASSUME Nat \ S # {} PROVE FALSE
    OBVIOUS
  <1>1. PICK m \in Nat \ S : \A k \in Nat \ S : m <= k
    BY LeastNatural
  <1>2. m - 1 \in Nat /\ m - 1 \in S
    BY <1>1
  <1>3. (m - 1) + 1 \in S
    BY <1>2
  <1> QED
    BY <1>1, <1>3

(* The same for the rounds of a loop, of which there are n.                *)
LEMMA RoundInduction ==
    ASSUME NEW n \in Nat, NEW S, 0 \in S, \A k \in Nat : k < n /\ k \in S => k + 1 \in S
    PROVE  \A k \in 0 .. n : k \in S
  <1> DEFINE T == {k \in Nat : k <= n => k \in S}
  <1>1. 0 \in T /\ \A k \in Nat : k \in T => k + 1 \in T
    OBVIOUS
  <1> HIDE DEF T
  <1>2. \A k \in Nat : k \in T
    BY <1>1, SetInduction
  <1> QED
    BY <1>2 DEF T

LEMMA MaxOfTwo ==
    ASSUME NEW a \in Nat, NEW b \in Nat
    PROVE  Max({a, b}) \in Nat /\ a <= Max({a, b}) /\ b <= Max({a, b})
  <1>1. \E m \in {a, b} : \A k \in {a, b} : m >= k
    OBVIOUS
  <1> QED
    BY <1>1 DEF Max

(* The greatest of some numbers, and the last of some positions.           *)
LEMMA MaxOfNumbers ==
    ASSUME NEW n \in Nat, NEW S \in SUBSET (0 .. n), S # {}
    PROVE  Max(S) \in S /\ \A k \in S : Max(S) >= k
  <1> DEFINE T == {n - k : k \in S}
  <1>0. \A k \in S : k \in Nat /\ k <= n
    OBVIOUS
  <1>1. T \in SUBSET Nat /\ T # {}
    <2>1. \A k \in S : n - k \in Nat
      BY <1>0
    <2> QED
      BY <2>1
  <1>2. PICK t \in T : \A k \in T : t <= k
    BY <1>1, LeastNatural
  <1>3. PICK m \in S : t = n - m
    BY <1>2
  <1>4. \A k \in S : m >= k
    <2> SUFFICES ASSUME NEW k \in S
                 PROVE  m >= k
      OBVIOUS
    <2>1. n - m <= n - k
      BY <1>2, <1>3
    <2>2. m \in Nat /\ k \in Nat
      BY <1>0
    <2> QED
      BY <2>1, <2>2
  <1> QED
    BY <1>3, <1>4 DEF Max

LEMMA MaxOfPositions ==
    ASSUME NEW n \in Nat, NEW S \in SUBSET (1 .. n), S # {}
    PROVE  Max(S) \in S /\ \A k \in S : Max(S) >= k
  <1>1. S \in SUBSET (0 .. n)
    OBVIOUS
  <1> QED
    BY <1>1, MaxOfNumbers

LEMMA MinOfPositions ==
    ASSUME NEW n \in Nat, NEW S \in SUBSET (1 .. n), S # {}
    PROVE  Min(S) \in S /\ \A k \in S : Min(S) <= k
  <1>1. S \in SUBSET Nat
    OBVIOUS
  <1>2. \E m \in S : \A k \in S : m <= k
    BY <1>1, LeastNatural
  <1> QED
    BY <1>2 DEF Min

(* A loop: a value for each number of rounds, each made from the last by   *)
(* the round's step, which stays in C.                                     *)
Rounds(step, n, C) == \A i \in 1 .. n : \A x \in C : step[i][x] \in C

LEMMA Iterates ==
    ASSUME NEW C, NEW a \in C, NEW n \in Nat, NEW step, Rounds(step, n, C)
    PROVE  \E g \in [0 .. n -> C] : g[0] = a /\ \A i \in 1 .. n : g[i] = step[i][g[i - 1]]
  <1> DEFINE Is(g, k) == g = [i \in 0 .. k |-> IF i = 0 THEN a ELSE step[i][g[i - 1]]]
             S == {k \in Nat : k <= n => \E g \in [0 .. k -> C] : Is(g, k)}
  <1>1. 0 \in S
    <2>1. [i \in 0 .. 0 |-> a] \in [0 .. 0 -> C] /\ Is([i \in 0 .. 0 |-> a], 0)
      OBVIOUS
    <2> QED
      BY <2>1
  <1>2. ASSUME NEW k \in Nat, k \in S
        PROVE  k + 1 \in S
    <2> SUFFICES ASSUME k + 1 <= n
                 PROVE  \E g \in [0 .. k + 1 -> C] : Is(g, k + 1)
      OBVIOUS
    <2>1. PICK g \in [0 .. k -> C] : Is(g, k)
      BY <1>2
    <2> DEFINE h == [i \in 0 .. k + 1 |-> IF i <= k THEN g[i] ELSE step[k + 1][g[k]]]
    <2>2. step[k + 1][g[k]] \in C
      BY <2>1 DEF Rounds
    <2>3. h \in [0 .. k + 1 -> C]
      BY <2>1, <2>2
    <2>4. \A i \in 0 .. k + 1 : h[i] = IF i = 0 THEN a ELSE step[i][h[i - 1]]
      <3> SUFFICES ASSUME NEW i \in 0 .. k + 1
                   PROVE  h[i] = IF i = 0 THEN a ELSE step[i][h[i - 1]]
        OBVIOUS
      <3>1. CASE i = k + 1
        <4>1. i - 1 = k /\ h[k] = g[k] /\ h[i] = step[k + 1][g[k]] /\ i # 0
          BY <3>1
        <4> QED
          BY <3>1, <4>1
      <3>2. CASE i # k + 1
        <4>1. i \in 0 .. k /\ h[i] = g[i]
          BY <3>2
        <4>2. g[i] = IF i = 0 THEN a ELSE step[i][g[i - 1]]
          BY <2>1, <4>1
        <4>3. i # 0 => h[i - 1] = g[i - 1]
          BY <4>1
        <4> QED
          BY <4>1, <4>2, <4>3
      <3> QED
        BY <3>1, <3>2
    <2>5. Is(h, k + 1)
      BY <2>4
    <2> HIDE DEF h
    <2> QED
      BY <2>3, <2>5
  <1> HIDE DEF S
  <1>3. n \in S
    BY <1>1, <1>2, SetInduction
  <1>4. PICK g \in [0 .. n -> C] : Is(g, n)
    BY <1>3 DEF S
  <1>5. g[0] = a /\ \A i \in 1 .. n : g[i] = step[i][g[i - 1]]
    BY <1>4
  <1> QED
    BY <1>5
=============================================================================
