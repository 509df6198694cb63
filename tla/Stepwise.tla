------------------------------ MODULE Stepwise ------------------------------
(***************************************************************************)
(* Counting up, without an operator as a parameter: what the proofs about  *)
(* recursively defined functions of this project rest on.                  *)
(***************************************************************************)
EXTENDS Integers, FiniteSets, FiniteSetTheorems, TLAPS

(* A set of numbers that is not empty has a least one. *)
LEMMA LeastNumber ==
  ASSUME NEW T \in SUBSET Nat, T # {}
  PROVE  \E n \in T : \A m \in T : n <= m
<1>. DEFINE Below == {0..n : n \in T}
<1>1. IsWellFoundedOn(StrictSubsetOrdering(Nat), FiniteSubsetsOf(Nat))
  BY FS_StrictSubsetOrderingWellFounded
<1>2. Below \subseteq FiniteSubsetsOf(Nat) /\ Below # {}
  <2>1. \A n \in T : IsFiniteSet(0..n)
    BY FS_Interval
  <2>2. \A n \in T : 0..n \in FiniteSubsetsOf(Nat)
    BY <2>1 DEF FiniteSubsetsOf
  <2>3. QED
    BY <2>2
<1>3. PICK X \in Below : \A Y \in Below : ~ (<<Y, X>> \in StrictSubsetOrdering(Nat))
  <2>. HIDE DEF Below
  <2>1. QED
    BY <1>1, <1>2, WFMin
<1>4. PICK n \in T : X = 0..n
  OBVIOUS
<1>5. ASSUME NEW m \in T, m < n PROVE FALSE
  <2>1. 0..m \in Below
    OBVIOUS
  <2>2. 0..m \subseteq 0..n /\ 0..m # 0..n
    <3>1. n \in 0..n /\ n \notin 0..m
      BY <1>5
    <3>2. QED
      BY <3>1, <1>5
  <2>3. <<0..m, 0..n>> \in (SUBSET Nat) \X (SUBSET Nat)
    OBVIOUS
  <2>4. QED
    BY <1>3, <1>4, <2>1, <2>2, <2>3, Zenon DEF StrictSubsetOrdering
<1>6. QED
  BY <1>5

(* What holds of the first number and goes from each to the next holds of all of them. *)
LEMMA CountUp ==
  ASSUME NEW N \in Nat, NEW P \in [0..N -> BOOLEAN], P[0], \A n \in 1..N : P[n - 1] => P[n]
  PROVE  \A n \in 0..N : P[n]
<1>. DEFINE Bad == {n \in 0..N : ~ P[n]}
<1>1. SUFFICES ASSUME Bad # {} PROVE FALSE
  OBVIOUS
<1>2. Bad \in SUBSET Nat
  OBVIOUS
<1>3. PICK n \in Bad : \A m \in Bad : n <= m
  <2>. HIDE DEF Bad
  <2>1. QED
    BY <1>1, <1>2, LeastNumber
<1>4. n \in 1..N /\ n - 1 \in 0..N /\ ~ (n <= n - 1)
  BY <1>3
<1>5. n - 1 \notin Bad
  <2>. HIDE DEF Bad
  <2>1. QED
    BY <1>3, <1>4
<1>6. QED
  BY <1>3, <1>4, <1>5

(* The same of a set of numbers. *)
LEMMA CountAll ==
  ASSUME NEW N \in Nat, NEW S \in SUBSET (0..N), 0 \in S, \A n \in 1..N : n - 1 \in S => n \in S
  PROVE  S = 0..N
<1>. DEFINE P == [n \in 0..N |-> n \in S]
<1>1. P \in [0..N -> BOOLEAN] OBVIOUS
<1>2. P[0] OBVIOUS
<1>3. \A n \in 1..N : P[n - 1] => P[n]
  <2>1. \A n \in 1..N : n - 1 \in 0..N /\ n \in 0..N OBVIOUS
  <2> QED BY <2>1
<1>4. \A n \in 0..N : P[n]
  <2> HIDE DEF P
  <2> QED BY <1>1, <1>2, <1>3, CountUp
<1>5. \A n \in 0..N : n \in S BY <1>4
<1> QED BY <1>5

(* A function on numbers that is given by its first value and its steps exists. *)
GoesBy(f, S, N, a, step) ==
  f \in [0..N -> S] /\ f[0] = a /\ \A n \in 1..N : f[n] = step[n][f[n - 1]]

LEMMA StepByStep ==
  ASSUME NEW S, NEW N \in Nat, NEW a \in S, NEW step \in [1..N -> [S -> S]]
  PROVE  \E f : GoesBy(f, S, N, a, step)
<1>. DEFINE Good(m, f) == f \in [0..m -> S] /\ f[0] = a /\ \A n \in 1..m : f[n] = step[n][f[n - 1]]
            Bad == {m \in 0..N : ~ \E f : Good(m, f)}
<1>1. SUFFICES ASSUME Bad # {} PROVE FALSE
  <2>1. N \notin Bad => \E f : Good(N, f)
    OBVIOUS
  <2>2. QED
    BY <2>1 DEF GoesBy
<1>2. PICK m \in Bad : \A k \in Bad : m <= k
  <2>1. Bad \in SUBSET Nat
    OBVIOUS
  <2>. HIDE DEF Bad
  <2>2. QED
    BY <1>1, <2>1, LeastNumber
<1>3. CASE m = 0
  <2>1. Good(0, [n \in 0..0 |-> a])
    OBVIOUS
  <2>2. QED
    BY <1>2, <1>3, <2>1
<1>4. CASE m # 0
  <2>1. m \in 1..N /\ m - 1 \in 0..N /\ m - 1 \notin Bad
    <3>1. m \in 0..N
      OBVIOUS
    <3>2. m - 1 \in 0..N /\ ~ (m <= m - 1)
      BY <1>4, <3>1
    <3>. HIDE DEF Bad
    <3>3. QED
      BY <1>2, <1>4, <3>1, <3>2
  <2>2. PICK f : Good(m - 1, f)
    BY <2>1
  <2>. DEFINE g == [n \in 0..m |-> IF n = m THEN step[m][f[m - 1]] ELSE f[n]]
  <2>3. step[m][f[m - 1]] \in S
    BY <2>1, <2>2
  <2>4. g \in [0..m -> S] /\ g[0] = a
    BY <2>1, <2>2, <2>3, <1>4
  <2>5. \A n \in 1..m : g[n] = step[n][g[n - 1]]
    BY <2>1, <2>2
  <2>6. Good(m, g)
    BY <2>4, <2>5
  <2>7. QED
    BY <1>2, <2>6
<1>5. QED
  BY <1>3, <1>4 DEF GoesBy
=============================================================================
