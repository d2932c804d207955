------------------------------ MODULE Induction ------------------------------
(***************************************************************************)
(* Induction on the natural numbers and definition by recursion, stated    *)
(* with sets and functions in place of the operators that the library's    *)
(* induction theorems take.                                                *)
(***************************************************************************)
EXTENDS Integers, WellFoundedInduction, TLAPS

\* A set of natural numbers that is not empty has a least element.
LEMMA LeastNatural ==
  ASSUME NEW S \in SUBSET Nat, S # {}
  PROVE  \E n \in S : \A m \in S : n <= m
<1> DEFINE Less == {p \in Nat \X Nat : p[1] < p[2]}
<1>1. IsWellFoundedOn(Less, Nat)
  BY NatLessThanWellFounded DEF OpToRel
<1>2. \A x, y \in Nat : x < y => <<x, y>> \in Less
  OBVIOUS
<1> HIDE DEF Less
<1>3. PICK n \in S : \A m \in S : ~ (<<m, n>> \in Less)
  BY <1>1, WFMin
<1>4. ASSUME NEW m \in S
      PROVE  n <= m
  <2>1. m \in Nat /\ n \in Nat /\ <<m, n>> \notin Less
    BY <1>3
  <2>2. ~ (m < n)
    BY <1>2, <2>1
  <2>3. QED
    BY <2>1, <2>2
<1>5. QED
  BY <1>4

\* What holds of 0 and of k + 1 if it holds of k holds up to n.
LEMMA CountingTo ==
  ASSUME NEW n \in Nat, NEW S, 0 \in S,
         \A k \in 0 .. n - 1 : k \in S => k + 1 \in S
  PROVE  0 .. n \subseteq S
<1> SUFFICES ASSUME (0 .. n) \ S # {}
             PROVE  FALSE
  OBVIOUS
<1> DEFINE T == (0 .. n) \ S
<1>1. PICK m \in T : \A k \in T : m <= k
  <2>1. T \in SUBSET Nat /\ T # {}
    OBVIOUS
  <2> HIDE DEF T
  <2>2. QED
    BY <2>1, LeastNatural
<1>2. m # 0 /\ m - 1 \in 0 .. n - 1
  BY <1>1
<1>3. m - 1 \in S
  BY <1>1, <1>2
<1>4. (m - 1) + 1 \in S /\ (m - 1) + 1 = m
  BY <1>2, <1>3
<1>5. QED
  BY <1>1, <1>4

\* A set of natural numbers with a bound has a greatest element.
LEMMA GreatestNatural ==
  ASSUME NEW S \in SUBSET Nat, S # {}, NEW n \in Nat, \A k \in S : k <= n
  PROVE  \E m \in S : \A k \in S : k <= m
<1> DEFINE D == {n - k : k \in S}
<1>1. D \in SUBSET Nat /\ D # {}
  <2>1. \A k \in S : n - k \in Nat
    OBVIOUS
  <2>2. QED
    BY <2>1
<1>2. PICK d \in D : \A e \in D : d <= e
  <2> HIDE DEF D
  <2> QED BY <1>1, LeastNatural
<1>3. PICK m \in S : d = n - m
  OBVIOUS
<1>4. ASSUME NEW k \in S
      PROVE  k <= m
  <2>1. n - m <= n - k
    BY <1>2, <1>3
  <2>2. QED
    BY <2>1
<1>5. QED
  BY <1>4

\* step[k] computes the k-th value of a recursion from the one before.
IsStep(step, n, V) == step \in [1 .. n -> [V -> V]]

\* f follows step from v on.
Recurs(f, n, V, v, step) ==
  /\ f \in [0 .. n -> V] /\ f[0] = v
  /\ \A k \in 1 .. n : f[k] = step[k][f[k - 1]]

\* The values of a recursion over 0 .. n exist.
LEMMA Recursion ==
  ASSUME NEW n \in Nat, NEW V, NEW v \in V, NEW step, IsStep(step, n, V)
  PROVE  \E f : Recurs(f, n, V, v, step)
<1> USE DEF IsStep
<1> DEFINE Follows(f, m) ==
             /\ f \in [0 .. m -> V]
             /\ \A k \in 0 .. m : f[k] = IF k = 0 THEN v ELSE step[k][f[k - 1]]
           S == {m \in 0 .. n : \E f : Follows(f, m)}
<1>1. 0 \in S
  <2>1. Follows([k \in 0 .. 0 |-> v], 0)
    OBVIOUS
  <2>2. 0 \in 0 .. n
    OBVIOUS
  <2>3. QED
    <3> HIDE DEF Follows
    <3> QED BY <2>1, <2>2
<1>2. ASSUME NEW m \in 0 .. n - 1, m \in S
      PROVE  m + 1 \in S
  <2>1. PICK f : Follows(f, m)
    BY <1>2
  <2> DEFINE w == step[m + 1][f[m]]
             g == [k \in 0 .. m + 1 |-> IF k = m + 1 THEN w ELSE f[k]]
  <2>2. m + 1 \in 1 .. n /\ f[m] \in V
    BY <2>1
  <2>3. w \in V
    BY <2>2
  <2>4. /\ g \in [0 .. m + 1 -> V] /\ g[m + 1] = w
        /\ \A k \in 0 .. m : g[k] = f[k]
    <3> HIDE DEF w
    <3> QED BY <2>1, <2>3
  <2>5. ASSUME NEW k \in 0 .. m + 1
        PROVE  g[k] = IF k = 0 THEN v ELSE step[k][g[k - 1]]
    <3>1. CASE k = m + 1
      <4>1. k - 1 = m /\ k # 0 /\ m \in 0 .. m
        BY <3>1
      <4>2. g[k - 1] = f[m]
        BY <2>4, <4>1
      <4>3. QED
        BY <2>4, <3>1, <4>1, <4>2
    <3>2. CASE k = 0
      <4> HIDE DEF g
      <4> QED BY <2>1, <2>4, <3>2
    <3>3. CASE k \in 1 .. m
      <4>1. k \in 0 .. m /\ k - 1 \in 0 .. m /\ k # 0
        BY <3>3
      <4>2. f[k] = step[k][f[k - 1]]
        BY <2>1, <4>1
      <4> HIDE DEF g
      <4>3. QED
        BY <2>4, <4>1, <4>2
    <3>4. QED
      BY <3>1, <3>2, <3>3
  <2>6. Follows(g, m + 1)
    <3> HIDE DEF g
    <3> QED BY <2>4, <2>5
  <2>7. m + 1 \in 0 .. n
    OBVIOUS
  <2>8. QED
    <3> HIDE DEF Follows, g
    <3> QED BY <2>6, <2>7
<1>3. n \in S
  <2> HIDE DEF S
  <2>1. 0 .. n \subseteq S
    BY <1>1, <1>2, CountingTo
  <2>2. QED
    BY <2>1
<1>4. PICK f : Follows(f, n)
  BY <1>3
<1>5. Recurs(f, n, V, v, step)
  BY <1>4 DEF Recurs
<1>6. QED
  BY <1>5
=============================================================================
