---------------------------- MODULE NaturalFacts ----------------------------
(***************************************************************************)
(* Induction, recursion and division on the natural numbers, for the       *)
(* proofs about loops, sequences, counters that wrap and bits. Induction   *)
(* is stated with a set of numbers in place of a predicate, recursion with *)
(* a function in place of an operator.                                     *)
(***************************************************************************)
EXTENDS Integers, WellFoundedInduction, TLAPS

\* A set of natural numbers has a least one.
LEMMA Least ==
  ASSUME NEW T \in SUBSET Nat, T # {}
  PROVE  \E n \in T : \A m \in T : n <= m
<1>1. PICK n \in T : \A m \in T : ~ (<<m, n>> \in OpToRel(<, Nat))
  BY NatLessThanWellFounded, WFMin
<1>2. \A m \in T : ~ (m < n)
  BY <1>1 DEF OpToRel
<1> QED
  BY <1>2

\* What holds of 0, and of n + 1 whenever of n, holds of all.
LEMMA Induct ==
  ASSUME NEW T, 0 \in T, \A n \in Nat : n \in T => n + 1 \in T
  PROVE  Nat \subseteq T
<1> SUFFICES ASSUME Nat \ T # {} PROVE FALSE
  OBVIOUS
<1>1. PICK n \in Nat \ T : \A m \in Nat \ T : n <= m
  BY Least
<1>2. n # 0 /\ n - 1 \in Nat
  BY <1>1
<1>3. n - 1 \in T
  BY <1>1, <1>2
<1>4. (n - 1) + 1 = n
  OBVIOUS
<1> QED
  BY <1>2, <1>3, <1>4

\* The same up to a bound.
LEMMA InductTo ==
  ASSUME NEW k \in Nat, NEW T, 0 \in T, \A n \in 0..k - 1 : n \in T => n + 1 \in T
  PROVE  0..k \subseteq T
<1> DEFINE U == { n \in Nat : n <= k => n \in T }
<1>1. 0 \in U
  OBVIOUS
<1>2. \A n \in Nat : n \in U => n + 1 \in U
  OBVIOUS
<1> HIDE DEF U
<1>3. Nat \subseteq U
  BY <1>1, <1>2, Induct
<1> QED
  BY <1>3 DEF U

-----------------------------------------------------------------------------
(* Recursion.                                                              *)

\* f starts with a and goes on by G.
Recursive(f, n, a, G) == f[0] = a /\ \A i \in 1..n : f[i] = G[<<f[i - 1], i>>]

LEMMA RecursionExists ==
  ASSUME NEW V, NEW a \in V, NEW n \in Nat, NEW G \in [V \X Nat -> V]
  PROVE  \E f \in [0..n -> V] : Recursive(f, n, a, G)
<1> DEFINE T == { k \in Nat : \E f \in [0..k -> V] : Recursive(f, k, a, G) }
<1>1. 0 \in T
  <2> DEFINE f == [i \in 0..0 |-> a]
  <2>1. f \in [0..0 -> V] /\ f[0] = a /\ 1..0 = {}
    OBVIOUS
  <2> QED
    BY <2>1 DEF Recursive
<1>2. ASSUME NEW k \in Nat, k \in T PROVE k + 1 \in T
  <2>1. PICK f \in [0..k -> V] : Recursive(f, k, a, G)
    BY <1>2
  <2> DEFINE g == [i \in 0..k + 1 |-> IF i = k + 1 THEN G[<<f[k], k + 1>>] ELSE f[i]]
  <2>2. G[<<f[k], k + 1>>] \in V
    OBVIOUS
  <2>3. g \in [0..k + 1 -> V]
    BY <2>2
  <2>4. g[k + 1] = G[<<f[k], k + 1>>] /\ \A i \in 0..k : g[i] = f[i]
    OBVIOUS
  <2> HIDE DEF g
  <2>5. g[0] = a
    BY <2>1, <2>4 DEF Recursive
  <2>6. ASSUME NEW i \in 1..k + 1 PROVE g[i] = G[<<g[i - 1], i>>]
    <3>1. CASE i = k + 1
      <4>1. i - 1 = k /\ k \in 0..k
        BY <3>1
      <4> QED
        BY <2>4, <3>1, <4>1
    <3>2. CASE i # k + 1
      <4>1. i \in 1..k /\ i \in 0..k /\ i - 1 \in 0..k
        BY <3>2
      <4> QED
        BY <2>1, <2>4, <4>1 DEF Recursive
    <3> QED
      BY <3>1, <3>2
  <2>7. Recursive(g, k + 1, a, G)
    BY <2>5, <2>6 DEF Recursive
  <2> QED
    BY <2>3, <2>7
<1> HIDE DEF T
<1>3. Nat \subseteq T
  BY <1>1, <1>2, Induct
<1> QED
  BY <1>3 DEF T

\* A function that obeys a recursion stays among the values that its start is
\* one of and that its steps do not leave.
LEMMA RecursionStays ==
  ASSUME NEW n \in Nat, NEW f, NEW V, f[0] \in V,
         \A i \in 1..n : f[i - 1] \in V => f[i] \in V
  PROVE  \A i \in 0..n : f[i] \in V
<1> DEFINE T == { i \in 0..n : f[i] \in V }
<1>1. 0 \in T
  OBVIOUS
<1>2. ASSUME NEW i \in 0..n - 1, i \in T PROVE i + 1 \in T
  <2>1. i + 1 \in 1..n /\ (i + 1) - 1 = i /\ i + 1 \in 0..n
    OBVIOUS
  <2> QED
    BY <1>2, <2>1
<1> HIDE DEF T
<1>3. 0..n \subseteq T
  BY <1>1, <1>2, InductTo
<1> QED
  BY <1>3 DEF T

-----------------------------------------------------------------------------
(* Division.                                                               *)

LEMMA DivMod ==
  ASSUME NEW m \in Nat \ {0}, NEW a \in Int
  PROVE  /\ a = (a \div m) * m + (a % m)
         /\ a \div m \in Int /\ a % m \in Nat /\ a % m < m
<1>1. a = (a \div m) * m + (a % m) /\ a \div m \in Int
  BY SMTT(60)
<1>2. a % m \in Nat /\ a % m < m
  BY SMTT(30)
<1> QED
  BY <1>1, <1>2

\* What is left over is the only number below m that differs by multiples of m.
LEMMA ModIs ==
  ASSUME NEW m \in Nat \ {0}, NEW q \in Int, NEW r \in Nat, r < m
  PROVE  (q * m + r) % m = r
BY SMTT(60)

LEMMA ModSmall ==
  ASSUME NEW m \in Nat \ {0}, NEW r \in Nat, r < m
  PROVE  r % m = r
BY SMTT(30)

LEMMA ModShift ==
  ASSUME NEW m \in Nat \ {0}, NEW a \in Int, NEW k \in Int
  PROVE  (a + k * m) % m = a % m
<1> DEFINE q == a \div m
           r == a % m
<1>1. a = q * m + r /\ q \in Int /\ r \in Nat /\ r < m
  BY DivMod
<1> HIDE DEF q, r
<1>2. a + k * m = (q + k) * m + r /\ q + k \in Int
  BY <1>1
<1>3. ((q + k) * m + r) % m = r /\ (q * m + r) % m = r
  BY <1>1, <1>2, ModIs
<1> QED
  BY <1>1, <1>2, <1>3

LEMMA ModOnce ==
  ASSUME NEW m \in Nat \ {0}, NEW a \in Int
  PROVE  (a + m) % m = a % m /\ (a - m) % m = a % m
<1>1. a + 1 * m = a + m /\ a + (-1) * m = a - m /\ 1 \in Int /\ -1 \in Int
  OBVIOUS
<1>2. (a + 1 * m) % m = a % m /\ (a + (-1) * m) % m = a % m
  BY <1>1, ModShift
<1> QED
  BY <1>1, <1>2

\* A sum whose first part is reduced already.
LEMMA ModSum ==
  ASSUME NEW m \in Nat \ {0}, NEW a \in Int, NEW b \in Int
  PROVE  ((a % m) + b) % m = (a + b) % m
<1> DEFINE q == a \div m
           r == a % m
<1>1. a = q * m + r /\ q \in Int /\ r \in Nat
  BY DivMod
<1> HIDE DEF q
<1>2. a + b = (r + b) + q * m /\ r + b \in Int
  <2> HIDE DEF r
  <2> QED
    BY <1>1
<1>3. ((r + b) + q * m) % m = (r + b) % m
  BY <1>1, <1>2, ModShift
<1> QED
  BY <1>2, <1>3

\* What divides out, where ModIs says what is left.
LEMMA DivIs ==
  ASSUME NEW m \in Nat \ {0}, NEW q \in Int, NEW r \in Nat, r < m
  PROVE  (q * m + r) \div m = q
BY SMTT(60)

LEMMA TimesKeepsOrder ==
  ASSUME NEW m \in Nat, NEW a \in Nat, NEW b \in Nat, a <= b
  PROVE  a * m \in Nat /\ b * m \in Nat /\ a * m <= b * m
<1>1. b = a + (b - a) /\ b - a \in Nat
  OBVIOUS
<1>2. (b - a) * m \in Nat /\ a * m \in Nat /\ b * m \in Nat
  BY <1>1, SMTT(30)
<1>3. b * m = a * m + (b - a) * m
  BY <1>1, SMTT(30)
<1> QED
  BY <1>2, <1>3

\* A block ends before a later one begins.
LEMMA BlockOrder ==
  ASSUME NEW m \in Nat, NEW a \in Nat, NEW b \in Nat, a < b, NEW t \in Nat, t < m
  PROVE  a * m + t < b * m /\ a * m \in Nat /\ b * m \in Nat
<1>1. (a + 1) * m <= b * m /\ (a + 1) * m \in Nat /\ b * m \in Nat
  BY TimesKeepsOrder
<1>2. (a + 1) * m = a * m + m /\ a * m \in Nat
  BY SMTT(30)
<1> QED
  BY <1>1, <1>2
=============================================================================
