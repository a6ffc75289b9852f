-------------------------- MODULE ContainersProofs --------------------------
(***************************************************************************)
(* The list of adlist.c and the integer set of intset.c, at any length.    *)
(*                                                                         *)
(* The pointers: what relates two neighbours follows from the order that   *)
(* the nodes are in, which every operation has to rebuild, and what an     *)
(* iterator has returned from where it stands in that order; so does what  *)
(* listIndex finds. The count is carried along as a number of wraps.       *)
(*                                                                         *)
(* The binary search: what it finds is there, and what an add concludes    *)
(* from it is exact, although the set is not sorted.                       *)
(***************************************************************************)
EXTENDS AdList, IntSet, NaturalFacts, FiniteSetTheorems

-----------------------------------------------------------------------------
(* The order of a list.                                                    *)

Pointer == Nodes \cup {NULL}

\* The nodes of L, k of them, in the order s, with nothing before and behind.
Line(nx, pv, h, t, L, k, s) ==
  /\ nx \in [Nodes -> Pointer] /\ pv \in [Nodes -> Pointer]
  /\ k \in Nat /\ s \in [Int -> Pointer]
  /\ \A i \in Int : s[i] # NULL <=> 1 <= i /\ i <= k
  /\ \A i, j \in Int : s[i] = s[j] /\ s[i] # NULL => i = j
  /\ \A n \in Nodes : n \in L <=> \E i \in Int : s[i] = n
  /\ L \subseteq Nodes
  /\ h = s[1] /\ t = s[k]
  /\ \A i \in Int : s[i] # NULL => nx[s[i]] = s[i + 1] /\ pv[s[i]] = s[i - 1]

Ordered == \E k, s : Line(nxt, prv, head, tail, linked, k, s)

LEMMA SetIs ==
  ASSUME NEW f \in [Nodes -> Pointer], NEW a \in Pointer, NEW x \in Pointer
  PROVE  /\ Set(f, a, x) \in [Nodes -> Pointer]
         /\ a = NULL => Set(f, a, x) = f
<1>1. Set(f, a, x) \in [Nodes -> Pointer]
  BY DEF Set, Pointer
<1>2. \A m \in Nodes : Set(f, a, x)[m] = IF m = a THEN x ELSE f[m]
  BY DEF Set
<1>3. ASSUME a = NULL PROVE Set(f, a, x) = f
  <2>1. \A m \in Nodes : Set(f, a, x)[m] = f[m]
    BY <1>2, <1>3, ListAssumption
  <2> QED
    BY <1>1, <2>1
<1> QED
  BY <1>1, <1>3

-----------------------------------------------------------------------------
(* How an order changes.                                                   *)

PutAt(s, p, n) == [i \in Int |-> IF i < p THEN s[i] ELSE IF i = p THEN n ELSE s[i - 1]]

TakeAt(s, p) == [i \in Int |-> IF i < p THEN s[i] ELSE s[i + 1]]

\* A node put before position p, between two others or at an end.
LEMMA PutIn ==
  ASSUME NEW nx, NEW pv, NEW h, NEW t, NEW L, NEW k, NEW s,
         Line(nx, pv, h, t, L, k, s), NEW n \in Nodes, n \notin L,
         NEW p \in Int, 1 <= p, p <= k + 1
  PROVE  Line(Set(Set(nx, n, s[p]), s[p - 1], n), Set(Set(pv, n, s[p - 1]), s[p], n),
              IF p = 1 THEN n ELSE h, IF p = k + 1 THEN n ELSE t,
              L \cup {n}, k + 1, PutAt(s, p, n))
<1> DEFINE u == PutAt(s, p, n)
           nx1 == Set(Set(nx, n, s[p]), s[p - 1], n)
           pv1 == Set(Set(pv, n, s[p - 1]), s[p], n)
<1>1. /\ k \in Nat /\ s \in [Int -> Pointer]
      /\ nx \in [Nodes -> Pointer] /\ pv \in [Nodes -> Pointer]
      /\ \A i \in Int : s[i] # NULL <=> 1 <= i /\ i <= k
      /\ \A i, j \in Int : s[i] = s[j] /\ s[i] # NULL => i = j
      /\ \A m \in Nodes : m \in L <=> \E i \in Int : s[i] = m
      /\ L \subseteq Nodes /\ h = s[1] /\ t = s[k]
      /\ \A i \in Int : s[i] # NULL => nx[s[i]] = s[i + 1] /\ pv[s[i]] = s[i - 1]
  BY DEF Line
<1>2. n # NULL /\ \A i \in Int : s[i] # n
  BY <1>1, ListAssumption
<1>3. /\ s[p] \in Pointer /\ s[p - 1] \in Pointer /\ n \in Pointer
      /\ nx1 \in [Nodes -> Pointer] /\ pv1 \in [Nodes -> Pointer]
      /\ \A m \in Nodes : /\ nx1[m] = IF m = s[p - 1] THEN n ELSE IF m = n THEN s[p] ELSE nx[m]
                          /\ pv1[m] = IF m = s[p] THEN n ELSE IF m = n THEN s[p - 1] ELSE pv[m]
  <2>1. /\ s[p] \in Pointer /\ s[p - 1] \in Pointer /\ n \in Pointer
        /\ nx \in [Nodes -> Pointer] /\ pv \in [Nodes -> Pointer]
    BY <1>1 DEF Pointer
  <2>2. /\ Set(nx, n, s[p]) \in [Nodes -> Pointer]
        /\ Set(pv, n, s[p - 1]) \in [Nodes -> Pointer]
    BY <2>1, SetIs, Zenon
  <2>3. \A m \in Nodes : /\ Set(nx, n, s[p])[m] = IF m = n THEN s[p] ELSE nx[m]
                         /\ Set(pv, n, s[p - 1])[m] = IF m = n THEN s[p - 1] ELSE pv[m]
    BY DEF Set
  <2> QED
    <3>1. nx1 \in [Nodes -> Pointer] /\ pv1 \in [Nodes -> Pointer]
      BY <2>1, <2>2, SetIs, Zenon
    <3>2. \A m \in Nodes :
            /\ nx1[m] = IF m = s[p - 1] THEN n ELSE Set(nx, n, s[p])[m]
            /\ pv1[m] = IF m = s[p] THEN n ELSE Set(pv, n, s[p - 1])[m]
      BY DEF Set
    <3> HIDE DEF nx1, pv1
    <3> QED
      BY <2>1, <2>3, <3>1, <3>2
<1>4. ASSUME NEW i \in Int
      PROVE  /\ u[i] \in Pointer
             /\ i < p => u[i] = s[i]
             /\ i = p => u[i] = n
             /\ i > p => u[i] = s[i - 1]
  BY <1>1, <1>3, SMT DEF PutAt
<1>5. u \in [Int -> Pointer]
  BY <1>4 DEF PutAt
<1> HIDE DEF u, nx1, pv1
<1>6. ASSUME NEW i \in Int PROVE u[i] # NULL <=> 1 <= i /\ i <= k + 1
  BY <1>1, <1>2, <1>4, SMT
<1>7. ASSUME NEW i \in Int, NEW j \in Int, u[i] = u[j], u[i] # NULL PROVE i = j
  BY <1>1, <1>2, <1>4, <1>7, SMT
<1>8. ASSUME NEW m \in Nodes PROVE m \in L \cup {n} <=> \E i \in Int : u[i] = m
  <2>1. ASSUME NEW i \in Int, u[i] = m PROVE m \in L \cup {n}
    <3>1. i < p \/ i = p \/ i > p
      BY SMT
    <3>2. i - 1 \in Int
      BY SMT
    <3> QED
      BY <1>1, <1>4, <2>1, <3>1, <3>2
  <2>2. ASSUME m \in L PROVE \E i \in Int : u[i] = m
    <3>1. PICK i \in Int : s[i] = m
      BY <1>1, <2>2
    <3>2. CASE i < p
      BY <1>4, <3>1, <3>2
    <3>3. CASE ~(i < p)
      <4>1. i + 1 \in Int /\ i + 1 > p /\ (i + 1) - 1 = i
        BY <3>3, SMT
      <4>2. u[i + 1] = m
        BY <1>4, <3>1, <4>1
      <4> QED
        BY <4>1, <4>2
    <3> QED
      BY <3>2, <3>3
  <2>3. u[p] = n
    BY <1>4
  <2> QED
    BY <2>1, <2>2, <2>3
<1>9. ASSUME NEW i \in Int, u[i] # NULL PROVE nx1[u[i]] = u[i + 1] /\ pv1[u[i]] = u[i - 1]
  <2>1. u[i] \in Nodes
    BY <1>4, <1>9 DEF Pointer
  <2>2. CASE i < p - 1
    BY <1>1, <1>2, <1>3, <1>4, <1>9, <2>1, <2>2, SMT
  <2>3. CASE i = p - 1
    BY <1>1, <1>2, <1>3, <1>4, <1>9, <2>1, <2>3, SMT
  <2>4. CASE i = p
    BY <1>1, <1>2, <1>3, <1>4, <1>9, <2>1, <2>4, SMT
  <2>5. CASE i = p + 1
    BY <1>1, <1>2, <1>3, <1>4, <1>9, <2>1, <2>5, SMT
  <2>6. CASE i > p + 1
    BY <1>1, <1>2, <1>3, <1>4, <1>9, <2>1, <2>6, SMT
  <2> QED
    BY <2>2, <2>3, <2>4, <2>5, <2>6, SMT
<1>10. (IF p = 1 THEN n ELSE h) = u[1] /\ (IF p = k + 1 THEN n ELSE t) = u[k + 1]
  BY <1>1, <1>4, SMT
<1>11. k + 1 \in Nat /\ L \cup {n} \subseteq Nodes
  BY <1>1
<1>12. Line(nx1, pv1, IF p = 1 THEN n ELSE h, IF p = k + 1 THEN n ELSE t,
            L \cup {n}, k + 1, u)
  BY <1>3, <1>5, <1>6, <1>7, <1>8, <1>9, <1>10, <1>11 DEF Line
<1> QED
  BY <1>12 DEF nx1, pv1, u

\* The node at position p taken out.
LEMMA TakenOut ==
  ASSUME NEW nx, NEW pv, NEW h, NEW t, NEW L, NEW k, NEW s,
         Line(nx, pv, h, t, L, k, s), NEW p \in Int, 1 <= p, p <= k
  PROVE  Line(Set(Set(nx, s[p - 1], s[p + 1]), s[p], NULL),
              Set(Set(pv, s[p + 1], s[p - 1]), s[p], NULL),
              IF s[p - 1] = NULL THEN s[p + 1] ELSE h,
              IF s[p + 1] = NULL THEN s[p - 1] ELSE t,
              L \ {s[p]}, k - 1, TakeAt(s, p))
<1> DEFINE u == TakeAt(s, p)
           n == s[p]
           nx1 == Set(Set(nx, s[p - 1], s[p + 1]), n, NULL)
           pv1 == Set(Set(pv, s[p + 1], s[p - 1]), n, NULL)
<1>1. /\ k \in Nat /\ s \in [Int -> Pointer]
      /\ nx \in [Nodes -> Pointer] /\ pv \in [Nodes -> Pointer]
      /\ \A i \in Int : s[i] # NULL <=> 1 <= i /\ i <= k
      /\ \A i, j \in Int : s[i] = s[j] /\ s[i] # NULL => i = j
      /\ \A m \in Nodes : m \in L <=> \E i \in Int : s[i] = m
      /\ L \subseteq Nodes /\ h = s[1] /\ t = s[k]
      /\ \A i \in Int : s[i] # NULL => nx[s[i]] = s[i + 1] /\ pv[s[i]] = s[i - 1]
  BY DEF Line
<1>2. n \in Nodes /\ n # NULL /\ \A i \in Int : s[i] = n <=> i = p
  BY <1>1, ListAssumption, SMT DEF Pointer
<1>3. /\ nx1 \in [Nodes -> Pointer] /\ pv1 \in [Nodes -> Pointer]
      /\ \A m \in Nodes :
           /\ nx1[m] = IF m = n THEN NULL ELSE IF m = s[p - 1] THEN s[p + 1] ELSE nx[m]
           /\ pv1[m] = IF m = n THEN NULL ELSE IF m = s[p + 1] THEN s[p - 1] ELSE pv[m]
  <2>1. /\ s[p + 1] \in Pointer /\ s[p - 1] \in Pointer /\ n \in Pointer /\ NULL \in Pointer
        /\ nx \in [Nodes -> Pointer] /\ pv \in [Nodes -> Pointer]
    BY <1>1 DEF Pointer
  <2>2. /\ Set(nx, s[p - 1], s[p + 1]) \in [Nodes -> Pointer]
        /\ Set(pv, s[p + 1], s[p - 1]) \in [Nodes -> Pointer]
    BY <2>1, SetIs, Zenon
  <2>3. \A m \in Nodes :
          /\ Set(nx, s[p - 1], s[p + 1])[m] = IF m = s[p - 1] THEN s[p + 1] ELSE nx[m]
          /\ Set(pv, s[p + 1], s[p - 1])[m] = IF m = s[p + 1] THEN s[p - 1] ELSE pv[m]
    BY DEF Set
  <2>4. nx1 \in [Nodes -> Pointer] /\ pv1 \in [Nodes -> Pointer]
    BY <2>1, <2>2, SetIs, Zenon
  <2>5. \A m \in Nodes :
          /\ nx1[m] = IF m = n THEN NULL ELSE Set(nx, s[p - 1], s[p + 1])[m]
          /\ pv1[m] = IF m = n THEN NULL ELSE Set(pv, s[p + 1], s[p - 1])[m]
    BY DEF Set
  <2> HIDE DEF nx1, pv1, n
  <2> QED
    BY <2>3, <2>4, <2>5
<1>4. ASSUME NEW i \in Int
      PROVE  /\ u[i] \in Pointer
             /\ i < p => u[i] = s[i]
             /\ i >= p => u[i] = s[i + 1]
  BY <1>1, SMT DEF TakeAt
<1>5. u \in [Int -> Pointer]
  BY <1>4 DEF TakeAt
<1>6. n = s[p]
  OBVIOUS
<1> HIDE DEF u, nx1, pv1, n
<1>7. ASSUME NEW i \in Int PROVE u[i] # NULL <=> 1 <= i /\ i <= k - 1
  BY <1>1, <1>4, SMT
<1>8. ASSUME NEW i \in Int, NEW j \in Int, u[i] = u[j], u[i] # NULL PROVE i = j
  BY <1>1, <1>4, <1>8, SMT
<1>9. ASSUME NEW m \in Nodes PROVE m \in L \ {n} <=> \E i \in Int : u[i] = m
  <2>1. ASSUME NEW i \in Int, u[i] = m PROVE m \in L /\ m # n
    <3>1. CASE i < p
      <4>1. s[i] = m /\ i # p
        BY <1>4, <2>1, <3>1
      <4> QED
        BY <1>1, <1>2, <4>1
    <3>2. CASE i >= p
      <4>1. s[i + 1] = m /\ i + 1 # p /\ i + 1 \in Int
        BY <1>4, <2>1, <3>2, SMT
      <4> QED
        BY <1>1, <1>2, <4>1
    <3> QED
      BY <3>1, <3>2, SMT
  <2>2. ASSUME m \in L, m # n PROVE \E i \in Int : u[i] = m
    <3>1. PICK i \in Int : s[i] = m
      BY <1>1, <2>2
    <3>2. i # p
      BY <1>2, <2>2, <3>1
    <3>3. CASE i < p
      BY <1>4, <3>1, <3>3
    <3>4. CASE i > p
      <4>1. i - 1 \in Int /\ i - 1 >= p /\ (i - 1) + 1 = i
        BY <3>4, SMT
      <4>2. u[i - 1] = m
        BY <1>4, <3>1, <4>1
      <4> QED
        BY <4>1, <4>2
    <3> QED
      BY <3>2, <3>3, <3>4, SMT
  <2> QED
    BY <2>1, <2>2
<1>10. ASSUME NEW i \in Int, u[i] # NULL PROVE nx1[u[i]] = u[i + 1] /\ pv1[u[i]] = u[i - 1]
  <2>1. u[i] \in Nodes
    BY <1>4, <1>10 DEF Pointer
  <2>2. CASE i < p - 1
    BY <1>1, <1>2, <1>3, <1>4, <1>10, <2>1, <2>2, SMT
  <2>3. CASE i = p - 1
    BY <1>1, <1>2, <1>3, <1>4, <1>10, <2>1, <2>3, SMT
  <2>4. CASE i = p
    BY <1>1, <1>2, <1>3, <1>4, <1>10, <2>1, <2>4, SMT
  <2>5. CASE i > p
    BY <1>1, <1>2, <1>3, <1>4, <1>10, <2>1, <2>5, SMT
  <2> QED
    BY <2>2, <2>3, <2>4, <2>5, SMT
<1>11. /\ (IF s[p - 1] = NULL THEN s[p + 1] ELSE h) = u[1]
       /\ (IF s[p + 1] = NULL THEN s[p - 1] ELSE t) = u[k - 1]
  <2>1. s[p - 1] = NULL <=> p = 1
    BY <1>1, SMT
  <2>2. s[p + 1] = NULL <=> p = k
    BY <1>1, SMT
  <2>3. (p = 1 => u[1] = s[p + 1]) /\ (p # 1 => u[1] = s[1])
    BY <1>1, <1>4, SMT
  <2>4. (p = k => u[k - 1] = s[p - 1]) /\ (p # k => u[k - 1] = s[k])
    BY <1>1, <1>4, SMT
  <2> QED
    BY <1>1, <2>1, <2>2, <2>3, <2>4
<1>12. k - 1 \in Nat /\ L \ {n} \subseteq Nodes
  BY <1>1, SMT
<1>13. Line(nx1, pv1, IF s[p - 1] = NULL THEN s[p + 1] ELSE h,
            IF s[p + 1] = NULL THEN s[p - 1] ELSE t, L \ {n}, k - 1, u)
  BY <1>3, <1>5, <1>7, <1>8, <1>9, <1>10, <1>11, <1>12 DEF Line
<1> QED
  BY <1>13 DEF nx1, pv1, n, u

\* No node, and one alone.
LEMMA Empty ==
  ASSUME NEW nx \in [Nodes -> Pointer], NEW pv \in [Nodes -> Pointer]
  PROVE  \E u : Line(nx, pv, NULL, NULL, {}, 0, u)
<1> DEFINE u == [i \in Int |-> NULL]
<1>1. u \in [Int -> Pointer] /\ \A i \in Int : u[i] = NULL
  BY DEF Pointer
<1> HIDE DEF u
<1>2. \A m \in Nodes : ~ \E i \in Int : u[i] = m
  BY <1>1, ListAssumption
<1>3. Line(nx, pv, NULL, NULL, {}, 0, u)
  BY <1>1, <1>2, SMT DEF Line
<1> QED
  BY <1>3

LEMMA Alone ==
  ASSUME NEW nx \in [Nodes -> Pointer], NEW pv \in [Nodes -> Pointer], NEW n \in Nodes,
         nx[n] = NULL, pv[n] = NULL
  PROVE  \E u : Line(nx, pv, n, n, {n}, 1, u)
<1> DEFINE u == [i \in Int |-> IF i = 1 THEN n ELSE NULL]
<1>1. /\ u \in [Int -> Pointer]
      /\ \A i \in Int : u[i] = IF i = 1 THEN n ELSE NULL
  BY DEF Pointer
<1> HIDE DEF u
<1>2. n # NULL
  BY ListAssumption
<1>3. \A i \in Int : u[i] # NULL <=> i = 1
  BY <1>1, <1>2
<1>4. \A i \in Int : u[i] # NULL <=> 1 <= i /\ i <= 1
  BY <1>3, SMT
<1>5. \A i, j \in Int : u[i] = u[j] /\ u[i] # NULL => i = j
  BY <1>3
<1>6. u[1] = n /\ u[2] = NULL /\ u[0] = NULL
  BY <1>1
<1>7. \A m \in Nodes : m \in {n} <=> \E i \in Int : u[i] = m
  BY <1>1, <1>6, ListAssumption
<1>8. \A i \in Int : u[i] # NULL => nx[u[i]] = u[i + 1] /\ pv[u[i]] = u[i - 1]
  BY <1>3, <1>6
<1>9. Line(nx, pv, n, n, {n}, 1, u)
  BY <1>1, <1>4, <1>5, <1>6, <1>7, <1>8 DEF Line
<1> QED
  BY <1>9

\* The last node moved before the first.
LEMMA Turned ==
  ASSUME NEW nx, NEW pv, NEW h, NEW t, NEW L, NEW k, NEW s,
         Line(nx, pv, h, t, L, k, s), t # NULL, pv[t] # NULL
  PROVE  \E u : Line(Set(Set(nx, pv[t], NULL), t, h), Set(Set(pv, h, t), t, NULL),
                     t, pv[t], L, k, u)
<1>1. /\ k \in Nat /\ s \in [Int -> Pointer]
      /\ nx \in [Nodes -> Pointer] /\ pv \in [Nodes -> Pointer]
      /\ h = s[1] /\ t = s[k] /\ pv[t] = s[k - 1] /\ s[k + 1] = NULL
      /\ L \subseteq Nodes
  BY SMT DEF Line
<1>2. /\ \A i \in Int : s[i] # NULL <=> 1 <= i /\ i <= k
      /\ \A i, j \in Int : s[i] = s[j] /\ s[i] # NULL => i = j
  BY DEF Line
<1>3. k - 1 >= 1 /\ h # t /\ h # NULL
  BY <1>1, <1>2, SMT
<1>4. t \in Nodes /\ t \in L /\ h \in Pointer /\ pv[t] \in Pointer
  <2>1. t \in Nodes
    BY <1>1 DEF Pointer
  <2> QED
    BY <1>1, <2>1 DEF Line, Pointer
<1> DEFINE nx1 == Set(Set(nx, pv[t], NULL), t, NULL)
           pv1 == Set(Set(pv, NULL, pv[t]), t, NULL)
<1>5. PICK u : Line(nx1, pv1, h, pv[t], L \ {t}, k - 1, u)
  <2>1. k \in Int /\ 1 <= k /\ k <= k
    BY <1>1, <1>3, SMT
  <2>2. \E u : Line(Set(Set(nx, s[k - 1], s[k + 1]), s[k], NULL),
                    Set(Set(pv, s[k + 1], s[k - 1]), s[k], NULL),
                    IF s[k - 1] = NULL THEN s[k + 1] ELSE h,
                    IF s[k + 1] = NULL THEN s[k - 1] ELSE t,
                    L \ {s[k]}, k - 1, u)
    BY <2>1, TakenOut
  <2> QED
    BY <1>1, <2>2, Zenon
<1>6. /\ u[1] = h /\ u[0] = NULL
      /\ nx1 \in [Nodes -> Pointer] /\ pv1 \in [Nodes -> Pointer]
  <2> HIDE DEF nx1, pv1
  <2> QED
    BY <1>5, SMT DEF Line
<1>7. \E w : Line(Set(Set(nx1, t, h), NULL, t), Set(Set(pv1, t, NULL), h, t),
                  t, pv[t], (L \ {t}) \cup {t}, k, w)
  <2> HIDE DEF nx1, pv1
  <2>1. 1 \in Int /\ 1 <= 1 /\ 1 <= (k - 1) + 1 /\ (k - 1) + 1 = k /\ 1 - 1 = 0 /\ 1 # k
    BY <1>1, <1>3, SMT
  <2>2. t \notin L \ {t}
    OBVIOUS
  <2>3. Line(Set(Set(nx1, t, u[1]), u[1 - 1], t), Set(Set(pv1, t, u[1 - 1]), u[1], t),
             IF 1 = 1 THEN t ELSE h, IF 1 = (k - 1) + 1 THEN t ELSE pv[t],
             (L \ {t}) \cup {t}, (k - 1) + 1, PutAt(u, 1, t))
    BY <1>4, <1>5, <2>1, <2>2, PutIn
  <2> QED
    BY <1>6, <2>1, <2>3
<1>8. Set(Set(nx1, t, h), NULL, t) = Set(Set(nx, pv[t], NULL), t, h)
  <2>1. \A m \in Nodes : m # NULL
    BY ListAssumption
  <2> QED
    BY <1>4, <2>1 DEF Set
<1>9. Set(Set(pv1, t, NULL), h, t) = Set(Set(pv, h, t), t, NULL)
  <2>1. \A m \in Nodes : m # NULL
    BY ListAssumption
  <2> QED
    BY <1>3, <1>4, <2>1 DEF Set
<1>10. (L \ {t}) \cup {t} = L
  BY <1>4
<1> QED
  BY <1>7, <1>8, <1>9, <1>10, Zenon

-----------------------------------------------------------------------------
(* The invariant: the order, and where an iterator stands in it.           *)

Iterator == [next : Pointer, dir : {"none", "head", "tail"},
             seen : SUBSET Nodes, left : SUBSET Nodes]

\* Is place i one that an iterator at place q has yet to come to?
Onward(dir, q, i) == IF dir = "head" THEN q <= i ELSE i <= q

\* An iterator on its way along s.
Going(it, s) ==
  /\ it.next # NULL /\ it.dir \in {"head", "tail"}
  /\ \E q \in Int :
       /\ s[q] = it.next
       /\ \A i \in Int : /\ s[i] \in it.left => Onward(it.dir, q, i)
                         /\ s[i] \in it.seen => ~Onward(it.dir, q, i)

\* Nodes that are no longer in the list, and still point to each other.
Chain(nx, pv, L, s) ==
  /\ s \in [Int -> Pointer]
  /\ \A i, j \in Int : s[i] = s[j] /\ s[i] # NULL => i = j
  /\ \A i \in Int : s[i] # NULL => /\ s[i] \in L
                                   /\ nx[s[i]] = s[i + 1] /\ pv[s[i]] = s[i - 1]

Stray(nx, pv, L, it) == \E s : Chain(nx, pv, L, s) /\ Going(it, s)

Known == /\ linked \subseteq Nodes /\ lost \subseteq Nodes /\ linked \cap lost = {}
         /\ iter \in Iterator
         /\ iter.seen \subseteq linked \cup lost /\ iter.left \subseteq linked \cup lost

\* An iterator is done, on its way along the list, or among nodes that were lost.
Iterating(s) == \/ iter.next = NULL /\ iter.left \cap linked = {}
                \/ Going(iter, s)
                \/ Stray(nxt, prv, lost, iter) /\ iter.left \cap linked = {}

InOrder(k, s) == /\ Line(nxt, prv, head, tail, linked, k, s)
                 /\ Known /\ Iterating(s)

ListInv == \E k, s : InOrder(k, s)

-----------------------------------------------------------------------------
(* An iterator, and a change of what it goes along.                        *)

LEMMA PutGoing ==
  ASSUME NEW it \in Iterator, NEW s, Going(it, s), NEW p \in Int, NEW n \in Nodes,
         n \notin it.seen, n \notin it.left, NEW u,
         \A i \in Int : /\ i < p => u[i] = s[i]
                        /\ i = p => u[i] = n
                        /\ i > p => u[i] = s[i - 1]
  PROVE  Going(it, u)
<1>1. PICK q \in Int : /\ s[q] = it.next
                       /\ \A i \in Int : /\ s[i] \in it.left => Onward(it.dir, q, i)
                                         /\ s[i] \in it.seen => ~Onward(it.dir, q, i)
  BY DEF Going
<1> DEFINE r == IF q < p THEN q ELSE q + 1
<1>2. r \in Int /\ u[r] = it.next
  BY <1>1, SMT
<1>3. ASSUME NEW i \in Int
      PROVE  /\ u[i] \in it.left => Onward(it.dir, r, i)
             /\ u[i] \in it.seen => ~Onward(it.dir, r, i)
  <2>1. CASE i < p
    BY <1>1, <2>1, SMT DEF Onward
  <2>2. CASE i = p
    BY <2>2
  <2>3. CASE i > p
    <3>1. i - 1 \in Int /\ u[i] = s[i - 1]
      BY <2>3, SMT
    <3>2. /\ u[i] \in it.left => Onward(it.dir, q, i - 1)
          /\ u[i] \in it.seen => ~Onward(it.dir, q, i - 1)
      BY <1>1, <3>1
    <3>3. Onward(it.dir, q, i - 1) <=> Onward(it.dir, r, i)
      BY <1>1, <2>3, SMT DEF Onward
    <3> QED
      BY <3>2, <3>3
  <2> QED
    BY <2>1, <2>2, <2>3, SMT
<1> QED
  BY <1>2, <1>3 DEF Going

LEMMA TakeGoing ==
  ASSUME NEW it \in Iterator, NEW s, Going(it, s), NEW p \in Int,
         it.next # s[p], NEW u,
         \A i \in Int : /\ i < p => u[i] = s[i]
                        /\ i >= p => u[i] = s[i + 1]
  PROVE  Going([next |-> it.next, dir |-> it.dir,
                seen |-> it.seen \ {s[p]}, left |-> it.left \ {s[p]}], u)
<1> DEFINE jt == [next |-> it.next, dir |-> it.dir,
                  seen |-> it.seen \ {s[p]}, left |-> it.left \ {s[p]}]
<1>1. PICK q \in Int : /\ s[q] = it.next
                       /\ \A i \in Int : /\ s[i] \in it.left => Onward(it.dir, q, i)
                                         /\ s[i] \in it.seen => ~Onward(it.dir, q, i)
  BY DEF Going
<1>2. q # p
  BY <1>1
<1> DEFINE r == IF q < p THEN q ELSE q - 1
<1>3. r \in Int /\ u[r] = jt.next
  BY <1>1, <1>2, SMT
<1>4. ASSUME NEW i \in Int
      PROVE  /\ u[i] \in jt.left => Onward(jt.dir, r, i)
             /\ u[i] \in jt.seen => ~Onward(jt.dir, r, i)
  <2>1. CASE i < p
    BY <1>1, <1>2, <2>1, SMT DEF Onward
  <2>2. CASE i >= p
    <3>1. i + 1 \in Int /\ u[i] = s[i + 1]
      BY <2>2, SMT
    <3>2. /\ u[i] \in it.left => Onward(it.dir, q, i + 1)
          /\ u[i] \in it.seen => ~Onward(it.dir, q, i + 1)
      BY <1>1, <3>1
    <3>3. Onward(it.dir, q, i + 1) <=> Onward(it.dir, r, i)
      BY <1>1, <1>2, <2>2, SMT DEF Onward
    <3> QED
      BY <3>2, <3>3
  <2> QED
    BY <2>1, <2>2, SMT
<1>5. jt.next # NULL /\ jt.dir \in {"head", "tail"}
  BY DEF Going
<1> QED
  BY <1>3, <1>4, <1>5 DEF Going

\* One place further: what was yet to come is behind the new place, or at it.
LEMMA NextGoing ==
  ASSUME NEW nx, NEW pv, NEW it \in Iterator, NEW s \in [Int -> Pointer],
         \A i, j \in Int : s[i] = s[j] /\ s[i] # NULL => i = j,
         \A i \in Int : s[i] # NULL => nx[s[i]] = s[i + 1] /\ pv[s[i]] = s[i - 1],
         Going(it, s), NEW jt, jt.next # NULL,
         jt = [next |-> IF it.dir = "head" THEN nx[it.next] ELSE pv[it.next],
               dir |-> it.dir, seen |-> it.seen \cup {it.next},
               left |-> it.left \ {it.next}]
  PROVE  Going(jt, s)
<1> DEFINE next == IF it.dir = "head" THEN nx[it.next] ELSE pv[it.next]
<1>1. PICK q \in Int : /\ s[q] = it.next
                       /\ \A i \in Int : /\ s[i] \in it.left => Onward(it.dir, q, i)
                                         /\ s[i] \in it.seen => ~Onward(it.dir, q, i)
  BY DEF Going
<1> DEFINE r == IF it.dir = "head" THEN q + 1 ELSE q - 1
<1>2. it.next # NULL /\ it.dir \in {"head", "tail"}
  BY DEF Going
<1>3. r \in Int /\ s[r] = next
  BY <1>1, <1>2
<1>4. ASSUME NEW i \in Int
      PROVE  /\ s[i] \in it.left \ {it.next} => Onward(it.dir, r, i)
             /\ s[i] \in it.seen \cup {it.next} => ~Onward(it.dir, r, i)
  <2>1. s[i] = it.next <=> i = q
    BY <1>1, <1>2
  <2>2. Onward(it.dir, r, i) <=> Onward(it.dir, q, i) /\ i # q
    BY <1>1, <1>2, SMT DEF Onward
  <2> QED
    BY <1>1, <2>1, <2>2
<1>5. /\ jt.next = s[r] /\ jt.dir = it.dir
      /\ jt.seen = it.seen \cup {it.next} /\ jt.left = it.left \ {it.next}
  BY <1>3
<1> HIDE DEF r
<1> QED
  BY <1>2, <1>3, <1>4, <1>5 DEF Going

\* At the end of the list nothing is left.
LEMMA NextEnds ==
  ASSUME NEW nx, NEW pv, NEW h, NEW t, NEW L, NEW k, NEW s,
         Line(nx, pv, h, t, L, k, s), NEW it \in Iterator, Going(it, s),
         (IF it.dir = "head" THEN nx[it.next] ELSE pv[it.next]) = NULL
  PROVE  (it.left \ {it.next}) \cap L = {}
<1>1. PICK q \in Int : /\ s[q] = it.next
                       /\ \A i \in Int : s[i] \in it.left => Onward(it.dir, q, i)
  BY DEF Going
<1>2. it.next # NULL /\ it.dir \in {"head", "tail"}
  BY DEF Going
<1>3. /\ k \in Nat /\ L \subseteq Nodes
      /\ \A i \in Int : s[i] # NULL <=> 1 <= i /\ i <= k
      /\ \A m \in Nodes : m \in L <=> \E i \in Int : s[i] = m
      /\ \A i \in Int : s[i] # NULL => nx[s[i]] = s[i + 1] /\ pv[s[i]] = s[i - 1]
  BY DEF Line
<1>4. ASSUME NEW m \in it.left \ {it.next}, m \in L PROVE FALSE
  <2>1. m \in Nodes /\ m # NULL
    BY <1>3, <1>4, ListAssumption
  <2>2. PICK i \in Int : s[i] = m
    BY <1>3, <1>4, <2>1
  <2>3. i # q /\ Onward(it.dir, q, i) /\ 1 <= i /\ i <= k /\ 1 <= q /\ q <= k
    BY <1>1, <1>2, <1>3, <2>1, <2>2
  <2>4. CASE it.dir = "head"
    <3>1. s[q + 1] = NULL /\ q + 1 \in Int
      BY <1>1, <1>2, <1>3, <2>4
    <3> QED
      BY <1>3, <2>3, <2>4, <3>1, SMT DEF Onward
  <2>5. CASE it.dir = "tail"
    <3>1. s[q - 1] = NULL /\ q - 1 \in Int
      BY <1>1, <1>2, <1>3, <2>5
    <3> QED
      BY <1>3, <2>3, <2>5, <3>1, SMT DEF Onward
  <2> QED
    BY <1>2, <2>4, <2>5
<1> QED
  BY <1>4

\* Lost nodes point to each other as long as nobody writes to them.
LEMMA StrayStays ==
  ASSUME NEW nx, NEW pv, NEW nx1, NEW pv1, NEW L, NEW M, NEW it, Stray(nx, pv, L, it),
         L \subseteq M, \A m \in L : nx1[m] = nx[m] /\ pv1[m] = pv[m]
  PROVE  Stray(nx1, pv1, M, it)
<1>1. PICK s : Chain(nx, pv, L, s) /\ Going(it, s)
  BY DEF Stray
<1>2. Chain(nx1, pv1, M, s)
  BY <1>1 DEF Chain
<1> QED
  BY <1>1, <1>2 DEF Stray

-----------------------------------------------------------------------------
(* One lemma per kind of step.                                             *)

LEMMA InOrderOf ==
  ASSUME ListInv
  PROVE  \E k, s : /\ InOrder(k, s)
                   /\ k \in Nat /\ head = s[1] /\ tail = s[k] /\ s[0] = NULL
                   /\ s[k + 1] = NULL
                   /\ nxt \in [Nodes -> Pointer] /\ prv \in [Nodes -> Pointer]
                   /\ head \in Pointer /\ tail \in Pointer
<1>1. PICK k, s : InOrder(k, s)
  BY DEF ListInv
<1>2. /\ k \in Nat /\ s \in [Int -> Pointer] /\ head = s[1] /\ tail = s[k]
      /\ nxt \in [Nodes -> Pointer] /\ prv \in [Nodes -> Pointer]
      /\ \A i \in Int : s[i] # NULL <=> 1 <= i /\ i <= k
  BY <1>1 DEF InOrder, Line
<1>3. s[0] = NULL /\ s[k + 1] = NULL /\ head \in Pointer /\ tail \in Pointer
  BY <1>2, SMT
<1> QED
  BY <1>1, <1>2, <1>3

\* The node at the place where it is in the order.
LEMMA PlaceOf ==
  ASSUME NEW k, NEW s, Line(nxt, prv, head, tail, linked, k, s), NEW n \in linked
  PROVE  \E p \in Int : /\ 1 <= p /\ p <= k /\ s[p] = n
                        /\ nxt[n] = s[p + 1] /\ prv[n] = s[p - 1]
<1>1. n \in Nodes /\ n # NULL
  BY ListAssumption DEF Line
<1>2. PICK p \in Int : s[p] = n
  BY <1>1 DEF Line
<1>3. 1 <= p /\ p <= k /\ nxt[n] = s[p + 1] /\ prv[n] = s[p - 1]
  BY <1>1, <1>2 DEF Line
<1> QED
  BY <1>2, <1>3

LEMMA MirroredOfOrdered == Ordered => Mirrored
<1> SUFFICES ASSUME Ordered PROVE Mirrored
  OBVIOUS
<1>1. PICK k, s : Line(nxt, prv, head, tail, linked, k, s)
  BY DEF Ordered
<1>2. /\ k \in Nat /\ s \in [Int -> Pointer] /\ linked \subseteq Nodes
      /\ \A i \in Int : s[i] # NULL <=> 1 <= i /\ i <= k
      /\ \A m \in Nodes : m \in linked <=> \E i \in Int : s[i] = m
      /\ head = s[1] /\ tail = s[k]
      /\ \A i \in Int : s[i] # NULL => nxt[s[i]] = s[i + 1] /\ prv[s[i]] = s[i - 1]
  BY <1>1 DEF Line
<1>3. \A i \in Int : s[i] # NULL => s[i] \in linked
  BY <1>2 DEF Pointer
<1>4. k = 0 => linked = {}
  <2>1. ASSUME k = 0, NEW m \in linked PROVE FALSE
    <3>1. m \in Nodes /\ m # NULL
      BY <1>2, ListAssumption
    <3>2. PICK i \in Int : s[i] = m
      BY <1>2, <3>1
    <3>3. 1 <= i /\ i <= 0
      BY <1>2, <2>1, <3>1, <3>2
    <3> QED
      BY <3>3, SMT
  <2> QED
    BY <2>1
<1>5. linked = {} => head = NULL /\ tail = NULL
  BY <1>2, <1>3
<1>6. linked # {} => /\ head \in linked /\ prv[head] = NULL
                     /\ tail \in linked /\ nxt[tail] = NULL
  <2> SUFFICES ASSUME linked # {} PROVE /\ head \in linked /\ prv[head] = NULL
                                        /\ tail \in linked /\ nxt[tail] = NULL
    OBVIOUS
  <2>1. /\ k \in Int /\ k + 1 \in Int /\ 1 <= k
        /\ ~(k + 1 <= k) /\ ~(1 <= 1 - 1) /\ 1 - 1 \in Int
    BY <1>2, <1>4, SMT
  <2>2. s[1] # NULL /\ s[k] # NULL /\ s[k + 1] = NULL /\ s[1 - 1] = NULL
    BY <1>2, <2>1
  <2> QED
    BY <1>2, <1>3, <2>1, <2>2
<1>7. ASSUME NEW n \in linked
      PROVE  /\ nxt[n] # NULL => nxt[n] \in linked /\ prv[nxt[n]] = n
             /\ prv[n] # NULL => prv[n] \in linked /\ nxt[prv[n]] = n
             /\ nxt[n] = NULL => n = tail
             /\ prv[n] = NULL => n = head
  <2>1. PICK p \in Int : /\ 1 <= p /\ p <= k /\ s[p] = n
                         /\ nxt[n] = s[p + 1] /\ prv[n] = s[p - 1]
    BY <1>1, PlaceOf
  <2>2. /\ p + 1 \in Int /\ p - 1 \in Int /\ (p + 1) - 1 = p /\ (p - 1) + 1 = p
        /\ 1 <= p + 1 /\ p - 1 <= k
        /\ p + 1 <= k \/ p = k
        /\ 1 <= p - 1 \/ p = 1
    BY <1>2, <2>1, SMT
  <2>3. /\ nxt[n] # NULL => nxt[n] \in linked /\ prv[nxt[n]] = n
        /\ prv[n] # NULL => prv[n] \in linked /\ nxt[prv[n]] = n
    BY <1>2, <1>3, <2>1, <2>2
  <2>4. /\ nxt[n] = NULL => n = tail
        /\ prv[n] = NULL => n = head
    BY <1>2, <2>1, <2>2
  <2> QED
    BY <2>3, <2>4
<1> QED
  BY <1>5, <1>6, <1>7 DEF Mirrored

LEMMA LinkedOrNull ==
  ASSUME NEW k, NEW s, InOrder(k, s), NEW i \in Int
  PROVE  s[i] \in linked \cup {NULL} /\ s[i] \notin lost
<1>1. s[i] \in Pointer
  BY DEF InOrder, Line
<1>2. s[i] # NULL => s[i] \in linked
  BY <1>1 DEF InOrder, Line, Pointer
<1> QED
  BY <1>2, ListAssumption DEF InOrder, Known

\* A step that leaves the history of losses alone, and writes to none of them.
LEMMA IteratingStays ==
  ASSUME NEW s, NEW u, Known, Iterating(s), iter' = iter, lost' = lost,
         iter.left \cap linked' \subseteq linked,
         \A m \in lost : nxt'[m] = nxt[m] /\ prv'[m] = prv[m],
         Going(iter, s) => Going(iter, u)
  PROVE  Iterating(u)'
<1>1. CASE iter.next = NULL /\ iter.left \cap linked = {}
  BY <1>1 DEF Iterating
<1>2. CASE Going(iter, s)
  <2>1. Going(iter', u)
    BY <1>2
  <2> QED
    BY <2>1 DEF Iterating
<1>3. CASE Stray(nxt, prv, lost, iter) /\ iter.left \cap linked = {}
  <2>1. Stray(nxt', prv', lost', iter')
    BY <1>3, StrayStays
  <2> QED
    BY <1>3, <2>1 DEF Iterating
<1> QED
  BY <1>1, <1>2, <1>3 DEF Iterating

LEMMA AddedOK ==
  ASSUME NEW k, NEW s, InOrder(k, s), NEW n \in Fresh, NEW p \in Int, 1 <= p, p <= k + 1,
         nxt' = Set(Set(nxt, n, s[p]), s[p - 1], n),
         prv' = Set(Set(prv, n, s[p - 1]), s[p], n),
         head' = IF p = 1 THEN n ELSE head,
         tail' = IF p = k + 1 THEN n ELSE tail,
         linked' = linked \cup {n}, lost' = lost, iter' = iter
  PROVE  ListInv'
<1>1. n \in Nodes /\ n \notin linked /\ n \notin lost
  BY DEF Fresh
<1>2. n \notin iter.seen /\ n \notin iter.left /\ iter \in Iterator
  BY <1>1 DEF InOrder, Known
<1> DEFINE u == PutAt(s, p, n)
<1>3. /\ Line(nxt', prv', head', tail', linked', k + 1, u)
      /\ \A i \in Int : /\ i < p => u[i] = s[i]
                        /\ i = p => u[i] = n
                        /\ i > p => u[i] = s[i - 1]
  <2>1. Line(nxt, prv, head, tail, linked, k, s)
    BY DEF InOrder
  <2>2. Line(Set(Set(nxt, n, s[p]), s[p - 1], n), Set(Set(prv, n, s[p - 1]), s[p], n),
             IF p = 1 THEN n ELSE head, IF p = k + 1 THEN n ELSE tail,
             linked \cup {n}, k + 1, PutAt(s, p, n))
    BY <1>1, <2>1, PutIn, Zenon
  <2>3. \A i \in Int : /\ i < p => PutAt(s, p, n)[i] = s[i]
                       /\ i = p => PutAt(s, p, n)[i] = n
                       /\ i > p => PutAt(s, p, n)[i] = s[i - 1]
    BY SMT DEF PutAt
  <2> QED
    BY <2>2, <2>3, Zenon
<1> HIDE DEF u
<1>4. Known'
  BY <1>1 DEF InOrder, Known
<1>5. \A m \in lost : nxt'[m] = nxt[m] /\ prv'[m] = prv[m]
  <2>1. s[p] \notin lost /\ s[p - 1] \notin lost
    BY LinkedOrNull
  <2>2. lost \subseteq Nodes
    BY DEF InOrder, Known
  <2> QED
    BY <1>1, <2>1, <2>2 DEF Set
<1>6. Going(iter, s) => Going(iter, u)
  BY <1>1, <1>2, <1>3, PutGoing
<1>7. Iterating(u)'
  BY <1>2, <1>5, <1>6, IteratingStays DEF InOrder
<1>8. InOrder(k + 1, u)'
  BY <1>3, <1>4, <1>7 DEF InOrder
<1> QED
  BY <1>8 DEF ListInv

LEMMA OnlyOK == ASSUME ListInv, NEW n \in Fresh, Only(n) PROVE ListInv'
<1>1. PICK k, s : InOrder(k, s)
  BY DEF ListInv
<1>2. nxt \in [Nodes -> Pointer] /\ prv \in [Nodes -> Pointer] /\ Known /\ Iterating(s)
  BY <1>1 DEF InOrder, Line
<1>3. n \in Nodes /\ n \notin linked /\ n \notin lost /\ n \in Pointer /\ NULL \in Pointer
  BY DEF Fresh, Pointer
<1>4. nxt' \in [Nodes -> Pointer] /\ prv' \in [Nodes -> Pointer]
  BY <1>2, <1>3, SetIs, Zenon DEF Only
<1>5. nxt'[n] = NULL /\ prv'[n] = NULL
  BY <1>3 DEF Only, Set
<1>6. PICK u : Line(nxt', prv', n, n, {n}, 1, u)
  BY <1>3, <1>4, <1>5, Alone
<1>7. /\ head' = n /\ tail' = n /\ linked' = {n} /\ lost' = lost \cup linked /\ iter' = iter
  BY DEF Only
<1>8. Known'
  BY <1>2, <1>3, <1>7 DEF Known
<1>9. iter.left \cap linked' = {}
  BY <1>2, <1>3, <1>7 DEF Known
<1>10. \A m \in lost \cup linked : nxt'[m] = nxt[m] /\ prv'[m] = prv[m]
  BY <1>2, <1>3 DEF Only, Set, Known
<1>11. Iterating(u)'
  <2>1. CASE iter.next = NULL
    BY <1>7, <1>9, <2>1 DEF Iterating
  <2>2. CASE Going(iter, s)
    <3>1. Chain(nxt, prv, lost \cup linked, s)
      <4>1. \A i \in Int : s[i] # NULL => s[i] \in lost \cup linked
        BY <1>1, LinkedOrNull
      <4> QED
        BY <1>1, <4>1 DEF InOrder, Line, Chain
    <3>2. Stray(nxt, prv, lost \cup linked, iter)
      BY <2>2, <3>1 DEF Stray
    <3>3. Stray(nxt', prv', lost', iter')
      BY <1>7, <1>10, <3>2, StrayStays
    <3> QED
      BY <1>7, <1>9, <3>3 DEF Iterating
  <2>3. CASE Stray(nxt, prv, lost, iter)
    <3>1. Stray(nxt', prv', lost', iter')
      BY <1>7, <1>10, <2>3, StrayStays
    <3> QED
      BY <1>7, <1>9, <3>1 DEF Iterating
  <2> QED
    BY <1>2, <2>1, <2>2, <2>3 DEF Iterating
<1>12. InOrder(1, u)'
  BY <1>6, <1>7, <1>8, <1>11 DEF InOrder
<1> QED
  BY <1>12 DEF ListInv

LEMMA PrependOK == ASSUME ListInv, NEW n \in Fresh, head # NULL, Prepend(n) PROVE ListInv'
<1>1. PICK k, s : /\ InOrder(k, s)
                  /\ k \in Nat /\ head = s[1] /\ s[0] = NULL /\ s[k + 1] = NULL
                  /\ nxt \in [Nodes -> Pointer] /\ head \in Pointer
  BY InOrderOf
<1>2. k # 0
  <2>1. ASSUME k = 0 PROVE FALSE
    <3>1. k + 1 = 1
      BY <2>1, SMT
    <3> QED
      BY <1>1, <3>1
  <2> QED
    BY <2>1
<1>3. 1 \in Int /\ 1 <= 1 /\ 1 <= k + 1 /\ 1 - 1 = 0 /\ 1 # k + 1
  BY <1>1, <1>2, SMT
<1>4. nxt' = Set(Set(nxt, n, s[1]), s[1 - 1], n)
  <2>1. n \in Pointer /\ NULL \in Pointer
    BY DEF Pointer, Fresh
  <2>2. Set(nxt, n, head) \in [Nodes -> Pointer]
    BY <1>1, <2>1, SetIs, Zenon
  <2>3. nxt' = Set(Set(nxt, n, head), NULL, n)
    BY <2>1, <2>2, SetIs, Zenon DEF Prepend
  <2> QED
    BY <1>1, <1>3, <2>3
<1>5. /\ prv' = Set(Set(prv, n, s[1 - 1]), s[1], n)
      /\ head' = IF 1 = 1 THEN n ELSE head
      /\ tail' = IF 1 = k + 1 THEN n ELSE tail
      /\ linked' = linked \cup {n} /\ lost' = lost /\ iter' = iter
  BY <1>1, <1>3 DEF Prepend
<1> QED
  BY <1>1, <1>3, <1>4, <1>5, AddedOK

LEMMA PushOK == ASSUME ListInv, NEW n \in Fresh, tail # NULL, Push(n) PROVE ListInv'
<1>1. PICK k, s : /\ InOrder(k, s)
                  /\ k \in Nat /\ tail = s[k] /\ s[0] = NULL /\ s[k + 1] = NULL
                  /\ prv \in [Nodes -> Pointer] /\ tail \in Pointer
  BY InOrderOf
<1>2. k # 0
  BY <1>1
<1>3. k + 1 \in Int /\ 1 <= k + 1 /\ k + 1 <= k + 1 /\ (k + 1) - 1 = k /\ k + 1 # 1
  BY <1>1, <1>2, SMT
<1>4. prv' = Set(Set(prv, n, s[(k + 1) - 1]), s[k + 1], n)
  <2>1. n \in Pointer /\ NULL \in Pointer
    BY DEF Pointer, Fresh
  <2>2. Set(prv, n, tail) \in [Nodes -> Pointer]
    BY <1>1, <2>1, SetIs, Zenon
  <2>3. prv' = Set(Set(prv, n, tail), NULL, n)
    BY <2>1, <2>2, SetIs, Zenon DEF Push
  <2> QED
    BY <1>1, <1>3, <2>3
<1>5. /\ nxt' = Set(Set(nxt, n, s[k + 1]), s[(k + 1) - 1], n)
      /\ head' = IF k + 1 = 1 THEN n ELSE head
      /\ tail' = IF k + 1 = k + 1 THEN n ELSE tail
      /\ linked' = linked \cup {n} /\ lost' = lost /\ iter' = iter
  BY <1>1, <1>3 DEF Push
<1> QED
  BY <1>1, <1>3, <1>4, <1>5, AddedOK

LEMMA InsertOK ==
  ASSUME ListInv, NEW n \in Fresh, NEW old \in linked, NEW after \in BOOLEAN,
         listInsertNode(old, n, after)
  PROVE  ListInv'
<1>1. PICK k, s : /\ InOrder(k, s) /\ Line(nxt, prv, head, tail, linked, k, s)
                  /\ k \in Nat /\ head = s[1] /\ tail = s[k]
  BY InOrderOf DEF InOrder
<1>2. PICK p \in Int : /\ 1 <= p /\ p <= k /\ s[p] = old
                       /\ nxt[old] = s[p + 1] /\ prv[old] = s[p - 1]
  BY <1>1, PlaceOf
<1>3. \A i \in Int : s[i] = old <=> i = p
  BY <1>1, <1>2, ListAssumption DEF Line
<1>4. linked' = linked \cup {n} /\ lost' = lost /\ iter' = iter
  BY DEF listInsertNode
<1>5. CASE after
  <2>1. p + 1 \in Int /\ 1 <= p + 1 /\ p + 1 <= k + 1 /\ (p + 1) - 1 = p /\ p + 1 # 1
    BY <1>1, <1>2, SMT
  <2>2. p + 1 = k + 1 <=> tail = old
    BY <1>1, <1>2, <1>3, SMT
  <2>3. /\ nxt' = Set(Set(nxt, n, nxt[old]), old, n)
        /\ prv' = Set(Set(prv, n, old), nxt[old], n)
        /\ head' = head /\ tail' = IF tail = old THEN n ELSE tail
    BY <1>5 DEF listInsertNode
  <2>4. /\ nxt' = Set(Set(nxt, n, s[p + 1]), s[(p + 1) - 1], n)
        /\ prv' = Set(Set(prv, n, s[(p + 1) - 1]), s[p + 1], n)
        /\ head' = IF p + 1 = 1 THEN n ELSE head
        /\ tail' = IF p + 1 = k + 1 THEN n ELSE tail
    BY <1>2, <2>1, <2>2, <2>3
  <2> QED
    BY <1>1, <1>4, <2>1, <2>4, AddedOK
<1>6. CASE ~after
  <2>1. p <= k + 1 /\ p # k + 1
    BY <1>1, <1>2, SMT
  <2>2. p = 1 <=> head = old
    BY <1>1, <1>2, <1>3, SMT
  <2>3. /\ nxt' = Set(Set(nxt, n, old), prv[old], n)
        /\ prv' = Set(Set(prv, n, prv[old]), old, n)
        /\ head' = IF head = old THEN n ELSE head
        /\ tail' = tail
    BY <1>6 DEF listInsertNode
  <2>4. /\ nxt' = Set(Set(nxt, n, s[p]), s[p - 1], n)
        /\ prv' = Set(Set(prv, n, s[p - 1]), s[p], n)
        /\ head' = IF p = 1 THEN n ELSE head
        /\ tail' = IF p = k + 1 THEN n ELSE tail
    BY <1>2, <2>1, <2>2, <2>3
  <2> QED
    BY <1>1, <1>2, <1>4, <2>1, <2>4, AddedOK
<1> QED
  BY <1>5, <1>6

LEMMA DelOK == ASSUME ListInv, NEW n \in linked, listDelNode(n) PROVE ListInv'
<1>1. PICK k, s : /\ InOrder(k, s) /\ Line(nxt, prv, head, tail, linked, k, s)
                  /\ k \in Nat /\ Known /\ Iterating(s)
  BY InOrderOf DEF InOrder
<1>2. PICK p \in Int : /\ 1 <= p /\ p <= k /\ s[p] = n
                       /\ nxt[n] = s[p + 1] /\ prv[n] = s[p - 1]
  BY <1>1, PlaceOf
<1> DEFINE u == TakeAt(s, p)
<1>3. /\ Line(nxt', prv', head', tail', linked', k - 1, u)
      /\ \A i \in Int : /\ i < p => u[i] = s[i]
                        /\ i >= p => u[i] = s[i + 1]
  <2>1. Line(Set(Set(nxt, s[p - 1], s[p + 1]), s[p], NULL),
             Set(Set(prv, s[p + 1], s[p - 1]), s[p], NULL),
             IF s[p - 1] = NULL THEN s[p + 1] ELSE head,
             IF s[p + 1] = NULL THEN s[p - 1] ELSE tail,
             linked \ {s[p]}, k - 1, TakeAt(s, p))
    BY <1>1, <1>2, TakenOut, Zenon
  <2>2. \A i \in Int : /\ i < p => TakeAt(s, p)[i] = s[i]
                       /\ i >= p => TakeAt(s, p)[i] = s[i + 1]
    BY SMT DEF TakeAt
  <2>3. /\ nxt' = Set(Set(nxt, s[p - 1], s[p + 1]), s[p], NULL)
        /\ prv' = Set(Set(prv, s[p + 1], s[p - 1]), s[p], NULL)
        /\ head' = IF s[p - 1] = NULL THEN s[p + 1] ELSE head
        /\ tail' = IF s[p + 1] = NULL THEN s[p - 1] ELSE tail
        /\ linked' = linked \ {s[p]}
    BY <1>2, Zenon DEF listDelNode
  <2> QED
    BY <2>1, <2>2, <2>3, Zenon
<1> HIDE DEF u
<1>4. /\ iter' = [next |-> iter.next, dir |-> iter.dir,
                  seen |-> iter.seen \ {n}, left |-> iter.left \ {n}]
      /\ linked' = linked \ {n} /\ lost' = lost /\ iter.next # n
  BY <1>1 DEF listDelNode, Known, Iterator
<1>5. Known'
  BY <1>1, <1>4 DEF Known, Iterator
<1>6. \A m \in lost : nxt'[m] = nxt[m] /\ prv'[m] = prv[m]
  <2>1. s[p + 1] \notin lost /\ s[p - 1] \notin lost
    BY <1>1, LinkedOrNull
  <2>2. lost \subseteq Nodes /\ n \notin lost
    BY <1>1 DEF Known
  <2> QED
    BY <1>2, <2>1, <2>2 DEF Set, listDelNode
<1>7. Iterating(u)'
  <2>1. CASE iter.next = NULL /\ iter.left \cap linked = {}
    BY <1>4, <2>1 DEF Iterating
  <2>2. CASE Going(iter, s)
    <3>1. Going(iter', u)
      BY <1>1, <1>2, <1>3, <1>4, <2>2, TakeGoing DEF Known
    <3> QED
      BY <3>1 DEF Iterating
  <2>3. CASE Stray(nxt, prv, lost, iter) /\ iter.left \cap linked = {}
    <3>1. PICK w : Chain(nxt, prv, lost, w) /\ Going(iter, w)
      BY <2>3 DEF Stray
    <3>2. Going(iter', w)
      BY <1>4, <3>1 DEF Going
    <3>3. Stray(nxt, prv, lost, iter')
      BY <3>1, <3>2 DEF Stray
    <3>4. Stray(nxt', prv', lost', iter')
      BY <1>4, <1>6, <3>3, StrayStays
    <3> QED
      BY <1>4, <2>3, <3>4 DEF Iterating
  <2> QED
    BY <1>1, <2>1, <2>2, <2>3 DEF Iterating
<1>8. InOrder(k - 1, u)'
  BY <1>3, <1>5, <1>7 DEF InOrder
<1> QED
  BY <1>8 DEF ListInv

LEMMA RotateOK ==
  ASSUME ListInv, listRotate, tail # NULL, prv[tail] # NULL
  PROVE  ListInv'
<1>1. PICK k, s : Line(nxt, prv, head, tail, linked, k, s) /\ Known
  BY DEF ListInv, InOrder
<1>2. \E u : Line(Set(Set(nxt, prv[tail], NULL), tail, head),
                  Set(Set(prv, head, tail), tail, NULL), tail, prv[tail], linked, k, u)
  BY <1>1, Turned
<1>3. PICK u : Line(nxt', prv', head', tail', linked', k, u)
  BY <1>2, Zenon DEF listRotate
<1>4. linked' = linked /\ lost' = lost /\ iter' = iter /\ iter = NoIter
  BY DEF listRotate
<1>5. Known'
  BY <1>1, <1>4 DEF Known
<1>6. Iterating(u)'
  BY <1>4 DEF Iterating, NoIter
<1>7. InOrder(k, u)'
  BY <1>3, <1>5, <1>6 DEF InOrder
<1> QED
  BY <1>7 DEF ListInv

LEMMA AnewOK == ASSUME Anew PROVE ListInv'
<1>1. nxt' \in [Nodes -> Pointer] /\ prv' \in [Nodes -> Pointer]
  BY DEF Anew, Pointer
<1>2. PICK u : Line(nxt', prv', NULL, NULL, {}, 0, u)
  BY <1>1, Empty
<1>3. head' = NULL /\ tail' = NULL /\ linked' = {} /\ lost' = {} /\ iter' = NoIter
  BY DEF Anew
<1>4. Known'
  BY <1>3 DEF Known, NoIter, Iterator, Pointer
<1>5. Iterating(u)'
  BY <1>3 DEF Iterating, NoIter
<1>6. InOrder(0, u)'
  BY <1>2, <1>3, <1>4, <1>5, Zenon DEF InOrder
<1> QED
  BY <1>6 DEF ListInv

\* An iterator starts at an end, before everything.
LEMMA StartOK ==
  ASSUME ListInv, NEW dir \in {"head", "tail"}, listGetIterator(dir)
  PROVE  ListInv'
<1>1. PICK k, s : /\ InOrder(k, s) /\ Line(nxt, prv, head, tail, linked, k, s)
                  /\ k \in Nat /\ head = s[1] /\ tail = s[k] /\ Known
                  /\ head \in Pointer /\ tail \in Pointer
  BY InOrderOf DEF InOrder
<1>2. /\ iter' = [next |-> IF dir = "head" THEN head ELSE tail, dir |-> dir,
                  seen |-> {}, left |-> linked]
      /\ nxt' = nxt /\ prv' = prv /\ head' = head /\ tail' = tail
      /\ linked' = linked /\ lost' = lost
  BY DEF listGetIterator, pointers
<1>3. Known'
  BY <1>1, <1>2 DEF Known, Iterator
<1>4. Iterating(s)'
  <2>1. CASE iter'.next = NULL
    <3>1. linked = {}
      <4>1. Ordered
        BY <1>1 DEF Ordered
      <4> QED
        <5>1. head = NULL \/ tail = NULL
          BY <1>2, <2>1
        <5>2. linked # {} => head \in linked /\ tail \in linked
          BY <4>1, MirroredOfOrdered DEF Mirrored
        <5> QED
          BY <1>1, <5>1, <5>2, ListAssumption DEF Known
    <3> QED
      BY <1>2, <2>1, <3>1 DEF Iterating
  <2>2. CASE iter'.next # NULL
    <3>1. \A i \in Int : s[i] \in linked => 1 <= i /\ i <= k
      BY <1>1, ListAssumption DEF Line
    <3> DEFINE q == IF dir = "head" THEN 1 ELSE k
    <3>2. /\ q \in Int /\ s[q] = iter'.next
          /\ iter'.dir = dir /\ iter'.left = linked /\ iter'.seen = {}
      BY <1>1, <1>2
    <3>3. \A i \in Int : s[i] \in linked => Onward(dir, q, i)
      BY <3>1 DEF Onward
    <3> HIDE DEF q
    <3>4. Going(iter', s)
      BY <2>2, <3>2, <3>3 DEF Going
    <3> QED
      BY <3>4 DEF Iterating
  <2> QED
    BY <2>1, <2>2
<1>5. InOrder(k, s)'
  BY <1>1, <1>2, <1>3, <1>4 DEF InOrder
<1> QED
  BY <1>5 DEF ListInv

LEMMA NextOK == ASSUME ListInv, listNext PROVE ListInv'
<1>1. PICK k, s : /\ InOrder(k, s) /\ Line(nxt, prv, head, tail, linked, k, s)
                  /\ Known /\ Iterating(s)
  BY DEF ListInv, InOrder
<1> DEFINE jt == [next |-> IF iter.dir = "head" THEN nxt[iter.next] ELSE prv[iter.next],
                  dir |-> iter.dir, seen |-> iter.seen \cup {iter.next},
                  left |-> iter.left \ {iter.next}]
<1>0. jt = [next |-> IF iter.dir = "head" THEN nxt[iter.next] ELSE prv[iter.next],
            dir |-> iter.dir, seen |-> iter.seen \cup {iter.next},
            left |-> iter.left \ {iter.next}]
  OBVIOUS
<1>2. /\ iter.next # NULL /\ iter' = jt
      /\ nxt' = nxt /\ prv' = prv /\ head' = head /\ tail' = tail
      /\ linked' = linked /\ lost' = lost
  BY <1>1 DEF listNext, Beyond, pointers, Known, Iterator
<1>3. /\ s \in [Int -> Pointer]
      /\ \A i, j \in Int : s[i] = s[j] /\ s[i] # NULL => i = j
      /\ \A i \in Int : s[i] # NULL => nxt[s[i]] = s[i + 1] /\ prv[s[i]] = s[i - 1]
      /\ nxt \in [Nodes -> Pointer] /\ prv \in [Nodes -> Pointer]
  BY <1>1 DEF Line
<1>4. iter \in Iterator /\ iter.next \in Nodes
  BY <1>1, <1>2 DEF Known, Iterator, Pointer
<1>5. jt.next \in Pointer
  BY <1>3, <1>4
<1>6. CASE Going(iter, s)
  <2>1. iter.next \in linked
    BY <1>1, <1>2, <1>6, LinkedOrNull DEF Going
  <2>2. ASSUME jt.next # NULL PROVE Going(jt, s)
    <3> HIDE DEF jt
    <3> QED
      BY <1>0, <1>3, <1>4, <1>6, <2>2, NextGoing
  <2>3. jt.next = NULL => jt.left \cap linked = {}
    BY <1>1, <1>4, <1>6, NextEnds
  <2>4. Iterating(s)'
    BY <1>2, <2>2, <2>3 DEF Iterating
  <2>5. Known'
    BY <1>1, <1>2, <1>4, <1>5, <2>1 DEF Known, Iterator
  <2>6. InOrder(k, s)'
    BY <1>1, <1>2, <2>4, <2>5 DEF InOrder
  <2> QED
    BY <2>6 DEF ListInv
<1>7. CASE Stray(nxt, prv, lost, iter) /\ iter.left \cap linked = {}
  <2>1. PICK w : Chain(nxt, prv, lost, w) /\ Going(iter, w)
    BY <1>7 DEF Stray
  <2>2. /\ w \in [Int -> Pointer]
        /\ \A i, j \in Int : w[i] = w[j] /\ w[i] # NULL => i = j
        /\ \A i \in Int : w[i] # NULL => nxt[w[i]] = w[i + 1] /\ prv[w[i]] = w[i - 1]
    BY <2>1 DEF Chain
  <2>3. iter.next \in lost
    BY <1>2, <2>1 DEF Chain, Going
  <2>4. ASSUME jt.next # NULL PROVE Going(jt, w)
    <3> HIDE DEF jt
    <3> QED
      BY <1>0, <1>4, <2>1, <2>2, <2>4, NextGoing
  <2>5. jt.next # NULL => Stray(nxt, prv, lost, jt)
    BY <2>1, <2>4 DEF Stray
  <2>6. Iterating(s)'
    BY <1>2, <1>7, <2>5 DEF Iterating
  <2>7. Known'
    BY <1>1, <1>2, <1>4, <1>5, <2>3 DEF Known, Iterator
  <2>8. InOrder(k, s)'
    BY <1>1, <1>2, <2>6, <2>7 DEF InOrder
  <2> QED
    BY <2>8 DEF ListInv
<1> QED
  BY <1>1, <1>2, <1>6, <1>7 DEF Iterating

-----------------------------------------------------------------------------
(* The theorems.                                                           *)

\* Every operation leaves the nodes in some order, whatever the count says, and
\* an iterator between those that it has returned and those that it has not.
THEOREM StaysInOrder == ListInv /\ [ListNext]_lvars => ListInv'
<1> SUFFICES ASSUME ListInv, [ListNext]_lvars PROVE ListInv'
  OBVIOUS
<1>1. CASE \E n \in Fresh : listAddNodeHead(n)
  <2>1. PICK n \in Fresh : listAddNodeHead(n)
    BY <1>1
  <2>2. \/ Only(n) \/ (head # NULL /\ Prepend(n)) \/ Anew
    BY <2>1 DEF listAddNodeHead, Crash
  <2> QED
    BY <2>2, OnlyOK, PrependOK, AnewOK
<1>2. CASE \E n \in Fresh : listAddNodeTail(n)
  <2>1. PICK n \in Fresh : listAddNodeTail(n)
    BY <1>2
  <2>2. \/ Only(n) \/ (tail # NULL /\ Push(n)) \/ Anew
    BY <2>1 DEF listAddNodeTail, Crash
  <2> QED
    BY <2>2, OnlyOK, PushOK, AnewOK
<1>3. CASE \E n \in Fresh, old \in linked, after \in BOOLEAN : listInsertNode(old, n, after)
  BY <1>3, InsertOK
<1>4. CASE \E n \in linked : listDelNode(n)
  BY <1>4, DelOK
<1>5. CASE listRotate
  <2>1. CASE tail = NULL \/ prv[tail] = NULL
    BY <1>5, <2>1, AnewOK DEF listRotate, Crash
  <2>2. CASE ~(tail = NULL \/ prv[tail] = NULL)
    BY <1>5, <2>2, RotateOK
  <2> QED
    BY <2>1, <2>2
<1>6. CASE listRelease \/ listDup
  BY <1>6, AnewOK DEF listRelease, listDup, Crash
<1>7. CASE \E dir \in {"head", "tail"} : listGetIterator(dir)
  BY <1>7, StartOK
<1>8. CASE listNext
  BY <1>8, NextOK
<1>9. CASE listReleaseIterator \/ UNCHANGED lvars
  <2>1. PICK k, s : /\ Line(nxt, prv, head, tail, linked, k, s)
                    /\ Known /\ Iterating(s)
    BY DEF ListInv, InOrder
  <2>2. /\ iter' = iter \/ iter' = NoIter
        /\ nxt' = nxt /\ prv' = prv /\ head' = head /\ tail' = tail
        /\ linked' = linked /\ lost' = lost
    BY <1>9 DEF listReleaseIterator, lvars, pointers
  <2>3. Known'
    BY <2>1, <2>2 DEF Known, NoIter, Iterator, Pointer
  <2>4. Iterating(s)'
    BY <2>1, <2>2 DEF Iterating, NoIter
  <2>5. InOrder(k, s)'
    BY <2>1, <2>2, <2>3, <2>4 DEF InOrder
  <2> QED
    BY <2>5 DEF ListInv
<1> QED
  BY <1>1, <1>2, <1>3, <1>4, <1>5, <1>6, <1>7, <1>8, <1>9, Zenon DEF ListNext

LEMMA StartsInOrder == ListInit => ListInv
<1> SUFFICES ASSUME ListInit PROVE ListInv
  OBVIOUS
<1>1. nxt \in [Nodes -> Pointer] /\ prv \in [Nodes -> Pointer]
  BY DEF ListInit, Pointer
<1>2. PICK u : Line(nxt, prv, NULL, NULL, {}, 0, u)
  BY <1>1, Empty
<1>3. head = NULL /\ tail = NULL /\ linked = {} /\ lost = {} /\ iter = NoIter
  BY DEF ListInit
<1>4. Known
  BY <1>3 DEF Known, NoIter, Iterator, Pointer
<1>5. Iterating(u)
  BY <1>3 DEF Iterating, NoIter
<1>6. InOrder(0, u)
  BY <1>2, <1>3, <1>4, <1>5, Zenon DEF InOrder
<1> QED
  BY <1>6 DEF ListInv

\* The pointers of adlist.c mirror each other in lists of every length, through
\* the operations that crash or lose nodes because the count is wrong, too.
THEOREM MirroredAlways == ListSpec => []Mirrored
<1>1. ListInv => Mirrored
  BY MirroredOfOrdered DEF ListInv, InOrder, Ordered
<1> QED
  BY <1>1, StartsInOrder, StaysInOrder, PTL DEF ListSpec

\* An iterator of adlist.c misses no node that stays in the list, and returns
\* none twice, whatever is inserted, deleted or lost while it is on its way.
THEOREM IterCompleteAlways == ListSpec => []IterComplete
<1>1. ListInv => IterComplete
  <2> SUFFICES ASSUME ListInv PROVE IterComplete
    OBVIOUS
  <2>1. PICK k, s : Known /\ Iterating(s)
    BY DEF ListInv, InOrder
  <2>2. ASSUME NEW w, Going(iter, w) PROVE iter.next # NULL /\ iter.next \notin iter.seen
    <3>1. PICK q \in Int : /\ w[q] = iter.next
                           /\ w[q] \in iter.seen => ~Onward(iter.dir, q, q)
      BY <2>2 DEF Going
    <3>2. Onward(iter.dir, q, q)
      BY SMT DEF Onward
    <3> QED
      BY <2>2, <3>1, <3>2 DEF Going
  <2>3. NULL \notin iter.seen
    BY <2>1, ListAssumption DEF Known, Iterator
  <2> QED
    BY <2>1, <2>2, <2>3 DEF Iterating, Stray, IterComplete
<1> QED
  BY <1>1, StartsInOrder, StaysInOrder, PTL DEF ListSpec

-----------------------------------------------------------------------------
(* The count.                                                              *)

\* How often the count has wrapped, less what was never counted.
Drift == /\ len \in 0..ULong - 1 /\ uncounted \in 0..ULong - 1
         /\ \E c \in Int : len + uncounted - Cardinality(linked) - Cardinality(lost) = c * ULong

LEMMA SetsFinite ==
  ASSUME Known
  PROVE  /\ IsFiniteSet(linked) /\ IsFiniteSet(lost)
         /\ Cardinality(linked) \in Nat /\ Cardinality(lost) \in Nat
BY ListAssumption, FS_Subset, FS_CardinalityType DEF Known

\* An unsigned long that is counted up or down differs from the sum by a whole
\* number of its values.
LEMMA CountedIs ==
  ASSUME NEW l \in 0..ULong - 1, l = len, NEW d \in {-1, 1}
  PROVE  /\ Counted(d) \in 0..ULong - 1
         /\ \E c \in Int : Counted(d) = (l + d) + c * ULong
<1>1. ULong \in Nat /\ ULong > 1
  BY ListAssumption
<1>2. CASE len + d < 0
  <2>1. Counted(d) = (l + d) + 1 * ULong
    BY <1>1, <1>2 DEF Counted
  <2> QED
    BY <1>1, <1>2, <2>1
<1>3. CASE ~(len + d < 0) /\ len + d >= ULong
  <2>1. Counted(d) = (l + d) + (-1) * ULong
    BY <1>1, <1>3 DEF Counted
  <2> QED
    BY <1>1, <1>3, <2>1
<1>4. CASE ~(len + d < 0) /\ ~(len + d >= ULong)
  <2>1. Counted(d) = (l + d) + 0 * ULong
    BY <1>1, <1>4 DEF Counted
  <2> QED
    BY <1>1, <1>4, <2>1
<1> QED
  BY <1>2, <1>3, <1>4

LEMMA UncountedIs ==
  ASSUME NEW u \in 0..ULong - 1
  PROVE  /\ (u + 1) % ULong \in 0..ULong - 1
         /\ \E c \in Int : (u + 1) % ULong = (u + 1) + c * ULong
<1> DEFINE q == (u + 1) \div ULong
           r == (u + 1) % ULong
<1>1. /\ u + 1 = q * ULong + r
      /\ q \in Int /\ r \in Nat /\ r < ULong
  BY ListAssumption, DivMod
<1> HIDE DEF q, r
<1>2. r = (u + 1) + (-q) * ULong /\ -q \in Int
  BY <1>1, ListAssumption
<1>3. r \in 0..ULong - 1
  BY <1>1, ListAssumption
<1> QED
  BY <1>2, <1>3 DEF r

\* A step that changes the count and what is not counted, together, by as much as
\* the nodes.
LEMMA DriftMoves ==
  ASSUME Known, Known', Drift, len' \in 0..ULong - 1, uncounted' \in 0..ULong - 1,
         NEW d \in Int, NEW e \in Int,
         \E b \in Int : len' = (len + d) + b * ULong,
         \E c \in Int : uncounted' = (uncounted + e) + c * ULong,
         Cardinality(linked') + Cardinality(lost')
           = (Cardinality(linked) + Cardinality(lost)) + (d + e)
  PROVE  Drift'
<1>1. PICK a \in Int : len + uncounted - Cardinality(linked) - Cardinality(lost) = a * ULong
  BY DEF Drift
<1>2. PICK b \in Int : len' = (len + d) + b * ULong
  OBVIOUS
<1>3. PICK c \in Int : uncounted' = (uncounted + e) + c * ULong
  OBVIOUS
<1>4. /\ Cardinality(linked) \in Int /\ Cardinality(lost) \in Int
      /\ Cardinality(linked') \in Int /\ Cardinality(lost') \in Int
  <2>1. Cardinality(linked') \in Nat /\ Cardinality(lost') \in Nat
    BY ListAssumption, FS_Subset, FS_CardinalityType DEF Known
  <2> QED
    BY <2>1, SetsFinite
<1>5. len \in Int /\ uncounted \in Int /\ ULong \in Int /\ len' \in Int /\ uncounted' \in Int
  BY ListAssumption DEF Drift
<1>6. len' + uncounted' - Cardinality(linked') - Cardinality(lost')
        = a * ULong + b * ULong + c * ULong
  <2> DEFINE A == a * ULong
             B == b * ULong
             C == c * ULong
             x == Cardinality(linked)
             y == Cardinality(lost)
             z == Cardinality(linked')
             w == Cardinality(lost')
  <2>1. A \in Int /\ B \in Int /\ C \in Int
    BY <1>5
  <2>2. /\ x \in Int /\ y \in Int /\ z \in Int /\ w \in Int
        /\ len + uncounted - x - y = A /\ len' = (len + d) + B
        /\ uncounted' = (uncounted + e) + C /\ z + w = (x + y) + (d + e)
    BY <1>1, <1>2, <1>3, <1>4
  <2> HIDE DEF A, B, C, x, y, z, w
  <2>3. len' + uncounted' - z - w = A + B + C
    BY ONLY <1>5, <2>1, <2>2, d \in Int, e \in Int
  <2> QED
    BY <2>3 DEF A, B, C, x, y, z, w
<1>7. a * ULong + b * ULong + c * ULong = (a + b + c) * ULong /\ a + b + c \in Int
  BY <1>5
<1> QED
  BY <1>6, <1>7, Zenon DEF Drift

\* One more node, or one less.
LEMMA Grows ==
  ASSUME Known, NEW n \in Fresh
  PROVE  /\ Cardinality(linked \cup {n}) + Cardinality(lost)
              = Cardinality(linked) + Cardinality(lost) + 1
         /\ Cardinality({n}) + Cardinality(lost \cup linked)
              = Cardinality(linked) + Cardinality(lost) + 1
<1>1. n \notin linked
  BY DEF Fresh
<1>2. Cardinality(linked \cup {n}) = Cardinality(linked) + 1
  BY <1>1, SetsFinite, FS_AddElement
<1>3. Cardinality({n}) = 1
  BY FS_Singleton
<1>4. Cardinality(lost \cup linked) = Cardinality(lost) + Cardinality(linked)
  <2>0. lost \cap linked = {} /\ Cardinality({}) = 0
    BY FS_EmptySet DEF Known
  <2>1. Cardinality(lost \cap linked) = 0
    BY <2>0, Zenon
  <2>3. IsFiniteSet(lost) /\ IsFiniteSet(linked)
    BY SetsFinite
  <2>2. Cardinality(lost \cup linked)
          = Cardinality(lost) + Cardinality(linked) - Cardinality(lost \cap linked)
    BY <2>3, FS_Union, Zenon
  <2> QED
    BY <2>1, <2>2, SetsFinite
<1> QED
  BY <1>2, <1>3, <1>4, SetsFinite

LEMMA DriftAnew == Anew => Drift'
<1> SUFFICES ASSUME Anew PROVE Drift'
  OBVIOUS
<1>1. len' = 0 /\ uncounted' = 0 /\ linked' = {} /\ lost' = {}
  BY DEF Anew
<1>2. Cardinality({}) = 0 /\ 0 \in 0..ULong - 1 /\ 0 * ULong = 0
  BY FS_EmptySet, ListAssumption
<1>3. len' + uncounted' - Cardinality(linked') - Cardinality(lost') = 0 * ULong
  BY <1>1, <1>2
<1> QED
  BY <1>1, <1>2, <1>3 DEF Drift

\* What leaves the count and the nodes alone.
LEMMA DriftStays == Drift /\ UNCHANGED <<len, uncounted, linked, lost>> => Drift'
BY DEF Drift

LEMMA DriftInit == ListInit => Drift
<1> SUFFICES ASSUME ListInit PROVE Drift
  OBVIOUS
<1>1. len = 0 /\ uncounted = 0 /\ linked = {} /\ lost = {}
  BY DEF ListInit
<1>2. Cardinality({}) = 0 /\ 0 \in 0..ULong - 1 /\ 0 * ULong = 0
  BY FS_EmptySet, ListAssumption
<1>3. len + uncounted - Cardinality(linked) - Cardinality(lost) = 0 * ULong
  BY <1>1, <1>2
<1> QED
  BY <1>1, <1>2, <1>3 DEF Drift

\* A node that is added or inserted, and counted, or added at the tail.
LEMMA DriftCounted ==
  ASSUME Known, Known', Drift, NEW n \in Fresh, len' = Counted(1), uncounted' = uncounted,
         \/ linked' = linked \cup {n} /\ lost' = lost
         \/ linked' = {n} /\ lost' = lost \cup linked
  PROVE  Drift'
<1>1. /\ Counted(1) \in 0..ULong - 1
      /\ \E b \in Int : Counted(1) = (len + 1) + b * ULong
  BY CountedIs DEF Drift
<1>2. Cardinality(linked') + Cardinality(lost')
        = (Cardinality(linked) + Cardinality(lost)) + (1 + 0)
  <2>1. Cardinality(linked') + Cardinality(lost')
          = Cardinality(linked) + Cardinality(lost) + 1
    <3>1. CASE linked' = linked \cup {n} /\ lost' = lost
      BY <3>1, Grows, Zenon
    <3>2. CASE linked' = {n} /\ lost' = lost \cup linked
      BY <3>2, Grows, Zenon
    <3> QED
      BY <3>1, <3>2
  <2> QED
    BY <2>1, SetsFinite
<1>3. uncounted' = (uncounted + 0) + 0 * ULong
  BY ListAssumption DEF Drift
<1>4. uncounted' \in 0..ULong - 1
  BY DEF Drift
<1>5. /\ \E b \in Int : len' = (len + 1) + b * ULong
      /\ \E c \in Int : uncounted' = (uncounted + 0) + c * ULong
      /\ len' \in 0..ULong - 1 /\ 1 \in Int /\ 0 \in Int
  BY <1>1, <1>3
<1> QED
  BY <1>2, <1>4, <1>5, DriftMoves

LEMMA DriftUncounted ==
  ASSUME Known, Known', Drift, NEW n \in Fresh,
         len' = len, uncounted' = (uncounted + 1) % ULong,
         \/ linked' = linked \cup {n} /\ lost' = lost
         \/ linked' = {n} /\ lost' = lost \cup linked
  PROVE  Drift'
<1>1. /\ uncounted' \in 0..ULong - 1
      /\ \E c \in Int : uncounted' = (uncounted + 1) + c * ULong
  BY UncountedIs DEF Drift
<1>2. Cardinality(linked') + Cardinality(lost')
        = (Cardinality(linked) + Cardinality(lost)) + (0 + 1)
  <2>1. Cardinality(linked') + Cardinality(lost')
          = Cardinality(linked) + Cardinality(lost) + 1
    <3>1. CASE linked' = linked \cup {n} /\ lost' = lost
      BY <3>1, Grows, Zenon
    <3>2. CASE linked' = {n} /\ lost' = lost \cup linked
      BY <3>2, Grows, Zenon
    <3> QED
      BY <3>1, <3>2
  <2> QED
    BY <2>1, SetsFinite
<1>3. len' = (len + 0) + 0 * ULong
  BY ListAssumption DEF Drift
<1>4. len' \in 0..ULong - 1
  BY DEF Drift
<1>5. \E b \in Int : len' = (len + 0) + b * ULong
  BY <1>3
<1>6. 1 \in Int /\ 0 \in Int
  OBVIOUS
<1> QED
  BY <1>1, <1>2, <1>4, <1>5, <1>6, DriftMoves

LEMMA DriftDel ==
  ASSUME Known, Known', Drift, NEW n \in linked, listDelNode(n)
  PROVE  Drift'
<1>1. len' = Counted(-1) /\ uncounted' = uncounted /\ linked' = linked \ {n} /\ lost' = lost
  BY DEF listDelNode
<1>2. /\ Counted(-1) \in 0..ULong - 1
      /\ \E b \in Int : Counted(-1) = (len + (-1)) + b * ULong
  BY CountedIs DEF Drift
<1>3. Cardinality(linked') = Cardinality(linked) - 1
  BY <1>1, SetsFinite, FS_RemoveElement
<1>4. Cardinality(linked') + Cardinality(lost')
        = (Cardinality(linked) + Cardinality(lost)) + ((-1) + 0)
  BY <1>1, <1>3, SetsFinite
<1>5. uncounted' = (uncounted + 0) + 0 * ULong
  BY <1>1, ListAssumption DEF Drift
<1>6. uncounted' \in 0..ULong - 1
  BY <1>1 DEF Drift
<1>7. /\ \E b \in Int : len' = (len + (-1)) + b * ULong
      /\ \E c \in Int : uncounted' = (uncounted + 0) + c * ULong
      /\ len' \in 0..ULong - 1 /\ -1 \in Int /\ 0 \in Int
  BY <1>1, <1>2, <1>5
<1> QED
  BY <1>4, <1>6, <1>7, DriftMoves

LEMMA DriftNext == ListInv /\ ListInv' /\ Drift /\ [ListNext]_lvars => Drift'
<1> SUFFICES ASSUME ListInv, ListInv', Drift, [ListNext]_lvars PROVE Drift'
  OBVIOUS
<1>1. Known /\ Known'
  BY DEF ListInv, InOrder
<1>2. ASSUME NEW n \in Fresh, listAddNodeHead(n) PROVE Drift'
  BY <1>1, <1>2, DriftCounted, DriftAnew DEF listAddNodeHead, Crash, Only, Prepend
<1>3. ASSUME NEW n \in Fresh, listAddNodeTail(n) PROVE Drift'
  BY <1>1, <1>3, DriftUncounted, DriftAnew DEF listAddNodeTail, Crash, Only, Push
<1>4. ASSUME NEW n \in Fresh, NEW old \in linked, NEW after \in BOOLEAN,
             listInsertNode(old, n, after)
      PROVE  Drift'
  BY <1>1, <1>4, DriftCounted DEF listInsertNode
<1>5. ASSUME NEW n \in linked, listDelNode(n) PROVE Drift'
  BY <1>1, <1>5, DriftDel
<1>6. CASE listRotate \/ listRelease \/ listDup
  BY <1>6, DriftAnew, DriftStays DEF listRotate, listRelease, listDup, Crash
<1>7. CASE (\E dir \in {"head", "tail"} : listGetIterator(dir)) \/ listNext
             \/ listReleaseIterator \/ UNCHANGED lvars
  BY <1>7, DriftStays DEF listGetIterator, listNext, listReleaseIterator, lvars
<1> QED
  BY <1>2, <1>3, <1>4, <1>5, <1>6, <1>7 DEF ListNext

-----------------------------------------------------------------------------
(* The nodes by their index.                                               *)

\* As many nodes as places.
LEMMA LineCounts ==
  ASSUME NEW k, NEW s, Line(nxt, prv, head, tail, linked, k, s)
  PROVE  k \in Nat /\ Cardinality(linked) = k
<1>1. /\ k \in Nat /\ s \in [Int -> Pointer] /\ linked \subseteq Nodes
      /\ \A i \in Int : s[i] # NULL <=> 1 <= i /\ i <= k
      /\ \A i, j \in Int : s[i] = s[j] /\ s[i] # NULL => i = j
      /\ \A n \in Nodes : n \in linked <=> \E i \in Int : s[i] = n
  BY DEF Line
<1> DEFINE f == [i \in 1..k |-> s[i]]
<1>2. f \in [1..k -> linked]
  BY <1>1 DEF Pointer
<1>3. \A i, j \in 1..k : f[i] = f[j] => i = j
  BY <1>1
<1>4. \A n \in linked : \E i \in 1..k : f[i] = n
  BY <1>1, ListAssumption
<1> HIDE DEF f
<1>5. ExistsBijection(1..k, linked)
  BY <1>2, <1>3, <1>4 DEF ExistsBijection, Bijection, Injection, Surjection, IsInjective
<1> QED
  BY <1>1, <1>5, FS_CountingElements

\* From an end, the i-th step leads to the i-th place behind it, and beyond the
\* last to NULL for good.
LEMMA IndexIs ==
  ASSUME NEW k, NEW s, Line(nxt, prv, head, tail, linked, k, s), NEW i \in Int,
         -Cardinality(Nodes) - 1 <= i, i <= Cardinality(Nodes)
  PROVE  listIndex(i) = IF i < 0 THEN s[k + i + 1] ELSE s[i + 1]
<1> DEFINE N == Cardinality(Nodes)
           at == [j \in 0..N |-> IF i < 0 THEN s[k - j] ELSE s[j + 1]]
           from[j \in 0..N] ==
             IF j = 0 THEN IF i < 0 THEN tail ELSE head
             ELSE IF from[j - 1] = NULL THEN NULL
             ELSE IF i < 0 THEN prv[from[j - 1]] ELSE nxt[from[j - 1]]
<1>1. /\ k \in Nat /\ s \in [Int -> Pointer] /\ head = s[1] /\ tail = s[k]
      /\ \A j \in Int : s[j] # NULL <=> 1 <= j /\ j <= k
      /\ \A j \in Int : s[j] # NULL => nxt[s[j]] = s[j + 1] /\ prv[s[j]] = s[j - 1]
  BY DEF Line
<1>2. N \in Nat
  BY ListAssumption, FS_CardinalityType
<1>3. listIndex(i) = from[IF i < 0 THEN -i - 1 ELSE i]
  BY DEF listIndex
<1>4. at = [j \in 0..N |->
              IF j = 0 THEN IF i < 0 THEN tail ELSE head
              ELSE IF at[j - 1] = NULL THEN NULL
              ELSE IF i < 0 THEN prv[at[j - 1]] ELSE nxt[at[j - 1]]]
  <2>1. ASSUME NEW j \in 0..N
        PROVE  at[j] = IF j = 0 THEN IF i < 0 THEN tail ELSE head
                       ELSE IF at[j - 1] = NULL THEN NULL
                       ELSE IF i < 0 THEN prv[at[j - 1]] ELSE nxt[at[j - 1]]
    <3>1. CASE j = 0
      BY <1>1, <1>2, <3>1
    <3>2. CASE j # 0
      <4>1. j - 1 \in 0..N /\ (j - 1) + 1 = j
        BY <1>2, <3>2
      <4>2. CASE i < 0
        <5>1. at[j - 1] = s[k - (j - 1)] /\ at[j] = s[k - j]
          BY <4>1, <4>2
        <5>2. k - (j - 1) \in Int /\ k - j \in Int /\ (k - (j - 1)) - 1 = k - j
          BY <1>1
        <5>3. s[k - (j - 1)] = NULL => s[k - j] = NULL
          BY <1>1, <3>2, <5>2
        <5>4. s[k - (j - 1)] # NULL => prv[s[k - (j - 1)]] = s[k - j]
          BY <1>1, <5>2
        <5> HIDE DEF at
        <5> QED
          BY <3>2, <4>2, <5>1, <5>3, <5>4
      <4>3. CASE ~(i < 0)
        <5>1. at[j - 1] = s[j] /\ at[j] = s[j + 1]
          BY <4>1, <4>3
        <5>2. s[j] = NULL => s[j + 1] = NULL
          BY <1>1, <3>2
        <5>3. s[j] # NULL => nxt[s[j]] = s[j + 1]
          BY <1>1
        <5> HIDE DEF at
        <5> QED
          BY <3>2, <4>3, <5>1, <5>2, <5>3
      <4> QED
        BY <4>2, <4>3
    <3> QED
      BY <3>1, <3>2
  <2>2. at = [j \in 0..N |-> at[j]]
    OBVIOUS
  <2> HIDE DEF at
  <2> QED
    BY <2>1, <2>2
<1>5. from = [j \in 0..N |->
                IF j = 0 THEN IF i < 0 THEN tail ELSE head
                ELSE IF from[j - 1] = NULL THEN NULL
                ELSE IF i < 0 THEN prv[from[j - 1]] ELSE nxt[from[j - 1]]]
  <2> HIDE DEF at
  <2> QED
    BY <1>4
<1>6. \A j \in 0..N : from[j] = at[j]
  <2> DEFINE T == { j \in 0..N : from[j] = at[j] }
  <2> HIDE DEF from, at
  <2>1. 0 \in T
    <3>1. 0 \in 0..N
      BY <1>2
    <3>2. from[0] = (IF i < 0 THEN tail ELSE head) /\ at[0] = (IF i < 0 THEN tail ELSE head)
      BY <1>4, <1>5, <3>1
    <3> QED
      BY <3>1, <3>2
  <2>2. ASSUME NEW j \in 0..N - 1, j \in T PROVE j + 1 \in T
    <3>1. j + 1 \in 0..N /\ j + 1 # 0 /\ (j + 1) - 1 = j
      BY <1>2
    <3>2. from[j + 1] = IF from[j] = NULL THEN NULL
                        ELSE IF i < 0 THEN prv[from[j]] ELSE nxt[from[j]]
      BY <1>5, <3>1
    <3>3. at[j + 1] = IF at[j] = NULL THEN NULL
                      ELSE IF i < 0 THEN prv[at[j]] ELSE nxt[at[j]]
      BY <1>4, <3>1
    <3> QED
      BY <2>2, <3>1, <3>2, <3>3
  <2> HIDE DEF T
  <2>3. 0..N \subseteq T
    BY <1>2, <2>1, <2>2, InductTo
  <2> QED
    BY <2>3 DEF T
<1>7. CASE i < 0
  <2>1. -i - 1 \in 0..N /\ k - (-i - 1) = k + i + 1
    BY <1>1, <1>2, <1>7
  <2>2. at[-i - 1] = s[k - (-i - 1)]
    BY <1>7, <2>1
  <2> HIDE DEF from, at
  <2> QED
    BY <1>3, <1>6, <1>7, <2>1, <2>2
<1>8. CASE ~(i < 0)
  <2>1. i \in 0..N
    BY <1>2, <1>8
  <2>2. at[i] = s[i + 1]
    BY <1>8, <2>1
  <2> HIDE DEF from, at
  <2> QED
    BY <1>3, <1>6, <1>8, <2>1, <2>2
<1> QED
  BY <1>7, <1>8

\* The count of adlist.c is off by exactly the nodes that were added at the tail,
\* and listIndex reaches all the nodes of a list of any length, from both ends.
THEOREM CountDriftAlways == ListSpec => []CountDrift
<1>1. ListInv /\ Drift => CountDrift
  <2> SUFFICES ASSUME ListInv, Drift PROVE CountDrift
    OBVIOUS
  <2> DEFINE size == Cardinality(linked)
  <2>1. PICK k, s : Line(nxt, prv, head, tail, linked, k, s) /\ Known
    BY DEF ListInv, InOrder
  <2>2. size = k /\ k \in Nat /\ head = s[1] /\ tail = s[k]
    BY <2>1, LineCounts DEF Line
  <2>3. (len + uncounted - size - Cardinality(lost)) % ULong = 0
    <3>1. PICK c \in Int : len + uncounted - size - Cardinality(lost) = c * ULong
      BY DEF Drift
    <3>2. (c * ULong + 0) % ULong = 0
      BY ListAssumption, ModIs
    <3>3. c * ULong + 0 = c * ULong
      BY ListAssumption
    <3> QED
      BY <3>1, <3>2, <3>3
  <2>4. size <= Cardinality(Nodes) /\ Cardinality(Nodes) \in Nat
    BY <2>1, ListAssumption, FS_Subset, FS_CardinalityType DEF Known
  <2>5. ASSUME size > 0 PROVE listIndex(size - 1) = tail /\ listIndex(-size) = head
    <3> HIDE DEF size
    <3>1. listIndex(size - 1) = s[(size - 1) + 1]
      <4>1. size - 1 \in Int /\ -Cardinality(Nodes) - 1 <= size - 1
            /\ size - 1 <= Cardinality(Nodes) /\ ~(size - 1 < 0)
        BY <2>2, <2>4, <2>5
      <4> QED
        BY <2>1, <4>1, IndexIs
    <3>2. listIndex(-size) = s[k + (-size) + 1]
      <4>1. -size \in Int /\ -Cardinality(Nodes) - 1 <= -size
            /\ -size <= Cardinality(Nodes) /\ -size < 0
        BY <2>2, <2>4, <2>5
      <4> QED
        BY <2>1, <4>1, IndexIs
    <3>3. (size - 1) + 1 = k /\ k + (-size) + 1 = 1
      BY <2>2
    <3> QED
      BY <2>2, <3>1, <3>2, <3>3
  <2> QED
    BY <2>3, <2>5 DEF CountDrift
<1> QED
  BY <1>1, DriftInit, DriftNext, StartsInOrder, StaysInOrder, PTL DEF ListSpec

-----------------------------------------------------------------------------
(* The search of an integer set.                                          *)

Places == 0..length - 1

Call == [pc : {"idle", "search", "found"}, op : {"none", "add", "remove", "find"},
         value : Int, key : Int, min : Int, max : Int, pos : Int, found : BOOLEAN]

\* No upgrade is ever made: the only value that may be wider than 2 is appended
\* as its width, at width 2.
IntSetType == /\ enc = 2 /\ length \in Nat
              /\ contents \in [Places -> Int]
              /\ calling \in Call

Apart == \A i, j \in Places : i < j => contents[i] < 2 \/ contents[j] > 2

Below(k) == \A i \in Places : i < k => contents[i] < 2
Above(k) == \A i \in Places : i >= k => contents[i] > 2

\* The loop of a search; one for 2 has left only values on their side of it.
Narrowing == calling.pc = "search" =>
  /\ 0 <= calling.min /\ calling.max < length /\ calling.min <= calling.max + 1
  /\ calling.op = "add" => calling.key = 2 /\ Below(calling.min) /\ Above(calling.max + 1)

\* The result of a search.
Concluded == calling.pc = "found" =>
  /\ calling.found => calling.pos \in Places /\ contents[calling.pos] = calling.key
  /\ calling.op = "add" =>
       /\ calling.key = 2 /\ calling.pos \in 0..length
       /\ ~calling.found => Below(calling.pos) /\ Above(calling.pos)

SetInv == IntSetType /\ Apart /\ Narrowing /\ Concluded

LEMMA Widths ==
  ASSUME NEW v \in Int
  PROVE  /\ _intsetValueEncoding(v) \in {2, 4, 8}
         /\ _intsetValueEncoding(_intsetValueEncoding(v)) = 2
BY IntSetAssumption, SMT DEF _intsetValueEncoding

\* At width 2 every value is stored as some integer.
LEMMA StoredInt ==
  ASSUME NEW v \in Int
  PROVE  Stored(v) \in Int
BY IntSetAssumption, SMT DEF Stored

\* A value put where the search for 2 ended parts the set as before.
LEMMA InsertedApart ==
  ASSUME SetInv, NEW v \in Int, NEW pos \in 0..length, Below(pos), Above(pos)
  PROVE  /\ Inserted(pos, v) \in [0..length -> Int]
         /\ \A i, j \in 0..length :
              i < j => Inserted(pos, v)[i] < 2 \/ Inserted(pos, v)[j] > 2
<1>1. length \in Nat /\ contents \in [0..length - 1 -> Int]
  BY DEF SetInv, IntSetType, Places
<1>2. pos \in Nat /\ pos <= length
  BY <1>1, SMT
<1>3. ASSUME NEW i \in 0..length
      PROVE  /\ Inserted(pos, v)[i] = IF i < pos THEN contents[i]
                                      ELSE IF i = pos THEN v ELSE contents[i - 1]
             /\ i < pos => i \in Places
             /\ i > pos => i - 1 \in Places
  BY <1>1, <1>2, SMT DEF Inserted, Places
<1>4. ASSUME NEW i \in 0..length PROVE Inserted(pos, v)[i] \in Int
  BY <1>1, <1>2, <1>3, SMT DEF Places
<1>5. Inserted(pos, v) \in [0..length -> Int]
  BY <1>4, SMT DEF Inserted
<1>6. ASSUME NEW i \in 0..length, NEW j \in 0..length, i < j
      PROVE  Inserted(pos, v)[i] < 2 \/ Inserted(pos, v)[j] > 2
  <2>1. CASE i < pos
    BY <1>1, <1>2, <1>3, <2>1, SMT DEF Below
  <2>2. CASE i >= pos
    <3>1. j > pos /\ j - 1 \in Places /\ j - 1 >= pos
      <4>1. i \in Int /\ j \in Int /\ length \in Int /\ pos \in Int
        BY <1>1, <1>2
      <4>2. i < j /\ pos <= i /\ 0 <= i /\ j <= length /\ 0 <= pos
        BY <1>1, <1>2, <1>6, <2>2, <4>1, SMT
      <4>3. j > pos /\ j - 1 >= pos /\ 0 <= j - 1 /\ j - 1 <= length - 1
        BY <4>1, <4>2, SMT
      <4> QED
        BY <4>1, <4>3, SMT DEF Places
    <3>2. Inserted(pos, v)[j] = contents[j - 1]
      BY <1>2, <1>3, <3>1, SMT
    <3> QED
      BY <3>1, <3>2 DEF Above
  <2> QED
    BY <1>2, <2>1, <2>2, SMT
<1> QED
  BY <1>5, <1>6
-----------------------------------------------------------------------------
(* One lemma per step of a call.                                           *)

LEMMA SearchOK ==
  ASSUME SetInv, NEW op \in {"add", "remove", "find"}, NEW v \in Int, NEW key \in Int,
         Search(op, v, key), op = "add" => key = 2
  PROVE  SetInv'
<1> DEFINE c == [pc |-> "search", op |-> op, value |-> v, key |-> key,
                 min |-> 0, max |-> length - 1, pos |-> 0, found |-> FALSE]
<1>1. enc' = enc /\ length' = length /\ contents' = contents
  BY DEF Search
<1>2. length \in Nat /\ contents \in [Places -> Int]
  BY DEF SetInv, IntSetType
<1>3. IntSetType' /\ Apart'
  <2>1. c \in Call /\ \A p \in {0, length} : Result(c, FALSE, p) \in Call
    BY <1>2, SMT DEF Call, Result
  <2>2. calling' \in Call
    BY <2>1, Zenon DEF Search
  <2> QED
    BY <1>1, <2>2 DEF SetInv, IntSetType, Apart, Places
<1>4. CASE length = 0
  <2>1. /\ calling' = [pc |-> "found", op |-> op, value |-> v, key |-> key,
                    min |-> 0, max |-> length - 1, pos |-> 0, found |-> FALSE]
    BY <1>4 DEF Search, Result
  <2>2. Places' = {}
    BY <1>1, <1>4, SMT DEF Places
  <2> QED
    BY <1>1, <1>3, <1>4, <2>1, <2>2, SMT DEF SetInv, Narrowing, Concluded, Below, Above
<1>5. CASE length # 0 /\ key > contents[length - 1]
  <2>1. /\ calling' = [pc |-> "found", op |-> op, value |-> v, key |-> key,
                    min |-> 0, max |-> length - 1, pos |-> length, found |-> FALSE]
    BY <1>5 DEF Search, Result
  <2>2. length - 1 \in Places
    BY <1>2, <1>5, SMT DEF Places
  <2>3. key = 2 => Below(length)
    BY <1>2, <1>5, <2>2, SMT DEF SetInv, Apart, Below, Places
  <2>4. Above(length)
    BY <1>2, SMT DEF Above, Places
  <2>5. Narrowing' /\ Concluded'
    BY <1>1, <1>2, <2>1, <2>3, <2>4, SMT DEF Narrowing, Concluded, Below, Above, Places
  <2> QED
    BY <1>3, <2>5 DEF SetInv
<1>6. CASE length # 0 /\ ~(key > contents[length - 1]) /\ key < contents[0]
  <2>1. /\ calling' = [pc |-> "found", op |-> op, value |-> v, key |-> key,
                    min |-> 0, max |-> length - 1, pos |-> 0, found |-> FALSE]
    BY <1>6 DEF Search, Result
  <2>2. 0 \in Places
    BY <1>2, <1>6, SMT DEF Places
  <2>3. key = 2 => Above(0)
    BY <1>2, <1>6, <2>2, SMT DEF SetInv, Apart, Above, Places
  <2>4. Below(0)
    BY <1>2, SMT DEF Below, Places
  <2>5. Narrowing' /\ Concluded'
    BY <1>1, <1>2, <2>1, <2>3, <2>4, SMT DEF Narrowing, Concluded, Below, Above, Places
  <2> QED
    BY <1>3, <2>5 DEF SetInv
<1>7. CASE length # 0 /\ ~(key > contents[length - 1]) /\ ~(key < contents[0])
  <2>1. calling' = c
    BY <1>7 DEF Search
  <2>2. Below(0) /\ Above(length)
    BY <1>2, SMT DEF Below, Above, Places
  <2>3. Narrowing' /\ Concluded'
    BY <1>1, <1>2, <1>7, <2>1, <2>2, SMT DEF Narrowing, Concluded, Below, Above, Places
  <2> QED
    BY <1>3, <2>3 DEF SetInv
<1> QED
  BY <1>4, <1>5, <1>6, <1>7

LEMMA IterateOK == ASSUME SetInv, Iterate PROVE SetInv'
<1> DEFINE mid == (calling.min + calling.max) \div 2
<1>1. enc' = enc /\ length' = length /\ contents' = contents /\ calling.pc = "search"
  BY DEF Iterate
<1>2. /\ length \in Nat /\ contents \in [Places -> Int] /\ calling \in Call
      /\ calling.min \in Int /\ calling.max \in Int /\ calling.key \in Int
      /\ 0 <= calling.min /\ calling.max < length /\ calling.min <= calling.max + 1
      /\ calling.op = "add" => calling.key = 2 /\ Below(calling.min) /\ Above(calling.max + 1)
  BY <1>1 DEF SetInv, IntSetType, Narrowing, Call
<1>3. CASE calling.max < calling.min
  <2>1. calling' = Result(calling, FALSE, calling.min)
    <3>1. ~(calling.max >= calling.min)
      BY <1>2, <1>3, SMT
    <3> QED
      BY <3>1, Zenon DEF Iterate
  <2>2. /\ calling' = [pc |-> "found", op |-> calling.op, value |-> calling.value, key |-> calling.key,
                    min |-> calling.min, max |-> calling.max, pos |-> calling.min, found |-> FALSE]
    BY <2>1 DEF Result
  <2>3. calling' \in Call
    BY <1>2, <2>2 DEF Call
  <2>4. calling.max + 1 = calling.min /\ calling.min \in 0..length
    BY <1>2, <1>3, SMT
  <2>5. Narrowing' /\ Concluded'
    BY <1>1, <1>2, <2>2, <2>4, SMT DEF Narrowing, Concluded, Below, Above, Places
  <2> QED
    BY <1>1, <2>3, <2>5 DEF SetInv, IntSetType, Apart, Places
<1>4. CASE calling.max >= calling.min
  <2>1. calling' = Halve
    BY <1>4, Zenon DEF Iterate
  <2>2. mid \in Int /\ calling.min <= mid /\ mid <= calling.max
    BY <1>2, <1>4, SMT
  <2>3. mid \in Places
    BY <1>2, <2>2, SMT DEF Places
  <2>4. contents[mid] \in Int
    BY <1>2, <2>3
  <2>5. CASE calling.key > contents[mid]
    <3>1. calling' = [calling EXCEPT !.min = mid + 1]
      BY <2>1, <2>5, Zenon DEF Halve
    <3> HIDE DEF mid
    <3>2. calling.key = 2 => Below(mid + 1)
      BY <1>2, <2>2, <2>3, <2>4, <2>5, SMT DEF SetInv, Apart, Below, Places
    <3>3. /\ calling' \in Call /\ calling'.pc = "search" /\ calling'.op = calling.op
          /\ calling'.key = calling.key /\ calling'.min = mid + 1 /\ calling'.max = calling.max
      BY <1>1, <1>2, <2>2, <3>1, SMT DEF Call
    <3>4. Narrowing' /\ Concluded'
      BY <1>1, <1>2, <2>2, <3>2, <3>3, SMT DEF Narrowing, Concluded, Below, Above, Places
    <3> QED
      BY <1>1, <3>3, <3>4 DEF SetInv, IntSetType, Apart, Places
  <2>6. CASE calling.key < contents[mid]
    <3>1. calling' = [calling EXCEPT !.max = mid - 1]
      <4>1. ~(calling.key > contents[mid])
        <5> HIDE DEF mid
        <5> QED
          BY <1>2, <2>4, <2>6, SMT
      <4> QED
        BY <2>1, <2>6, <4>1, Zenon DEF Halve
    <3> HIDE DEF mid
    <3>2. calling.key = 2 => Above(mid)
      BY <1>2, <2>2, <2>3, <2>4, <2>6, SMT DEF SetInv, Apart, Above, Places
    <3>3. /\ calling' \in Call /\ calling'.pc = "search" /\ calling'.op = calling.op
          /\ calling'.key = calling.key /\ calling'.min = calling.min /\ calling'.max = mid - 1
      BY <1>1, <1>2, <2>2, <3>1, SMT DEF Call
    <3>4. Narrowing' /\ Concluded'
      BY <1>1, <1>2, <2>2, <3>2, <3>3, SMT DEF Narrowing, Concluded, Below, Above, Places
    <3> QED
      BY <1>1, <3>3, <3>4 DEF SetInv, IntSetType, Apart, Places
  <2>7. CASE calling.key = contents[mid]
    <3>1. calling' = Result(calling, TRUE, mid)
      <4>1. ~(calling.key > contents[mid]) /\ ~(calling.key < contents[mid])
        <5> HIDE DEF mid
        <5> QED
          BY <1>2, <2>4, <2>7, SMT
      <4> QED
        BY <2>1, <4>1, Zenon DEF Halve
    <3> HIDE DEF mid
    <3>2. calling' = [pc |-> "found", op |-> calling.op, value |-> calling.value, key |-> calling.key,
                   min |-> calling.min, max |-> calling.max, pos |-> mid, found |-> TRUE]
      BY <3>1 DEF Result
    <3>3. calling' \in Call
      BY <1>2, <2>2, <3>2 DEF Call
    <3>4. mid \in 0..length
      BY <1>2, <2>2, SMT
    <3>5. Narrowing' /\ Concluded'
      BY <1>1, <1>2, <2>3, <2>7, <3>2, <3>4, SMT DEF Narrowing, Concluded, Places
    <3> QED
      BY <1>1, <3>3, <3>5 DEF SetInv, IntSetType, Apart, Places
  <2>8. \/ calling.key > contents[mid] \/ calling.key < contents[mid] \/ calling.key = contents[mid]
    <3> HIDE DEF mid
    <3> QED
      BY <1>2, <2>4, SMT
  <2> QED
    BY <2>5, <2>6, <2>7, <2>8, Zenon
<1> QED
  BY <1>2, <1>3, <1>4, SMT

\* An upgrade is handed a width: the set stays narrow, and the width goes last.
LEMMA UpgradeOK ==
  ASSUME SetInv, NEW v \in Int, _intsetValueEncoding(v) > 2, calling.pc = "idle",
         intsetUpgradeAndAdd(_intsetValueEncoding(v))
  PROVE  SetInv'
<1> DEFINE w == _intsetValueEncoding(v)
<1>1. w \in Int /\ w > 2 /\ _intsetValueEncoding(w) = 2
  BY Widths, SMT
<1> HIDE DEF w
<1>2. enc' = 2 /\ length' = length + 1 /\ contents' = Inserted(length, w) /\ calling' = calling
  BY <1>1, Zenon DEF intsetUpgradeAndAdd, w
<1>3. length \in Nat /\ contents \in [Places -> Int] /\ calling \in Call
  BY DEF SetInv, IntSetType
<1>4. Inserted(length, w) = [i \in 0..length |-> IF i < length THEN contents[i] ELSE w]
  BY <1>3, SMT DEF Inserted
<1>5. Places' = 0..length /\ length' \in Nat
  BY <1>2, <1>3, SMT DEF Places
<1>6. ASSUME NEW i \in 0..length
      PROVE  /\ contents'[i] = IF i < length THEN contents[i] ELSE w
             /\ contents'[i] \in Int
             /\ i < length => i \in Places
             /\ i < length \/ i = length
  BY <1>1, <1>2, <1>3, <1>4, SMT DEF Places
<1>7. contents' \in [0..length -> Int]
  <2>1. \A i \in 0..length : (IF i < length THEN contents[i] ELSE w) \in Int
    BY <1>1, <1>3, SMT DEF Places
  <2> QED
    BY <1>2, <1>4, <2>1
<1>8. ASSUME NEW i \in 0..length, NEW j \in 0..length, i < j
      PROVE  contents'[i] < 2 \/ contents'[j] > 2
  <2>1. i \in Places /\ contents'[i] = contents[i]
    BY <1>3, <1>6, <1>8, SMT
  <2>2. CASE j = length
    BY <1>1, <1>3, <1>6, <2>2, SMT
  <2>3. CASE j < length
    <3>1. j \in Places /\ contents'[j] = contents[j]
      BY <1>6, <2>3, SMT
    <3> QED
      BY <1>8, <2>1, <3>1 DEF SetInv, Apart
  <2> QED
    BY <1>6, <2>2, <2>3
<1>9. IntSetType' /\ Apart'
  BY <1>2, <1>3, <1>5, <1>7, <1>8 DEF IntSetType, Apart
<1> QED
  BY <1>2, <1>9 DEF SetInv, Narrowing, Concluded

LEMMA AddOK == ASSUME SetInv, NEW v \in Values, intsetAdd(v) PROVE SetInv'
<1>1. v \in Int /\ enc = 2 /\ calling.pc = "idle"
  BY IntSetAssumption DEF SetInv, IntSetType, intsetAdd
<1>2. CASE _intsetValueEncoding(v) > enc
  <2>1. intsetUpgradeAndAdd(_intsetValueEncoding(v))
    BY <1>2, Zenon DEF intsetAdd
  <2> QED
    BY <1>1, <1>2, <2>1, UpgradeOK
<1>3. CASE ~(_intsetValueEncoding(v) > enc)
  <2>1. Search("add", v, _intsetValueEncoding(v))
    BY <1>3, Zenon DEF intsetAdd
  <2>2. _intsetValueEncoding(v) = 2
    BY <1>1, <1>3, Widths, SMT
  <2> QED
    BY <1>1, <2>1, <2>2, SearchOK
<1> QED
  BY <1>2, <1>3

LEMMA AddFoundOK == ASSUME SetInv, AddFound PROVE SetInv'
<1>1. enc' = enc /\ calling' = Idle
  BY DEF AddFound
<1>2. length \in Nat /\ contents \in [Places -> Int] /\ calling \in Call
  BY DEF SetInv, IntSetType
<1>3. calling' \in Call /\ calling'.pc = "idle"
  BY <1>1 DEF Idle, Call
<1>4. Narrowing' /\ Concluded'
  BY <1>3 DEF Narrowing, Concluded
<1>5. CASE calling.found
  BY <1>1, <1>3, <1>4, <1>5 DEF AddFound, SetInv, IntSetType, Apart, Places
<1>6. CASE ~calling.found
  <2>1. contents' = Inserted(calling.pos, Stored(calling.value)) /\ length' = length + 1
    BY <1>6 DEF AddFound
  <2>2. calling.pos \in 0..length /\ Below(calling.pos) /\ Above(calling.pos)
    BY <1>6 DEF SetInv, Concluded, AddFound
  <2>3. Stored(calling.value) \in Int
    BY <1>2, StoredInt DEF Call
  <2>4. Places' = 0..length /\ length' \in Nat
    BY <1>2, <2>1, SMT DEF Places
  <2>5. IntSetType' /\ Apart'
    BY <1>1, <1>3, <2>1, <2>2, <2>3, <2>4, InsertedApart DEF SetInv, IntSetType, Apart
  <2> QED
    BY <1>4, <2>5 DEF SetInv
<1> QED
  BY <1>5, <1>6

LEMMA RemoveFoundOK == ASSUME SetInv, RemoveFound PROVE SetInv'
<1>1. enc' = enc /\ calling' = Idle
  BY DEF RemoveFound
<1>2. length \in Nat /\ contents \in [Places -> Int] /\ calling \in Call
  BY DEF SetInv, IntSetType
<1>3. calling' \in Call /\ calling'.pc = "idle"
  BY <1>1 DEF Idle, Call
<1>4. Narrowing' /\ Concluded'
  BY <1>3 DEF Narrowing, Concluded
<1>5. CASE ~calling.found
  BY <1>1, <1>3, <1>4, <1>5 DEF RemoveFound, SetInv, IntSetType, Apart, Places
<1>6. CASE calling.found
  <2> DEFINE pos == calling.pos
  <2>1. contents' = Without(pos) /\ length' = length - 1
    BY <1>6 DEF RemoveFound
  <2>2. pos \in Places
    BY <1>6 DEF SetInv, Concluded, RemoveFound
  <2> HIDE DEF pos
  <2>3. length' \in Nat /\ Places' = 0..length - 2
    BY <1>2, <2>1, <2>2, SMT DEF Places
  <2>4. ASSUME NEW i \in 0..length - 2
        PROVE  /\ contents'[i] = IF i < pos THEN contents[i] ELSE contents[i + 1]
               /\ i \in Places /\ i + 1 \in Places
    BY <1>2, <2>1, SMT DEF Without, Places
  <2>5. contents' \in [0..length - 2 -> Int]
    <3>1. \A i \in 0..length - 2 :
            (IF i < pos THEN contents[i] ELSE contents[i + 1]) \in Int
      BY <1>2, <2>4
    <3> QED
      BY <2>1, <3>1 DEF Without
  <2>6. ASSUME NEW i \in 0..length - 2, NEW j \in 0..length - 2, i < j
        PROVE  contents'[i] < 2 \/ contents'[j] > 2
    <3>1. /\ i \in Int /\ j \in Int /\ pos \in Int
          /\ i \in Places /\ i + 1 \in Places /\ j \in Places /\ j + 1 \in Places
      BY <1>2, <2>2, <2>4, SMT DEF Places
    <3>2. i < j /\ i < j + 1 /\ i + 1 < j + 1
      BY <2>6, <3>1, SMT
    <3>3. \A p, q \in Places : p < q => contents[p] < 2 \/ contents[q] > 2
      BY DEF SetInv, Apart
    <3>4. CASE i < pos /\ j < pos
      BY <2>4, <3>1, <3>2, <3>3, <3>4
    <3>5. CASE i < pos /\ ~(j < pos)
      BY <2>4, <3>1, <3>2, <3>3, <3>5
    <3>6. CASE ~(i < pos)
      <4>1. ~(j < pos)
        BY <3>1, <3>2, <3>6, SMT
      <4> QED
        BY <2>4, <3>1, <3>2, <3>3, <3>6, <4>1
    <3> QED
      BY <3>4, <3>5, <3>6
  <2>7. IntSetType' /\ Apart'
    BY <1>1, <1>3, <2>3, <2>5, <2>6 DEF SetInv, IntSetType, Apart
  <2> QED
    BY <1>4, <2>7 DEF SetInv
<1> QED
  BY <1>5, <1>6

LEMMA InitOK == ASSUME intsetNew PROVE SetInv
<1>1. enc = 2 /\ length = 0 /\ calling = Idle /\ contents = <<>>
  BY DEF intsetNew
<1>2. Places = {}
  BY <1>1, SMT DEF Places
<1>3. contents \in [Places -> Int]
  BY <1>1, <1>2, SMT
<1>4. calling \in Call /\ calling.pc = "idle"
  BY <1>1 DEF Idle, Call
<1> QED
  BY <1>1, <1>2, <1>3, <1>4 DEF SetInv, IntSetType, Apart, Narrowing, Concluded

-----------------------------------------------------------------------------
(* The theorems.                                                           *)

\* The set keeps its shape around the value 2, and every search its bounds.
THEOREM Inductive == SetInv /\ [IntSetNext]_ivars => SetInv'
<1> SUFFICES ASSUME SetInv, [IntSetNext]_ivars PROVE SetInv'
  OBVIOUS
<1>1. CASE \E v \in Values : intsetAdd(v)
  BY <1>1, AddOK
<1>2. CASE \E v \in Values : \E op \in {"remove", "find"} : intsetRemove(op, v)
  <2>1. PICK v \in Values, op \in {"remove", "find"} : intsetRemove(op, v)
    BY <1>2
  <2>2. v \in Int /\ Search(op, v, v)
    BY <2>1, IntSetAssumption DEF intsetRemove
  <2> QED
    BY <2>2, SearchOK
<1>3. CASE FindFound
  <2>1. /\ enc' = enc /\ length' = length /\ contents' = contents
        /\ calling' \in Call /\ calling'.pc = "idle"
    BY <1>3 DEF FindFound, Idle, Call
  <2> QED
    BY <2>1 DEF SetInv, IntSetType, Apart, Narrowing, Concluded, Places
<1>4. CASE UNCHANGED ivars
  BY <1>4 DEF ivars, SetInv, IntSetType, Apart, Narrowing, Concluded, Places, Below, Above
<1> QED
  BY <1>1, <1>2, <1>3, <1>4, IterateOK, AddFoundOK, RemoveFoundOK DEF IntSetNext

LEMMA ExactOfSetInv == SetInv => SearchExact
<1> SUFFICES ASSUME SetInv, calling.pc = "found" PROVE SearchExact
  BY DEF SearchExact
<1>1. length \in Nat /\ contents \in [Places -> Int] /\ calling \in Call
  BY DEF SetInv, IntSetType
<1>2. calling.found => calling.pos \in Places /\ contents[calling.pos] = calling.key
  BY DEF SetInv, Concluded
<1>3. ASSUME calling.op = "add"
      PROVE  calling.found <=> \E i \in Places : contents[i] = 2
  <2>1. /\ calling.key = 2 /\ calling.pos \in 0..length
        /\ ~calling.found => Below(calling.pos) /\ Above(calling.pos)
    BY <1>3 DEF SetInv, Concluded
  <2>2. ASSUME ~calling.found, NEW i \in Places PROVE contents[i] # 2
    <3>1. i \in Int /\ calling.pos \in Int /\ contents[i] \in Int
      BY <1>1, <2>1 DEF Places
    <3>2. i < calling.pos \/ i >= calling.pos
      BY <3>1, SMT
    <3>3. contents[i] < 2 \/ contents[i] > 2
      BY <2>1, <2>2, <3>2 DEF Below, Above
    <3> QED
      BY <3>1, <3>3, SMT
  <2> QED
    BY <1>2, <2>1, <2>2
<1> QED
  BY <1>2, <1>3 DEF SearchExact, Places

\* What a search of intset.c has found is in the set, and an add that is told
\* that its width is not there is told so rightly, at every length of the set.
THEOREM SearchExactAlways == IntSetSpec => []SearchExact
<1>1. intsetNew => SetInv
  BY InitOK
<1> QED
  BY <1>1, Inductive, ExactOfSetInv, PTL DEF IntSetSpec
=============================================================================
