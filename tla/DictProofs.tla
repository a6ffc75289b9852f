----------------------------- MODULE DictProofs -----------------------------
(***************************************************************************)
(* Proofs about Dict and the walks of DictWalk, for every set of keys,     *)
(* values, hashes and sizes, and every width of the cursor.                *)
(***************************************************************************)
EXTENDS DictWalk, NaturalFacts, FiniteSetTheorems, TLAPS

(* A table whose chains are right and whose count is exact. *)
GoodHT(ht) == /\ IsHT(ht)
              /\ Placed(ht)
              /\ IsFiniteSet(Entries(ht))
              /\ Counted(ht)

-----------------------------------------------------------------------------
(* One table.                                                              *)

\* A table has at least one bucket.
LEMMA SizesPositive == \A p \in Sizes : p \in Nat /\ p > 0
<1>1. MaxSize \in Nat /\ Sizes \subseteq 1..MaxSize
  BY DictAssumption
<1>2. QED
  BY <1>1

\* h & size_mask is a bucket of the table.
LEMMA SlotInRange ==
  ASSUME NEW ht, IsHT(ht), ht.size # 0, NEW k \in Key
  PROVE  Slot(ht, k) \in 0..(ht.size - 1)
<1>1. ht.size \in Nat \ {0} /\ Hash[k] \in Nat
  BY DictAssumption DEF IsHT
<1>2. QED
  BY <1>1 DEF Slot

\* An entry of a placed table is in the chain of its key and in no other.
LEMMA InItsChain ==
  ASSUME NEW ht, IsHT(ht), Placed(ht), NEW e
  PROVE  /\ e \in Entries(ht) =>
              /\ e \in Entry /\ ht.size # 0
              /\ Slot(ht, e.key) \in 0..(ht.size - 1)
              /\ e \in ht.table[Slot(ht, e.key)]
         /\ \A i \in 0..(ht.size - 1) :
              e \in ht.table[i] => i = Slot(ht, e.key) /\ e \in Entries(ht)
<1>1. \A i \in 0..(ht.size - 1) : e \in ht.table[i] => i = Slot(ht, e.key)
  BY DEF Placed
<1>2. ASSUME e \in Entries(ht)
      PROVE  \E i \in 0..(ht.size - 1) : e \in ht.table[i]
  BY <1>2 DEF Entries
<1>3. ASSUME NEW i \in 0..(ht.size - 1), e \in ht.table[i]
      PROVE  e \in Entry /\ ht.size # 0 /\ e \in Entries(ht)
  BY <1>3, DictAssumption DEF IsHT, Entries
<1>4. QED
  BY <1>1, <1>2, <1>3

\* A new table is good and empty.
LEMMA NewHTGood ==
  ASSUME NEW n \in Sizes \cup {0}
  PROVE  /\ GoodHT(NewHT(n)) /\ Entries(NewHT(n)) = {}
         /\ NewHT(n).size = n /\ NewHT(n).used = 0
<1>1. Entries(NewHT(n)) = {}
  BY DEF Entries, NewHT
<1>2. IsHT(NewHT(n)) /\ Placed(NewHT(n))
  BY DEF IsHT, NewHT, Placed
<1>3. QED
  BY <1>1, <1>2, FS_EmptySet DEF GoodHT, Counted, NewHT

\* Membership in a table, one chain at a time.
LEMMA InEntries ==
  ASSUME NEW ht, NEW e
  PROVE  e \in Entries(ht) <=> \E i \in 0..(ht.size - 1) : e \in ht.table[i]
BY DEF Entries

\* A table with another count and other chains is a table of the same size,
\* and hashes as before.
IsRebuilt(new, ht, used, table) ==
  /\ IsHT(ht) /\ used \in Nat /\ table \in [0..(ht.size - 1) -> SUBSET Entry]
  /\ new = HTWith(ht, used, table)

LEMMA Rebuilt ==
  ASSUME NEW new, NEW ht, NEW used, NEW table, IsRebuilt(new, ht, used, table)
  PROVE  /\ IsHT(new)
         /\ new.size = ht.size /\ new.used = used /\ new.table = table
         /\ \A k : Slot(new, k) = Slot(ht, k)
<1>1. /\ new = [size |-> new.size, used |-> new.used, table |-> new.table]
      /\ new.size = ht.size /\ new.used = used /\ new.table = table
  BY DEF IsRebuilt, HTWith
<1>2. IsHT(new)
  <2>1. new.size \in Sizes \cup {0}
    BY <1>1 DEF IsRebuilt, IsHT
  <2>2. new.table \in [0..(new.size - 1) -> SUBSET Entry]
    BY <1>1 DEF IsRebuilt
  <2>3. QED
    BY <1>1, <2>1, <2>2 DEF IsRebuilt, IsHT
<1>3. \A k : Slot(new, k) = Slot(ht, k)
  BY <1>1 DEF Slot
<1>4. QED
  BY <1>1, <1>2, <1>3

\* The five updates of a table all drop the entries `del' and link the entries
\* `add', each in the chain of its key.
Edited(ht, new, del, add) ==
  /\ new.size = ht.size
  /\ \A k : Slot(new, k) = Slot(ht, k)
  /\ \A i \in 0..(ht.size - 1) : \A x :
       x \in new.table[i] <=> \/ x \in ht.table[i] /\ x \notin del
                              \/ x \in add /\ Slot(ht, x.key) = i

LEMMA EditedChains ==
  ASSUME NEW ht, IsHT(ht), Placed(ht), ht.size # 0,
         NEW del, NEW add \in SUBSET Entry,
         NEW new, Edited(ht, new, del, add)
  PROVE  /\ Placed(new)
         /\ Entries(new) = (Entries(ht) \ del) \cup add
<1>1. Placed(new)
  BY DEF Placed, Edited
<1>2. ASSUME NEW x \in Entries(new)
      PROVE  x \in (Entries(ht) \ del) \cup add
  BY InEntries DEF Edited
<1>3. ASSUME NEW x \in Entries(ht), x \notin del
      PROVE  x \in Entries(new)
  BY <1>3, InEntries DEF Edited
<1>4. ASSUME NEW x \in add
      PROVE  x \in Entries(new)
  <2>1. Slot(ht, x.key) \in 0..(ht.size - 1)
    BY SlotInRange DEF Entry
  <2>2. x \in new.table[Slot(ht, x.key)]
    BY <2>1 DEF Edited
  <2>3. QED
    BY <2>1, <2>2, InEntries DEF Edited
<1>5. QED
  BY <1>1, <1>2, <1>3, <1>4

\* Rewriting the chain of one key.
LEMMA Rechained ==
  ASSUME NEW ht, IsHT(ht), ht.size # 0, NEW k \in Key,
         NEW chain \in SUBSET Entry
  PROVE  LET t == Rechain(ht, k, chain)
         IN  /\ Slot(ht, k) \in 0..(ht.size - 1)
             /\ t \in [0..(ht.size - 1) -> SUBSET Entry]
             /\ \A i \in 0..(ht.size - 1) :
                  /\ i = Slot(ht, k) => t[i] = chain
                  /\ i # Slot(ht, k) => t[i] = ht.table[i]
<1>1. Slot(ht, k) \in 0..(ht.size - 1)
  BY SlotInRange
<1>2. ht.table \in [0..(ht.size - 1) -> SUBSET Entry]
  BY DEF IsHT
<1>3. QED
  BY <1>1, <1>2 DEF Rechain

\* Put, Drop and SetVal: `new' is ht with `del' unlinked from the chain of k,
\* `add' linked in it, and the count set to the entries there are then.
OneChain(ht, new, k, del, add) ==
  /\ IsHT(ht) /\ Placed(ht) /\ ht.size # 0 /\ k \in Key
  /\ del \subseteq Entries(ht) /\ add \subseteq Entry
  /\ \A x \in del \cup add : x.key = k
  /\ new.used \in Nat
  /\ new = HTWith(ht, new.used, Rechain(ht, k, (Chain(ht, k) \ del) \cup add))

LEMMA OneChainEdited ==
  ASSUME NEW ht, NEW new, NEW k, NEW del, NEW add,
         OneChain(ht, new, k, del, add)
  PROVE  IsHT(new) /\ Edited(ht, new, del, add)
<1> DEFINE s == Slot(ht, k)
           chain == (Chain(ht, k) \ del) \cup add
           t == Rechain(ht, k, chain)
<1>0. /\ IsHT(ht) /\ Placed(ht) /\ ht.size # 0 /\ k \in Key
      /\ del \subseteq Entries(ht) /\ add \subseteq Entry
      /\ \A x \in del \cup add : x.key = k
      /\ new.used \in Nat
      /\ new = HTWith(ht, new.used, t)
  BY DEF OneChain
<1>1. s \in 0..(ht.size - 1) /\ Chain(ht, k) \in SUBSET Entry
  BY <1>0, SlotInRange DEF IsHT, Chain
<1>2. chain \in SUBSET Entry
  BY <1>0, <1>1
<1>3. /\ t \in [0..(ht.size - 1) -> SUBSET Entry]
      /\ \A i \in 0..(ht.size - 1) : /\ i = s => t[i] = chain
                                     /\ i # s => t[i] = ht.table[i]
  <2> HIDE DEF chain
  <2>1. QED
    BY <1>0, <1>2, Rechained
<1>4. /\ IsHT(new) /\ new.size = ht.size /\ new.table = t
      /\ \A j : Slot(new, j) = Slot(ht, j)
  <2>1. IsRebuilt(new, ht, new.used, t)
    BY <1>0, <1>3 DEF IsRebuilt
  <2> HIDE DEF t
  <2>2. QED
    BY <2>1, Rebuilt
<1>5. ASSUME NEW i \in 0..(ht.size - 1), NEW x
      PROVE  x \in t[i] <=> \/ x \in ht.table[i] /\ x \notin del
                            \/ x \in add /\ Slot(ht, x.key) = i
  <2>1. CASE i = s
    <3>1. t[i] = (ht.table[i] \ del) \cup add
      BY <2>1, <1>3 DEF Chain
    <3>2. x \in add => Slot(ht, x.key) = i
      BY <1>0, <2>1
    <3>3. QED
      BY <3>1, <3>2
  <2>2. CASE i # s
    <3>1. t[i] = ht.table[i]
      BY <2>2, <1>3
    <3>2. x \in add => Slot(ht, x.key) # i
      BY <1>0, <2>2
    <3>3. x \in del => x \notin ht.table[i]
      BY <1>0, <2>2 DEF Placed
    <3>4. QED
      BY <3>1, <3>2, <3>3
  <2>3. QED
    BY <2>1, <2>2
<1> HIDE DEF t
<1>6. Edited(ht, new, del, add)
  BY <1>4, <1>5 DEF Edited
<1>7. QED
  BY <1>4, <1>6

\* One chain rewritten, as the lemmas above give it together.
Recounted(ht, new, del, add, after) ==
  /\ after = (Entries(ht) \ del) \cup add
  /\ IsFiniteSet(after)
  /\ Cardinality(after) = new.used

LEMMA OneChainGood ==
  ASSUME NEW ht, NEW new, NEW k, NEW del, NEW add, NEW after,
         OneChain(ht, new, k, del, add),
         Recounted(ht, new, del, add, after)
  PROVE  GoodHT(new) /\ new.size = ht.size /\ Entries(new) = after
<1>0. /\ after = (Entries(ht) \ del) \cup add
      /\ IsFiniteSet(after) /\ Cardinality(after) = new.used
  BY DEF Recounted
<1>1. IsHT(new) /\ Edited(ht, new, del, add)
  BY OneChainEdited
<1>2. Placed(new) /\ Entries(new) = after
  <2>1. IsHT(ht) /\ Placed(ht) /\ ht.size # 0 /\ add \in SUBSET Entry
    BY DEF OneChain
  <2>2. QED
    BY <1>0, <1>1, <2>1, EditedChains
<1>3. new.size = ht.size
  BY <1>1 DEF Edited
<1>4. QED
  BY <1>0, <1>1, <1>2, <1>3 DEF GoodHT, Counted

\* Linking an entry that the table does not hold.
LEMMA PutGood ==
  ASSUME NEW ht, GoodHT(ht), ht.size # 0,
         NEW e \in Entry, e \notin Entries(ht)
  PROVE  /\ GoodHT(Put(ht, e)) /\ Put(ht, e).size = ht.size
         /\ Entries(Put(ht, e)) = Entries(ht) \cup {e}
<1> DEFINE after == Entries(ht) \cup {e}
<1>1. /\ IsHT(ht) /\ Placed(ht) /\ ht.used + 1 \in Nat /\ e.key \in Key
      /\ IsFiniteSet(Entries(ht)) /\ ht.used = Cardinality(Entries(ht))
  BY DEF GoodHT, IsHT, Entry, Counted
<1>2. Put(ht, e).used = ht.used + 1
  BY DEF Put, HTWith
<1>3. Put(ht, e) = HTWith(ht, ht.used + 1,
                     Rechain(ht, e.key, (Chain(ht, e.key) \ {}) \cup {e}))
  BY DEF Put
<1>4. OneChain(ht, Put(ht, e), e.key, {}, {e})
  BY <1>1, <1>2, <1>3 DEF OneChain
<1>5. IsFiniteSet(after) /\ Cardinality(after) = Put(ht, e).used
  BY <1>1, <1>2, FS_AddElement
<1>6. Recounted(ht, Put(ht, e), {}, {e}, after)
  BY <1>5 DEF Recounted
<1> HIDE DEF after
<1>7. GoodHT(Put(ht, e)) /\ Put(ht, e).size = ht.size /\ Entries(Put(ht, e)) = after
  BY <1>4, <1>6, OneChainGood
<1>8. QED
  BY <1>7 DEF after

\* Unlinking an entry of the table.
LEMMA DropGood ==
  ASSUME NEW ht, GoodHT(ht), NEW e \in Entries(ht)
  PROVE  /\ GoodHT(Drop(ht, e)) /\ Drop(ht, e).size = ht.size
         /\ Entries(Drop(ht, e)) = Entries(ht) \ {e}
<1> DEFINE after == Entries(ht) \ {e}
<1>1. /\ IsHT(ht) /\ Placed(ht) /\ e.key \in Key /\ ht.size # 0
      /\ IsFiniteSet(Entries(ht)) /\ ht.used = Cardinality(Entries(ht))
  BY InItsChain DEF GoodHT, Entry, Counted
<1>2. Drop(ht, e).used = ht.used - 1
  BY DEF Drop, HTWith
<1>3. Drop(ht, e) = HTWith(ht, ht.used - 1,
                      Rechain(ht, e.key, (Chain(ht, e.key) \ {e}) \cup {}))
  BY DEF Drop
<1>4. IsFiniteSet(after) /\ Cardinality(after) = ht.used - 1
  BY <1>1, FS_RemoveElement
<1>5. ht.used - 1 \in Nat
  <2> HIDE DEF after
  <2>1. QED
    BY <1>4, FS_CardinalityType, Zenon
<1>6. OneChain(ht, Drop(ht, e), e.key, {e}, {})
  BY <1>1, <1>2, <1>3, <1>5 DEF OneChain
<1>7. Recounted(ht, Drop(ht, e), {e}, {}, after)
  BY <1>2, <1>4 DEF Recounted
<1> HIDE DEF after
<1>8. GoodHT(Drop(ht, e)) /\ Drop(ht, e).size = ht.size /\ Entries(Drop(ht, e)) = after
  BY <1>6, <1>7, OneChainGood
<1>9. QED
  BY <1>8 DEF after

\* Changing the value of the only entry of its key.
LEMMA SetValGood ==
  ASSUME NEW ht, GoodHT(ht), NEW e \in Entries(ht), NEW v \in Val,
         \A f \in Entries(ht) : f.key = e.key => f = e
  PROVE  /\ GoodHT(SetVal(ht, e, v)) /\ SetVal(ht, e, v).size = ht.size
         /\ Entries(SetVal(ht, e, v)) =
              (Entries(ht) \ {e}) \cup {[key |-> e.key, val |-> v]}
<1> DEFINE f == [key |-> e.key, val |-> v]
           new == SetVal(ht, e, v)
           after == (Entries(ht) \ {e}) \cup {f}
<1>1. /\ IsHT(ht) /\ Placed(ht) /\ e.key \in Key /\ ht.size # 0
      /\ IsFiniteSet(Entries(ht)) /\ ht.used = Cardinality(Entries(ht))
      /\ ht.used \in Nat
  BY InItsChain DEF GoodHT, Entry, Counted, IsHT
<1>2. f \in Entry /\ f.key = e.key /\ f \notin Entries(ht) \ {e}
  BY <1>1 DEF Entry
<1>3. new.used = ht.used
  BY DEF SetVal, HTWith
<1>4. new = HTWith(ht, ht.used,
               Rechain(ht, e.key, (Chain(ht, e.key) \ {e}) \cup {f}))
  BY DEF SetVal
<1> HIDE DEF f, new
<1>5. OneChain(ht, new, e.key, {e}, {f})
  BY <1>1, <1>2, <1>3, <1>4 DEF OneChain
<1>6. IsFiniteSet(after) /\ Cardinality(after) = new.used
  <2>1. /\ IsFiniteSet(Entries(ht) \ {e})
        /\ Cardinality(Entries(ht) \ {e}) = ht.used - 1
    BY <1>1, FS_RemoveElement
  <2>2. IsFiniteSet(after) /\ Cardinality(after) = ht.used - 1 + 1
    BY <1>2, <2>1, FS_AddElement
  <2>3. ht.used - 1 + 1 = ht.used
    BY <1>1
  <2>4. QED
    BY <1>3, <2>2, <2>3
<1> HIDE DEF after
<1>7. Recounted(ht, new, {e}, {f}, after)
  BY <1>6 DEF Recounted, after
<1>8. GoodHT(new) /\ new.size = ht.size /\ Entries(new) = after
  BY <1>5, <1>7, OneChainGood
<1>9. QED
  BY <1>8 DEF after, f, new

\* A rehash step takes whole buckets out of ht[0] ...
IsTaken(new, ht, moved, from, to) ==
  /\ GoodHT(ht) /\ from \in Nat /\ to \in Int /\ to < ht.size
  /\ moved = UNION { ht.table[i] : i \in from..to }
  /\ new = Take(ht, moved, from, to)

LEMMA TakeGood ==
  ASSUME NEW new, NEW ht, NEW moved, NEW from, NEW to, IsTaken(new, ht, moved, from, to)
  PROVE  /\ GoodHT(new) /\ new.size = ht.size
         /\ Entries(new) = Entries(ht) \ moved
         /\ \A i \in from..to : new.table[i] = {}
         /\ \A i \in 0..(ht.size - 1) : ht.table[i] = {} => new.table[i] = {}
         /\ IsFiniteSet(moved) /\ moved \subseteq Entries(ht)
<1> DEFINE n == ht.used - Cardinality(moved)
           t == [i \in 0..(ht.size - 1) |-> IF i \in from..to THEN {} ELSE ht.table[i]]
           after == Entries(ht) \ moved
<1>1. /\ IsHT(ht) /\ Placed(ht) /\ ht.size \in Nat
      /\ IsFiniteSet(Entries(ht)) /\ ht.used = Cardinality(Entries(ht))
  BY SizesPositive DEF IsTaken, GoodHT, Counted, IsHT
<1>2. from..to \subseteq 0..(ht.size - 1)
  BY <1>1 DEF IsTaken
<1>3. ASSUME NEW x
      PROVE  x \in moved <=> \E i \in from..to : x \in ht.table[i]
  BY DEF IsTaken
<1>4. moved \subseteq Entries(ht)
  BY <1>2, <1>3, InEntries
<1>5. /\ IsFiniteSet(moved) /\ IsFiniteSet(after)
      /\ Cardinality(after) = n /\ n \in Nat
  <2>1. IsFiniteSet(moved)
    BY <1>1, <1>4, FS_Subset
  <2>2. Entries(ht) \cap moved = moved
    BY <1>4
  <2>3. IsFiniteSet(after) /\ Cardinality(after) = ht.used - Cardinality(Entries(ht) \cap moved)
    BY <1>1, FS_Difference
  <2>4. Cardinality(after) = n
    BY <2>2, <2>3
  <2>5. Cardinality(after) \in Nat
    BY <2>3, FS_CardinalityType
  <2>6. QED
    BY <2>1, <2>3, <2>4, <2>5
<1>6. t \in [0..(ht.size - 1) -> SUBSET Entry]
  BY <1>1 DEF IsHT
<1>7. new = HTWith(ht, n, t)
  BY DEF IsTaken, Take
<1> HIDE DEF n, after
<1>8. /\ IsHT(new) /\ new.size = ht.size /\ new.used = n /\ new.table = t
      /\ \A k : Slot(new, k) = Slot(ht, k)
  <2> HIDE DEF t
  <2>1. IsRebuilt(new, ht, n, t)
    BY <1>1, <1>5, <1>6, <1>7 DEF IsRebuilt
  <2>2. QED
    BY <2>1, Rebuilt
<1>9. ASSUME NEW x PROVE x \in Entries(new) <=> x \in after
  <2>1. \A i \in 0..(ht.size - 1) :
          x \in t[i] <=> x \in ht.table[i] /\ i \notin from..to
    OBVIOUS
  <2>2. x \in Entries(new) <=>
          \E i \in 0..(ht.size - 1) : x \in ht.table[i] /\ i \notin from..to
    <3> HIDE DEF t
    <3>1. QED
      BY <1>8, <2>1, InEntries
  <2>3. ASSUME NEW i \in 0..(ht.size - 1), x \in ht.table[i], i \notin from..to
        PROVE  x \in Entries(ht) /\ x \notin moved
    <3>1. \A j \in from..to : x \notin ht.table[j]
      BY <1>1, <1>2, <2>3 DEF Placed
    <3>2. QED
      BY <1>3, <2>3, <3>1, InEntries
  <2>4. ASSUME x \in Entries(ht), x \notin moved
        PROVE  \E i \in 0..(ht.size - 1) : x \in ht.table[i] /\ i \notin from..to
    BY <1>3, <2>4, InEntries
  <2>5. QED
    BY <2>2, <2>3, <2>4 DEF after
<1>10. Entries(new) = after
  BY <1>9
<1>11. Placed(new)
  BY <1>1, <1>8 DEF Placed
<1>12. GoodHT(new)
  BY <1>5, <1>8, <1>10, <1>11 DEF GoodHT, Counted
<1>13. /\ \A i \in from..to : new.table[i] = {}
       /\ \A i \in 0..(ht.size - 1) : ht.table[i] = {} => new.table[i] = {}
  BY <1>2, <1>8
<1>14. QED
  BY <1>4, <1>5, <1>8, <1>10, <1>12, <1>13 DEF after

\* ... and links their entries in ht[1].
LEMMA GiveGood ==
  ASSUME NEW ht, GoodHT(ht), ht.size # 0,
         NEW moved \in SUBSET Entry, IsFiniteSet(moved),
         moved \cap Entries(ht) = {}
  PROVE  LET new == Give(ht, moved)
         IN  /\ GoodHT(new) /\ new.size = ht.size
             /\ Entries(new) = Entries(ht) \cup moved
<1> DEFINE n == ht.used + Cardinality(moved)
           t == [i \in 0..(ht.size - 1) |->
                   ht.table[i] \cup { e \in moved : Slot(ht, e.key) = i }]
           new == Give(ht, moved)
           after == Entries(ht) \cup moved
<1>1. /\ IsHT(ht) /\ Placed(ht) /\ ht.size \in Nat /\ ht.used \in Nat
      /\ IsFiniteSet(Entries(ht)) /\ ht.used = Cardinality(Entries(ht))
  BY DictAssumption DEF GoodHT, Counted, IsHT
<1>2. /\ IsFiniteSet(after) /\ Cardinality(after) = n /\ n \in Nat
  <2>1. Entries(ht) \cap moved = {}
    OBVIOUS
  <2>2. /\ IsFiniteSet(after)
        /\ Cardinality(after) = ht.used + Cardinality(moved)
                                - Cardinality(Entries(ht) \cap moved)
    BY <1>1, FS_Union
  <2>3. Cardinality(Entries(ht) \cap moved) = 0
    BY <2>1, FS_EmptySet
  <2>4. Cardinality(moved) \in Nat
    BY FS_CardinalityType
  <2>5. QED
    BY <1>1, <2>2, <2>3, <2>4
<1>3. t \in [0..(ht.size - 1) -> SUBSET Entry]
  BY <1>1 DEF IsHT
<1>4. new = HTWith(ht, n, t)
  BY DEF Give
<1> HIDE DEF n, new, after
<1>5. /\ IsHT(new) /\ new.size = ht.size /\ new.used = n /\ new.table = t
      /\ \A k : Slot(new, k) = Slot(ht, k)
  <2> HIDE DEF t
  <2>1. IsRebuilt(new, ht, n, t)
    BY <1>1, <1>2, <1>3, <1>4 DEF IsRebuilt
  <2>2. QED
    BY <2>1, Rebuilt
<1>6. ASSUME NEW b \in 0..(ht.size - 1), NEW x
      PROVE  x \in t[b] <=> x \in ht.table[b] \/ (x \in moved /\ Slot(ht, x.key) = b)
  <2>1. t[b] = ht.table[b] \cup { e \in moved : Slot(ht, e.key) = b }
    OBVIOUS
  <2>2. x \in { e \in moved : Slot(ht, e.key) = b } <=> x \in moved /\ Slot(ht, x.key) = b
    OBVIOUS
  <2> HIDE DEF t
  <2>3. QED
    BY <2>1, <2>2
<1> HIDE DEF t
<1>7. Placed(new)
  BY <1>1, <1>5, <1>6 DEF Placed
<1>8. ASSUME NEW x PROVE x \in Entries(new) <=> x \in after
  <2>1. x \in moved => Slot(ht, x.key) \in 0..(ht.size - 1)
    BY <1>1, SlotInRange DEF Entry
  <2>2. x \in Entries(new) <=>
          \E i \in 0..(ht.size - 1) :
            x \in ht.table[i] \/ (x \in moved /\ Slot(ht, x.key) = i)
    BY <1>5, <1>6, InEntries
  <2>3. x \in Entries(ht) <=> \E i \in 0..(ht.size - 1) : x \in ht.table[i]
    BY InEntries
  <2>4. x \in after <=> x \in Entries(ht) \/ x \in moved
    BY DEF after
  <2>5. ASSUME x \in moved
        PROVE  \E i \in 0..(ht.size - 1) : Slot(ht, x.key) = i
    BY <2>1, <2>5
  <2>6. QED
    BY <2>2, <2>3, <2>4, <2>5
<1>9. Entries(new) = after
  BY <1>8
<1>10. GoodHT(new)
  BY <1>2, <1>5, <1>7, <1>9 DEF GoodHT, Counted
<1>11. QED
  BY <1>5, <1>9, <1>10 DEF new, after

-----------------------------------------------------------------------------
(* Two tables.                                                             *)

\* The inductive invariant, of a Dict: both tables are good, ht[1] is in use
\* exactly during a rehash, and no key has two entries.
GoodDict(d) == /\ IsDict(d)
               /\ GoodHT(d.ht0) /\ GoodHT(d.ht1)
               /\ RehashShape(d)
               /\ OneEntryPerKey(d)

\* With(...) is a Dict, field by field.
IsWith(new, d, ht0, ht1, r) ==
  /\ IsDict(d) /\ IsHT(ht0) /\ IsHT(ht1) /\ r \in Int
  /\ new = With(d, ht0, ht1, r)

LEMMA WithFields ==
  ASSUME NEW new, NEW d, NEW ht0, NEW ht1, NEW r, IsWith(new, d, ht0, ht1, r)
  PROVE  /\ IsDict(new)
         /\ new.ht0 = ht0 /\ new.ht1 = ht1 /\ new.rehashidx = r
<1>1. /\ new.ht0 = ht0 /\ new.ht1 = ht1 /\ new.rehashidx = r
      /\ new.iterators = d.iterators
      /\ new = [ht0 |-> new.ht0, ht1 |-> new.ht1,
                rehashidx |-> new.rehashidx, iterators |-> new.iterators]
  BY DEF IsWith, With
<1>2. QED
  BY <1>1 DEF IsWith, IsDict

\* The empty table of a Dict that is not rehashing has no entries.
LEMMA EmptySecondTable ==
  ASSUME NEW d, GoodDict(d)
  PROVE  /\ ~ IsRehashing(d) => Entries(d.ht1) = {} /\ d.ht1 = NewHT(0)
         /\ IsRehashing(d) => /\ d.rehashidx \in 0..d.ht0.size
                              /\ d.ht0.size > 0 /\ d.ht1.size > 0
         /\ d.ht0.size = 0 => Entries(d.ht0) = {} /\ d.ht0.used = 0
<1>1. Entries(NewHT(0)) = {}
  BY NewHTGood
<1>2. ASSUME d.ht0.size = 0 PROVE Entries(d.ht0) = {}
  BY <1>2 DEF Entries
<1>3. Entries(d.ht0) = {} => d.ht0.used = 0
  BY FS_EmptySet DEF GoodDict, GoodHT, Counted
<1>4. QED
  BY <1>1, <1>2, <1>3 DEF GoodDict, RehashShape

\* No table holds more entries than there are keys.
LEMMA UsedBound ==
  ASSUME NEW d, GoodDict(d)
  PROVE  d.ht0.used \in 0..Cardinality(Key) /\ Cardinality(Key) \in Nat
<1> DEFINE f == [e \in Entries(d.ht0) |-> e.key]
<1>1. f \in Injection(Entries(d.ht0), Key)
  <2>1. \A e \in Entries(d.ht0) : e.key \in Key
    BY InItsChain DEF GoodDict, GoodHT, Entry
  <2>2. \A e, g \in Entries(d.ht0) : e.key = g.key => e = g
    BY DEF GoodDict, OneEntryPerKey, Contents
  <2>3. QED
    BY <2>1, <2>2 DEF Injection, IsInjective
<1>2. IsFiniteSet(Key)
  BY DictAssumption
<1>3. Cardinality(Entries(d.ht0)) <= Cardinality(Key)
  BY <1>1, <1>2, FS_Injection
<1>4. QED
  BY <1>2, <1>3, FS_CardinalityType DEF GoodDict, GoodHT, Counted, IsHT

\* _dictNextPower answers with a table size that holds what was asked for.
LEMMA NextPowerType ==
  ASSUME NEW n \in 0..MaxSize
  PROVE  NextPower(n) \in Sizes /\ NextPower(n) >= n /\ NextPower(n) > 0
<1>1. \E p \in Sizes : p >= n /\ \A q \in Sizes : q >= n => p <= q
  BY DictAssumption
<1>2. NextPower(n) \in Sizes /\ NextPower(n) >= n
  BY <1>1 DEF NextPower
<1>3. QED
  BY <1>2, SizesPositive

\* What lookups return: the entries of the key, wherever they are.
LEMMA LookupFinds ==
  ASSUME NEW d, GoodDict(d), NEW k \in Key
  PROVE  Lookup(d, k) = { e \in Contents(d) : e.key = k }
<1>1. ASSUME NEW ht, GoodHT(ht), ht.size # 0
      PROVE  Matches(ht, k) = { e \in Entries(ht) : e.key = k }
  <2>1. IsHT(ht) /\ Placed(ht)
    BY <1>1 DEF GoodHT
  <2>2. Slot(ht, k) \in 0..(ht.size - 1)
    BY <1>1, <2>1, SlotInRange
  <2>3. ASSUME NEW e PROVE e \in Matches(ht, k) <=> e \in Entries(ht) /\ e.key = k
    BY <2>1, <2>2, InItsChain DEF Matches
  <2>4. QED
    BY <2>3
<1>2. CASE d.ht0.size = 0
  <2>1. Contents(d) = {}
    BY <1>2, EmptySecondTable DEF Contents
  <2>2. QED
    BY <1>2, <2>1 DEF Lookup
<1>3. CASE d.ht0.size # 0
  <2>1. Matches(d.ht0, k) = { e \in Entries(d.ht0) : e.key = k }
    BY <1>1, <1>3 DEF GoodDict
  <2>2. CASE Matches(d.ht0, k) # {}
    <3>1. PICK g \in Entries(d.ht0) : g.key = k
      BY <2>1, <2>2
    <3>2. \A e \in Contents(d) : e.key = k => e = g
      BY <3>1 DEF GoodDict, OneEntryPerKey, Contents
    <3>3. \A e : e \in Lookup(d, k) <=> e \in Contents(d) /\ e.key = k
      BY <1>3, <2>1, <2>2, <3>1, <3>2 DEF Lookup, Contents
    <3>4. QED
      BY <3>3
  <2>3. CASE Matches(d.ht0, k) = {} /\ IsRehashing(d)
    <3>1. Matches(d.ht1, k) = { e \in Entries(d.ht1) : e.key = k }
      BY <1>1, <2>3, EmptySecondTable DEF GoodDict
    <3>2. \A e \in Entries(d.ht0) : e.key # k
      BY <2>1, <2>3
    <3>3. QED
      BY <1>3, <2>3, <3>1, <3>2 DEF Lookup, Contents
  <2>4. CASE Matches(d.ht0, k) = {} /\ ~ IsRehashing(d)
    <3>1. \A e \in Entries(d.ht0) : e.key # k
      BY <2>1, <2>4
    <3>2. QED
      BY <1>3, <2>4, <3>1, EmptySecondTable DEF Lookup, Contents
  <2>5. QED
    BY <2>2, <2>3, <2>4
<1>4. QED
  BY <1>2, <1>3

\* dictExpand moves nothing.
LEMMA ExpandGood ==
  ASSUME NEW d, GoodDict(d), NEW n \in 0..MaxSize
  PROVE  /\ GoodDict(Expand(d, n)) /\ Contents(Expand(d, n)) = Contents(d)
         /\ n > 0 => Expand(d, n).ht0.size # 0 
         /\ d.ht0.size # 0 => Expand(d, n).ht0.size = d.ht0.size
<1> DEFINE fresh == NewHT(NextPower(n))
<1>1. /\ GoodHT(fresh) /\ Entries(fresh) = {} /\ fresh.size > 0 
      /\ fresh.size >= n /\ IsHT(fresh)
  BY NextPowerType, NewHTGood DEF GoodHT
<1>2. /\ IsDict(d) /\ IsHT(d.ht0) /\ IsHT(d.ht1) /\ GoodHT(d.ht0) /\ GoodHT(d.ht1)
      /\ RehashShape(d) /\ OneEntryPerKey(d)
  BY DEF GoodDict, GoodHT
<1> HIDE DEF fresh
<1>3. CASE ExpandRefused(d, n)
  <2>1. n > 0 => d.ht0.size # 0
    BY <1>3, EmptySecondTable, NextPowerType DEF ExpandRefused
  <2>2. QED
    BY <1>3, <2>1 DEF Expand
<1>4. CASE ~ ExpandRefused(d, n) /\ d.ht0.size = 0
  <2> DEFINE new == Expand(d, n)
  <2>2. IsWith(new, d, fresh, d.ht1, -1)
    BY <1>1, <1>2, <1>4 DEF Expand, fresh, IsWith
  <2> HIDE DEF new
  <2>1. /\ IsDict(new) /\ new.ht0 = fresh /\ new.ht1 = d.ht1
        /\ new.rehashidx = -1
    BY <2>2, WithFields
  <2>3. Entries(d.ht0) = {} /\ Entries(d.ht1) = {} /\ d.ht1 = NewHT(0)
    BY <1>4, EmptySecondTable DEF ExpandRefused
  <2>4. Contents(new) = {} /\ Contents(d) = {}
    BY <1>1, <2>1, <2>3 DEF Contents
  <2>5. RehashShape(new) /\ OneEntryPerKey(new)
    BY <2>1, <2>3, <2>4 DEF RehashShape, IsRehashing, OneEntryPerKey
  <2>6. QED
    BY <1>1, <1>2, <1>4, <2>1, <2>4, <2>5 DEF GoodDict, new
<1>5. CASE ~ ExpandRefused(d, n) /\ d.ht0.size # 0
  <2> DEFINE new == Expand(d, n)
  <2>2. IsWith(new, d, d.ht0, fresh, 0)
    BY <1>1, <1>2, <1>5 DEF Expand, fresh, IsWith
  <2> HIDE DEF new
  <2>1. /\ IsDict(new) /\ new.ht0 = d.ht0 /\ new.ht1 = fresh
        /\ new.rehashidx = 0
    BY <2>2, WithFields
  <2>3. Entries(d.ht1) = {}
    BY <1>5, EmptySecondTable DEF ExpandRefused
  <2>4. Contents(new) = Contents(d)
    BY <1>1, <2>1, <2>3 DEF Contents
  <2>5. d.ht0.size > 0 /\ d.ht0.size \in Nat
    BY <1>2, <1>5, SizesPositive DEF IsHT
  <2>6. RehashShape(new)
    BY <1>1, <2>1, <2>5 DEF RehashShape, IsRehashing
  <2>7. OneEntryPerKey(new)
    BY <1>1, <1>2, <2>1, <2>4 DEF OneEntryPerKey
  <2>8. QED
    BY <1>1, <1>2, <1>5, <2>1, <2>4, <2>6, <2>7 DEF GoodDict, new
<1>6. QED
  BY <1>3, <1>4, <1>5

\* dictAdd finds a table with buckets after _dictExpandIfNeeded.
LEMMA RoomGood ==
  ASSUME NEW d, GoodDict(d)
  PROVE  LET room == ExpandIfNeeded(d)
         IN  /\ GoodDict(room) /\ Contents(room) = Contents(d)
             /\ room.ht0.size # 0
<1>1. CASE IsRehashing(d)
  BY <1>1, EmptySecondTable DEF ExpandIfNeeded
<1>2. CASE ~ IsRehashing(d) /\ d.ht0.size = 0
  <2>1. DICT_HT_INITIAL_SIZE \in 0..MaxSize /\ DICT_HT_INITIAL_SIZE > 0
    BY DictAssumption, SizesPositive
  <2>2. QED
    BY <1>2, <2>1, ExpandGood DEF ExpandIfNeeded
<1>3. CASE ~ IsRehashing(d) /\ d.ht0.size # 0 /\ Crowded(d)
  <2>1. d.ht0.used * 2 \in 0..MaxSize
    BY UsedBound, DictAssumption
  <2>2. QED
    BY <1>3, <2>1, ExpandGood DEF ExpandIfNeeded
<1>4. CASE ~ IsRehashing(d) /\ d.ht0.size # 0 /\ ~ Crowded(d)
  BY <1>4 DEF ExpandIfNeeded
<1>5. QED
  BY <1>1, <1>2, <1>3, <1>4

\* A rehash moves entries between the tables and loses none.
LEMMA RehashToGood ==
  ASSUME NEW d, GoodDict(d), IsRehashing(d), NEW j \in d.rehashidx..d.ht0.size
  PROVE  GoodDict(RehashTo(d, j)) /\ Contents(RehashTo(d, j)) = Contents(d)
<1> DEFINE moved == Moved(d, j)
           from == Take(d.ht0, moved, d.rehashidx, j - 1)
           to == Give(d.ht1, moved)
           new == RehashTo(d, j)
<1>1. /\ IsDict(d) /\ IsHT(d.ht0) /\ IsHT(d.ht1) /\ GoodHT(d.ht0) /\ GoodHT(d.ht1)
      /\ RehashShape(d) /\ OneEntryPerKey(d)
      /\ d.ht0.size \in Nat
  BY SizesPositive DEF GoodDict, GoodHT, IsHT
<1>2. /\ d.rehashidx \in 0..d.ht0.size /\ d.ht0.size > 0 /\ d.ht1.size > 0
      /\ j \in Int /\ d.rehashidx <= j /\ j <= d.ht0.size
      /\ \A i \in 0..(d.rehashidx - 1) : d.ht0.table[i] = {}
  BY <1>1 DEF RehashShape
<1>3. moved = UNION { d.ht0.table[i] : i \in d.rehashidx..(j - 1) }
  BY DEF Moved
<1> HIDE DEF moved
<1>4. /\ GoodHT(from) /\ from.size = d.ht0.size
      /\ Entries(from) = Entries(d.ht0) \ moved
      /\ \A i \in d.rehashidx..(j - 1) : from.table[i] = {}
      /\ \A i \in 0..(d.ht0.size - 1) : d.ht0.table[i] = {} => from.table[i] = {}
      /\ IsFiniteSet(moved) /\ moved \subseteq Entries(d.ht0)
  <2>1. d.rehashidx \in Nat /\ j - 1 \in Int /\ j - 1 < d.ht0.size
    BY <1>1, <1>2
  <2>2. IsTaken(from, d.ht0, moved, d.rehashidx, j - 1)
    BY <1>1, <1>3, <2>1 DEF IsTaken
  <2> HIDE DEF from
  <2>3. QED
    BY <2>2, TakeGood
<1>5. moved \subseteq Entry /\ moved \cap Entries(d.ht1) = {}
  BY <1>1, <1>4, InItsChain DEF GoodHT, OneEntryPerKey
<1>6. /\ GoodHT(to) /\ to.size = d.ht1.size
      /\ Entries(to) = Entries(d.ht1) \cup moved
  BY <1>1, <1>2, <1>4, <1>5, GiveGood
<1>7. new = IF from.used = 0 THEN With(d, to, NewHT(0), -1) ELSE With(d, from, to, j)
  BY DEF RehashTo, moved
<1> HIDE DEF from, to, new
<1>8. CASE from.used = 0
  <2>1. Entries(from) = {}
    BY <1>4, <1>8, FS_EmptySet DEF GoodHT, Counted
  <2>2. GoodHT(NewHT(0)) /\ Entries(NewHT(0)) = {} /\ IsHT(NewHT(0)) /\ IsHT(to)
    BY <1>6, NewHTGood DEF GoodHT
  <2>3. /\ IsDict(new) /\ new.ht0 = to /\ new.ht1 = NewHT(0) /\ new.rehashidx = -1
    <3>1. IsWith(new, d, to, NewHT(0), -1)
      BY <1>1, <1>7, <1>8, <2>2 DEF IsWith
    <3>2. QED
      BY <3>1, WithFields
  <2>4. Contents(new) = Contents(d)
    BY <1>4, <1>6, <2>1, <2>2, <2>3 DEF Contents
  <2>5. RehashShape(new) /\ OneEntryPerKey(new)
    BY <1>1, <2>2, <2>3, <2>4 DEF RehashShape, IsRehashing, OneEntryPerKey
  <2>6. QED
    BY <1>6, <2>2, <2>3, <2>4, <2>5 DEF GoodDict, new
<1>9. CASE from.used # 0
  <2>1. IsHT(from) /\ IsHT(to)
    BY <1>4, <1>6 DEF GoodHT
  <2>2. /\ IsDict(new) /\ new.ht0 = from /\ new.ht1 = to /\ new.rehashidx = j
    <3>1. IsWith(new, d, from, to, j)
      BY <1>1, <1>2, <1>7, <1>9, <2>1 DEF IsWith
    <3>2. QED
      BY <3>1, WithFields
  <2>3. Contents(new) = Contents(d)
    BY <1>4, <1>6, <2>2 DEF Contents
  <2>4. \A i \in 0..(j - 1) : from.table[i] = {}
    BY <1>1, <1>2, <1>4
  <2>5. RehashShape(new)
    BY <1>1, <1>2, <1>4, <1>6, <2>2, <2>4 DEF RehashShape, IsRehashing
  <2>6. Entries(from) \cap Entries(to) = {}
    BY <1>1, <1>4, <1>6 DEF OneEntryPerKey
  <2>7. OneEntryPerKey(new)
    BY <1>1, <2>2, <2>3, <2>6 DEF OneEntryPerKey
  <2>8. QED
    BY <1>4, <1>6, <2>2, <2>3, <2>5, <2>7 DEF GoodDict, new
<1>10. QED
  BY <1>8, <1>9

LEMMA RehashStepGood ==
  ASSUME NEW d, GoodDict(d), NEW e \in RehashStep(d)
  PROVE  GoodDict(e) /\ Contents(e) = Contents(d)
<1>1. CASE IsRehashing(d) /\ d.iterators = 0
  <2>1. PICK j \in d.rehashidx..d.ht0.size : e = RehashTo(d, j)
    BY <1>1 DEF RehashStep, Rehashed, RehashStops
  <2>2. QED
    BY <1>1, <2>1, RehashToGood
<1>2. CASE ~ (IsRehashing(d) /\ d.iterators = 0)
  BY <1>2 DEF RehashStep
<1>3. QED
  BY <1>1, <1>2

\* dictAdd's new entry goes to the table that is being filled.
LEMMA InsertGood ==
  ASSUME NEW d, GoodDict(d), d.ht0.size # 0, NEW e \in Entry,
         \A f \in Contents(d) : f.key # e.key
  PROVE  GoodDict(Insert(d, e)) /\ Contents(Insert(d, e)) = Contents(d) \cup {e}
<1> DEFINE new == Insert(d, e)
           p0 == Put(d.ht0, e)
           p1 == Put(d.ht1, e)
<1>1. /\ IsDict(d) /\ IsHT(d.ht0) /\ IsHT(d.ht1) /\ GoodHT(d.ht0) /\ GoodHT(d.ht1)
      /\ RehashShape(d) /\ OneEntryPerKey(d) /\ d.rehashidx \in Int
  BY DEF GoodDict, GoodHT, IsDict
<1>2. e \notin Entries(d.ht0) /\ e \notin Entries(d.ht1)
  BY DEF Contents
<1>3. new = IF IsRehashing(d) THEN With(d, d.ht0, p1, d.rehashidx)
                              ELSE With(d, p0, d.ht1, d.rehashidx)
  BY DEF Insert, With0, With1
<1>4. CASE IsRehashing(d)
  <2>1. /\ GoodHT(p1) /\ p1.size = d.ht1.size /\ IsHT(p1)
        /\ Entries(p1) = Entries(d.ht1) \cup {e}
    BY <1>1, <1>2, <1>4, EmptySecondTable, PutGood DEF GoodHT
  <2> HIDE DEF p0, p1, new
  <2>2. /\ IsDict(new) /\ new.ht0 = d.ht0 /\ new.ht1 = p1
        /\ new.rehashidx = d.rehashidx
    <3>1. IsWith(new, d, d.ht0, p1, d.rehashidx)
      BY <1>1, <1>3, <1>4, <2>1 DEF IsWith
    <3>2. QED
      BY <3>1, WithFields
  <2>3. Contents(new) = Contents(d) \cup {e}
    BY <2>1, <2>2 DEF Contents
  <2>4. RehashShape(new)
    BY <1>1, <1>4, <2>1, <2>2 DEF RehashShape, IsRehashing
  <2>5. OneEntryPerKey(new)
    BY <1>1, <1>2, <2>1, <2>2, <2>3 DEF OneEntryPerKey
  <2>6. QED
    BY <1>1, <2>1, <2>2, <2>3, <2>4, <2>5 DEF GoodDict, new
<1>5. CASE ~ IsRehashing(d)
  <2>1. /\ GoodHT(p0) /\ p0.size = d.ht0.size /\ IsHT(p0)
        /\ Entries(p0) = Entries(d.ht0) \cup {e}
    BY <1>1, <1>2, PutGood DEF GoodHT
  <2> HIDE DEF p0, p1, new
  <2>2. /\ IsDict(new) /\ new.ht0 = p0 /\ new.ht1 = d.ht1
        /\ new.rehashidx = d.rehashidx
    <3>1. IsWith(new, d, p0, d.ht1, d.rehashidx)
      BY <1>1, <1>3, <1>5, <2>1 DEF IsWith
    <3>2. QED
      BY <3>1, WithFields
  <2>3. Contents(new) = Contents(d) \cup {e}
    BY <2>1, <2>2 DEF Contents
  <2>4. RehashShape(new)
    BY <1>1, <1>5, <2>1, <2>2 DEF RehashShape, IsRehashing
  <2>5. OneEntryPerKey(new)
    BY <1>1, <1>2, <2>1, <2>2, <2>3 DEF OneEntryPerKey
  <2>6. QED
    BY <1>1, <2>1, <2>2, <2>3, <2>4, <2>5 DEF GoodDict, new
<1>6. QED
  BY <1>4, <1>5

\* `new' is `old' with entries removed or given other values.
Thinned(new, old) ==
  /\ GoodHT(old) /\ GoodHT(new) /\ new.size = old.size
  /\ \A x \in Entries(new) : \E y \in Entries(old) : y.key = x.key
  /\ \A x, y \in Entries(new) : x.key = y.key => x = y

\* Such a change leaves buckets already moved empty.
LEMMA StillEmpty ==
  ASSUME NEW new, NEW old, Thinned(new, old),
         NEW i \in 0..(old.size - 1), old.table[i] = {}
  PROVE  new.table[i] = {}
<1>1. /\ IsHT(old) /\ Placed(old) /\ IsHT(new) /\ Placed(new) /\ new.size = old.size
      /\ \A x \in Entries(new) : \E y \in Entries(old) : y.key = x.key
  BY DEF Thinned, GoodHT
<1>2. SUFFICES ASSUME NEW x \in new.table[i] PROVE FALSE
  OBVIOUS
<1>3. x \in Entries(new) /\ Slot(new, x.key) = i
  BY <1>1, <1>2, InItsChain
<1>4. PICK y \in Entries(old) : y.key = x.key
  BY <1>1, <1>3
<1>5. Slot(old, y.key) = i
  BY <1>1, <1>3, <1>4 DEF Slot
<1>6. y \in old.table[i]
  BY <1>1, <1>4, <1>5, InItsChain
<1>7. QED
  BY <1>6

\* A change of that kind in either table keeps the Dict good.
LEMMA Change0 ==
  ASSUME NEW d, NEW ht, NEW new, GoodDict(d), Thinned(ht, d.ht0), new = With0(d, ht)
  PROVE  GoodDict(new) /\ Contents(new) = Entries(ht) \cup Entries(d.ht1)
<1>1. /\ IsDict(d) /\ IsHT(d.ht1) /\ GoodHT(d.ht0) /\ GoodHT(d.ht1)
      /\ RehashShape(d) /\ OneEntryPerKey(d) /\ d.rehashidx \in Int
      /\ GoodHT(ht) /\ IsHT(ht) /\ ht.size = d.ht0.size /\ d.ht0.size \in Nat
  BY SizesPositive DEF GoodDict, GoodHT, IsDict, IsHT, Thinned
<1>2. /\ IsDict(new) /\ new.ht0 = ht /\ new.ht1 = d.ht1
      /\ new.rehashidx = d.rehashidx
  <2>1. IsWith(new, d, ht, d.ht1, d.rehashidx)
    BY <1>1 DEF IsWith, With0
  <2>2. QED
    BY <2>1, WithFields
<1>3. Contents(new) = Entries(ht) \cup Entries(d.ht1)
  BY <1>2 DEF Contents
<1>4. RehashShape(new)
  <2>1. CASE IsRehashing(d)
    <3>1. \A i \in 0..(d.rehashidx - 1) : ht.table[i] = {}
      <4>1. \A i \in 0..(d.rehashidx - 1) : i \in 0..(d.ht0.size - 1)
                                            /\ d.ht0.table[i] = {}
        BY <1>1, <2>1 DEF RehashShape
      <4>2. QED
        BY <4>1, StillEmpty
    <3>2. QED
      BY <1>1, <1>2, <2>1, <3>1 DEF RehashShape, IsRehashing
  <2>2. CASE ~ IsRehashing(d)
    BY <1>1, <1>2, <2>2 DEF RehashShape, IsRehashing
  <2>3. QED
    BY <2>1, <2>2
<1>5. ASSUME NEW x \in Entries(ht), NEW y \in Entries(d.ht1) PROVE x.key # y.key
  <2>1. PICK z \in Entries(d.ht0) : z.key = x.key
    BY DEF Thinned
  <2>2. QED
    BY <1>1, <2>1 DEF OneEntryPerKey, Contents
<1>6. OneEntryPerKey(new)
  <2>1. \A x, y \in Entries(ht) : x.key = y.key => x = y
    BY DEF Thinned
  <2>2. \A x, y \in Entries(d.ht1) : x.key = y.key => x = y
    BY <1>1 DEF OneEntryPerKey, Contents
  <2>3. QED
    BY <1>2, <1>3, <1>5, <2>1, <2>2 DEF OneEntryPerKey
<1>7. QED
  BY <1>1, <1>2, <1>3, <1>4, <1>6 DEF GoodDict

LEMMA Change1 ==
  ASSUME NEW d, NEW ht, NEW new, GoodDict(d), IsRehashing(d),
         Thinned(ht, d.ht1), new = With1(d, ht)
  PROVE  GoodDict(new) /\ Contents(new) = Entries(d.ht0) \cup Entries(ht)
<1>1. /\ IsDict(d) /\ IsHT(d.ht0) /\ GoodHT(d.ht0) /\ GoodHT(d.ht1)
      /\ RehashShape(d) /\ OneEntryPerKey(d) /\ d.rehashidx \in Int
      /\ GoodHT(ht) /\ IsHT(ht) /\ ht.size = d.ht1.size
  BY DEF GoodDict, GoodHT, IsDict, Thinned
<1>2. /\ IsDict(new) /\ new.ht0 = d.ht0 /\ new.ht1 = ht
      /\ new.rehashidx = d.rehashidx
  <2>1. IsWith(new, d, d.ht0, ht, d.rehashidx)
    BY <1>1 DEF IsWith, With1
  <2>2. QED
    BY <2>1, WithFields
<1>3. Contents(new) = Entries(d.ht0) \cup Entries(ht)
  BY <1>2 DEF Contents
<1>4. RehashShape(new)
  BY <1>1, <1>2 DEF RehashShape, IsRehashing
<1>5. ASSUME NEW x \in Entries(ht), NEW y \in Entries(d.ht0) PROVE x.key # y.key
  <2>1. PICK z \in Entries(d.ht1) : z.key = x.key
    BY DEF Thinned
  <2>2. QED
    BY <1>1, <2>1 DEF OneEntryPerKey, Contents
<1>6. OneEntryPerKey(new)
  <2>1. \A x, y \in Entries(ht) : x.key = y.key => x = y
    BY DEF Thinned
  <2>2. \A x, y \in Entries(d.ht0) : x.key = y.key => x = y
    BY <1>1 DEF OneEntryPerKey, Contents
  <2>3. QED
    BY <1>2, <1>3, <1>5, <2>1, <2>2 DEF OneEntryPerKey
<1>7. QED
  BY <1>1, <1>2, <1>3, <1>4, <1>6 DEF GoodDict

\* The test by which dictDelete and dictReplace pick the table of an entry.
LEMMA WhichTable ==
  ASSUME NEW d, GoodDict(d), NEW e \in Contents(d)
  PROVE  /\ e \in Entry
         /\ e \in Matches(d.ht0, e.key) <=> e \in Entries(d.ht0)
         /\ e \notin Entries(d.ht0) => e \in Entries(d.ht1) /\ IsRehashing(d)
         /\ \A f \in Contents(d) : f.key = e.key => f = e
<1>1. /\ IsHT(d.ht0) /\ Placed(d.ht0) /\ IsHT(d.ht1) /\ Placed(d.ht1)
      /\ OneEntryPerKey(d)
  BY DEF GoodDict, GoodHT
<1>2. e \in Entry
  BY <1>1, InItsChain DEF Contents
<1>3. d.ht0.size # 0
  BY EmptySecondTable DEF Contents
<1>4. Slot(d.ht0, e.key) \in 0..(d.ht0.size - 1)
  BY <1>1, <1>2, <1>3, SlotInRange DEF Entry
<1>5. e \in Matches(d.ht0, e.key) <=> e \in Entries(d.ht0)
  BY <1>1, <1>4, InItsChain DEF Matches
<1>6. QED
  BY <1>1, <1>2, <1>5, EmptySecondTable DEF Contents, OneEntryPerKey

\* dictDelete removes the entry it found and nothing else.
LEMMA RemoveGood ==
  ASSUME NEW d, GoodDict(d), NEW e \in Contents(d)
  PROVE  GoodDict(Remove(d, e)) /\ Contents(Remove(d, e)) = Contents(d) \ {e}
<1>1. /\ GoodHT(d.ht0) /\ GoodHT(d.ht1) /\ OneEntryPerKey(d)
  BY DEF GoodDict
<1>2. ASSUME NEW ht, GoodHT(ht), e \in Entries(ht), Entries(ht) \subseteq Contents(d)
      PROVE  Thinned(Drop(ht, e), ht) /\ Entries(Drop(ht, e)) = Entries(ht) \ {e}
  <2>1. /\ GoodHT(Drop(ht, e)) /\ Drop(ht, e).size = ht.size
        /\ Entries(Drop(ht, e)) = Entries(ht) \ {e}
    BY <1>2, DropGood
  <2>2. QED
    BY <1>1, <1>2, <2>1 DEF Thinned, OneEntryPerKey
<1>3. CASE e \in Entries(d.ht0)
  <2>1. Remove(d, e) = With0(d, Drop(d.ht0, e))
    BY <1>3, WhichTable DEF Remove
  <2>2. Thinned(Drop(d.ht0, e), d.ht0) /\ Entries(Drop(d.ht0, e)) = Entries(d.ht0) \ {e}
    BY <1>1, <1>2, <1>3 DEF Contents
  <2>3. /\ GoodDict(Remove(d, e))
        /\ Contents(Remove(d, e)) = Entries(Drop(d.ht0, e)) \cup Entries(d.ht1)
    BY <2>1, <2>2, Change0
  <2>4. e \notin Entries(d.ht1)
    BY <1>1, <1>3 DEF OneEntryPerKey
  <2>5. QED
    BY <2>2, <2>3, <2>4 DEF Contents
<1>4. CASE e \notin Entries(d.ht0)
  <2>1. Remove(d, e) = With1(d, Drop(d.ht1, e))
    BY <1>4, WhichTable DEF Remove
  <2>2. Thinned(Drop(d.ht1, e), d.ht1) /\ Entries(Drop(d.ht1, e)) = Entries(d.ht1) \ {e}
    BY <1>1, <1>2, <1>4, WhichTable DEF Contents
  <2>3. /\ GoodDict(Remove(d, e))
        /\ Contents(Remove(d, e)) = Entries(d.ht0) \cup Entries(Drop(d.ht1, e))
    BY <1>4, <2>1, <2>2, WhichTable, Change1
  <2>4. QED
    BY <1>4, <2>2, <2>3 DEF Contents
<1>5. QED
  BY <1>3, <1>4

\* dictReplace changes the value of the entry it found and nothing else.
LEMMA UpdateGood ==
  ASSUME NEW d, GoodDict(d), NEW e \in Contents(d), NEW v \in Val
  PROVE  /\ GoodDict(Update(d, e, v))
         /\ Contents(Update(d, e, v)) =
              (Contents(d) \ {e}) \cup {[key |-> e.key, val |-> v]}
<1> DEFINE f == [key |-> e.key, val |-> v]
<1>1. /\ GoodHT(d.ht0) /\ GoodHT(d.ht1) /\ OneEntryPerKey(d) /\ f.key = e.key
  BY DEF GoodDict
<1> HIDE DEF f
<1>2. ASSUME NEW ht, GoodHT(ht), e \in Entries(ht), Entries(ht) \subseteq Contents(d)
      PROVE  /\ Thinned(SetVal(ht, e, v), ht)
             /\ Entries(SetVal(ht, e, v)) = (Entries(ht) \ {e}) \cup {f}
  <2>1. \A x, y \in Entries(ht) : x.key = y.key => x = y
    BY <1>1, <1>2 DEF OneEntryPerKey
  <2>2. /\ GoodHT(SetVal(ht, e, v)) /\ SetVal(ht, e, v).size = ht.size
        /\ Entries(SetVal(ht, e, v)) = (Entries(ht) \ {e}) \cup {f}
    BY <1>2, <2>1, SetValGood DEF f
  <2>3. QED
    BY <1>1, <1>2, <2>1, <2>2 DEF Thinned
<1>3. CASE e \in Entries(d.ht0)
  <2>1. Update(d, e, v) = With0(d, SetVal(d.ht0, e, v))
    BY <1>3, WhichTable DEF Update
  <2>2. /\ Thinned(SetVal(d.ht0, e, v), d.ht0)
        /\ Entries(SetVal(d.ht0, e, v)) = (Entries(d.ht0) \ {e}) \cup {f}
    BY <1>1, <1>2, <1>3 DEF Contents
  <2>3. /\ GoodDict(Update(d, e, v))
        /\ Contents(Update(d, e, v)) = Entries(SetVal(d.ht0, e, v)) \cup Entries(d.ht1)
    BY <2>1, <2>2, Change0
  <2>4. e \notin Entries(d.ht1)
    BY <1>1, <1>3 DEF OneEntryPerKey
  <2>5. QED
    BY <2>2, <2>3, <2>4 DEF Contents, f
<1>4. CASE e \notin Entries(d.ht0)
  <2>1. Update(d, e, v) = With1(d, SetVal(d.ht1, e, v))
    BY <1>4, WhichTable DEF Update
  <2>2. /\ Thinned(SetVal(d.ht1, e, v), d.ht1)
        /\ Entries(SetVal(d.ht1, e, v)) = (Entries(d.ht1) \ {e}) \cup {f}
    BY <1>1, <1>2, <1>4, WhichTable DEF Contents
  <2>3. /\ GoodDict(Update(d, e, v))
        /\ Contents(Update(d, e, v)) = Entries(d.ht0) \cup Entries(SetVal(d.ht1, e, v))
    BY <1>4, <2>1, <2>2, WhichTable, Change1
  <2>4. QED
    BY <1>4, <2>2, <2>3 DEF Contents, f
<1>5. QED
  BY <1>3, <1>4

\* A Dict with no tables, as dictCreate and dictEmpty leave it.
EmptyDict == [ht0 |-> NewHT(0), ht1 |-> NewHT(0), rehashidx |-> -1, iterators |-> 0]

LEMMA EmptyDictGood == GoodDict(EmptyDict) /\ Contents(EmptyDict) = {}
<1>1. GoodHT(NewHT(0)) /\ IsHT(NewHT(0)) /\ Entries(NewHT(0)) = {}
  BY NewHTGood DEF GoodHT
<1>2. /\ EmptyDict.ht0 = NewHT(0) /\ EmptyDict.ht1 = NewHT(0)
      /\ EmptyDict.rehashidx = -1 /\ IsDict(EmptyDict)
  BY <1>1 DEF EmptyDict, IsDict
<1>3. QED
  BY <1>1, <1>2
  DEF GoodDict, RehashShape, IsRehashing, OneEntryPerKey, Contents

\* Iterators come and go without a change to the tables.
LEMMA CountIterators ==
  ASSUME NEW d, GoodDict(d), NEW n \in Int, NEW e, e = [d EXCEPT !.iterators = n]
  PROVE  GoodDict(e) /\ Contents(e) = Contents(d)
<1>1. d = [ht0 |-> d.ht0, ht1 |-> d.ht1,
           rehashidx |-> d.rehashidx, iterators |-> d.iterators]
  BY DEF GoodDict, IsDict
<1>2. /\ e = [ht0 |-> e.ht0, ht1 |-> e.ht1,
              rehashidx |-> e.rehashidx, iterators |-> e.iterators]
      /\ e.ht0 = d.ht0 /\ e.ht1 = d.ht1 /\ e.rehashidx = d.rehashidx
      /\ e.iterators = n
  BY <1>1
<1>3. QED
  BY <1>2
  DEF GoodDict, IsDict, RehashShape, IsRehashing, OneEntryPerKey, Contents

-----------------------------------------------------------------------------
(* Every call keeps the invariant.                                         *)

Inv == /\ GoodDict(dict)
       /\ canResize \in BOOLEAN
       /\ live \in 0..MaxIterators

LEMMA InitInv == Init => Inv
<1> SUFFICES ASSUME Init PROVE Inv
  OBVIOUS
<1>1. dict = EmptyDict
  BY DEF Init, EmptyDict
<1>2. QED
  BY <1>1, EmptyDictGood, DictAssumption DEF Init, Inv

\* Adding a key that is not there, after making room for it.
LEMMA AddGood ==
  ASSUME NEW d, GoodDict(d), NEW k \in Key, NEW v \in Val,
         Lookup(ExpandIfNeeded(d), k) = {}
  PROVE  GoodDict(Insert(ExpandIfNeeded(d), [key |-> k, val |-> v]))
<1> DEFINE room == ExpandIfNeeded(d)
           e == [key |-> k, val |-> v]
<1>1. GoodDict(room) /\ room.ht0.size # 0
  BY RoomGood
<1>2. e \in Entry /\ e.key = k
  BY DEF Entry
<1> HIDE DEF room, e
<1>3. Lookup(room, k) = {}
  BY DEF room
<1>4. \A f \in Contents(room) : f.key # e.key
  BY <1>1, <1>2, <1>3, LookupFinds
<1>5. GoodDict(Insert(room, e))
  BY <1>1, <1>2, <1>4, InsertGood
<1>6. QED
  BY <1>5 DEF room, e

LEMMA StepInv == Inv /\ [Next]_vars => Inv'
<1> SUFFICES ASSUME Inv, [Next]_vars PROVE Inv'
  OBVIOUS
<1> USE DEF Inv
<1>1. ASSUME NEW k \in Key, NEW v \in Val, dictAdd(k, v) PROVE Inv'
  <2>1. PICK d \in RehashStep(dict) :
          /\ dict' \in {Insert(ExpandIfNeeded(d), [key |-> k, val |-> v]),
                        ExpandIfNeeded(d)}
          /\ dict' # ExpandIfNeeded(d) => Lookup(ExpandIfNeeded(d), k) = {}
          /\ UNCHANGED <<canResize, live>>
    BY <1>1 DEF dictAdd
  <2>2. GoodDict(d)
    BY RehashStepGood
  <2>3. GoodDict(dict')
    BY <2>1, <2>2, AddGood, RoomGood
  <2>4. QED
    BY <2>1, <2>3
<1>2. ASSUME NEW k \in Key, NEW v \in Val, dictReplace(k, v) PROVE Inv'
  <2>1. PICK d \in RehashStep(dict) :
          /\ \/ /\ Lookup(ExpandIfNeeded(d), k) = {}
                /\ dict' = Insert(ExpandIfNeeded(d), [key |-> k, val |-> v])
             \/ \E f \in RehashStep(ExpandIfNeeded(d)) : \E e \in Lookup(f, k) :
                  dict' = Update(f, e, v)
          /\ UNCHANGED <<canResize, live>>
    BY <1>2 DEF dictReplace
  <2>2. GoodDict(d)
    BY RehashStepGood
  <2>3. CASE /\ Lookup(ExpandIfNeeded(d), k) = {}
             /\ dict' = Insert(ExpandIfNeeded(d), [key |-> k, val |-> v])
    BY <2>1, <2>2, <2>3, AddGood
  <2>4. ASSUME NEW f \in RehashStep(ExpandIfNeeded(d)), NEW e \in Lookup(f, k),
               dict' = Update(f, e, v)
        PROVE  Inv'
    <3>1. GoodDict(ExpandIfNeeded(d))
      BY <2>2, RoomGood
    <3>2. GoodDict(f)
      BY <3>1, RehashStepGood
    <3>3. e \in Contents(f)
      BY <3>2, LookupFinds
    <3>4. QED
      BY <2>1, <2>4, <3>2, <3>3, UpdateGood
  <2>5. QED
    BY <2>1, <2>3, <2>4
<1>3. ASSUME NEW k \in Key, dictDelete(k) PROVE Inv'
  <2>1. PICK d \in RehashStep(dict) :
          /\ dict' = d \/ \E e \in Lookup(d, k) : dict' = Remove(d, e)
          /\ UNCHANGED <<canResize, live>>
    BY <1>3 DEF dictDelete
  <2>2. GoodDict(d)
    BY RehashStepGood
  <2>3. ASSUME NEW e \in Lookup(d, k) PROVE GoodDict(Remove(d, e))
    BY <2>2, LookupFinds, RemoveGood
  <2>4. QED
    BY <2>1, <2>2, <2>3
<1>4. ASSUME NEW k \in Key, dictFind(k) PROVE Inv'
  BY <1>4, RehashStepGood DEF dictFind
<1>5. ASSUME dictGetRandomKey PROVE Inv'
  BY <1>5, RehashStepGood DEF dictGetRandomKey
<1>6. ASSUME NEW n \in Sizes, dictExpand(n) PROVE Inv'
  <2>1. n \in 0..MaxSize
    BY DictAssumption
  <2>2. QED
    BY <1>6, <2>1, ExpandGood DEF dictExpand
<1>7. ASSUME dictResize PROVE Inv'
  <2> DEFINE least == IF dict.ht0.used < DICT_HT_INITIAL_SIZE
                      THEN DICT_HT_INITIAL_SIZE ELSE dict.ht0.used
  <2>1. least \in 0..MaxSize
    BY UsedBound, DictAssumption
  <2>2. dict' \in {dict, Expand(dict, least)} /\ UNCHANGED <<canResize, live>>
    BY <1>7 DEF dictResize
  <2> HIDE DEF least
  <2>3. QED
    BY <2>1, <2>2, ExpandGood
<1>8. ASSUME dictRehashMilliseconds PROVE Inv'
  <2>1. PICK j \in dict.rehashidx..dict.ht0.size : dict' = RehashTo(dict, j)
    BY <1>8 DEF dictRehashMilliseconds, Rehashed, RehashStops
  <2>2. QED
    BY <1>8, <2>1, RehashToGood DEF dictRehashMilliseconds
<1>9. ASSUME dictEmpty PROVE Inv'
  BY <1>9, EmptyDictGood DEF dictEmpty, EmptyDict
<1>10. ASSUME NEW on \in BOOLEAN, dictSetResize(on) PROVE Inv'
  BY <1>10 DEF dictSetResize
<1>11. ASSUME startSafeIterator \/ dictReleaseIterator PROVE Inv'
  <2>1. PICK n \in Int : dict' = [dict EXCEPT !.iterators = n]
    BY <1>11 DEF startSafeIterator, dictReleaseIterator, GoodDict, IsDict
  <2>2. GoodDict(dict')
    BY <2>1, CountIterators
  <2>3. live' \in 0..MaxIterators /\ canResize' \in BOOLEAN
    BY <1>11, DictAssumption DEF startSafeIterator, dictReleaseIterator
  <2>4. QED
    BY <2>2, <2>3
<1>12. CASE UNCHANGED vars
  BY <1>12 DEF vars
<1>13. QED
  BY <1>1, <1>2, <1>3, <1>4, <1>5, <1>6, <1>7, <1>8, <1>9, <1>10, <1>11, <1>12
  DEF Next

\* The invariant holds in every reachable state, for every set of keys and
\* every hash function.
THEOREM Invariance == Spec => []Inv
BY InitInv, StepInv, PTL DEF Spec

-----------------------------------------------------------------------------
(* What the invariant is for.                                              *)

\* Every reachable Dict has the shape dict.h declares (TypeOK).
THEOREM TypeCorrect == Spec => []TypeOK
<1>1. Inv => TypeOK
  BY DEF Inv, GoodDict, TypeOK
<1>2. QED
  BY <1>1, Invariance, PTL

\* `used' counts the entries of each table exactly (UsedExact), which the load
\* factor, dictSize and the end of a rehash rely on.
THEOREM UsedIsExact == Spec => []UsedExact
<1>1. Inv => UsedExact
  BY DEF Inv, GoodDict, GoodHT, UsedExact
<1>2. QED
  BY <1>1, Invariance, PTL

\* A lookup finds every entry at every point of a rehash (NothingLost).
THEOREM LookupsComplete == Spec => []NothingLost
<1>1. Inv => NothingLost
  <2> SUFFICES ASSUME Inv, NEW e \in Contents(dict)
               PROVE  Lookup(dict, e.key) = {e}
    BY DEF NothingLost
  <2>1. GoodDict(dict)
    BY DEF Inv
  <2>2. e.key \in Key /\ \A f \in Contents(dict) : f.key = e.key => f = e
    BY <2>1, WhichTable DEF Entry
  <2>3. Lookup(dict, e.key) = { f \in Contents(dict) : f.key = e.key }
    BY <2>1, <2>2, LookupFinds
  <2>4. QED
    BY <2>2, <2>3
<1>2. QED
  BY <1>1, Invariance, PTL

\* The assertion of dictRehash never fails and its scan for the next bucket
\* ends inside the table (RehashIndexInRange).
THEOREM RehashScanEnds == Spec => []RehashIndexInRange
<1>1. Inv => RehashIndexInRange
  <2> SUFFICES ASSUME Inv, IsRehashing(dict), dict.ht0.used # 0
               PROVE  \E i \in dict.rehashidx..(dict.ht0.size - 1) :
                        dict.ht0.table[i] # {}
    BY DEF RehashIndexInRange
  <2>1. /\ GoodHT(dict.ht0) /\ RehashShape(dict) /\ IsHT(dict.ht0)
        /\ dict.ht0.size \in Nat
    BY SizesPositive DEF Inv, GoodDict, GoodHT, IsHT
  <2>2. Entries(dict.ht0) # {}
    BY <2>1, FS_EmptySet DEF GoodHT, Counted
  <2>3. PICK i \in 0..(dict.ht0.size - 1) : dict.ht0.table[i] # {}
    BY <2>2, InEntries
  <2>4. i >= dict.rehashidx
    BY <2>1, <2>3 DEF RehashShape
  <2>5. QED
    BY <2>1, <2>3, <2>4 DEF RehashShape
<1>2. QED
  BY <1>1, Invariance, PTL

\* The buckets dictGetRandomKey draws from hold every entry.
LEMMA CandidatesAll ==
  ASSUME NEW d, GoodDict(d)
  PROVE  /\ Candidates(d) = Contents(d)
         /\ Contents(d) = {} => dictSize(d) = 0
<1>1. /\ GoodHT(d.ht0) /\ GoodHT(d.ht1)
      /\ RehashShape(d) /\ d.ht0.size \in Nat
  BY SizesPositive DEF GoodDict, GoodHT, IsHT
<1>2. CASE IsRehashing(d)
  <2>1. ASSUME NEW e
        PROVE  e \in Unmoved(d) <=>
                 \E i \in d.rehashidx..(d.ht0.size - 1) : e \in d.ht0.table[i]
    BY DEF Unmoved
  <2>2. ASSUME NEW e \in Entries(d.ht0) PROVE e \in Unmoved(d)
    <3>1. PICK i \in 0..(d.ht0.size - 1) : e \in d.ht0.table[i]
      BY InEntries
    <3>2. i >= d.rehashidx
      BY <1>1, <1>2, <3>1 DEF RehashShape
    <3>3. i \in d.rehashidx..(d.ht0.size - 1)
      BY <1>1, <1>2, <3>2 DEF RehashShape
    <3>4. QED
      BY <2>1, <3>1, <3>3
  <2>3. ASSUME NEW e \in Unmoved(d) PROVE e \in Entries(d.ht0)
    <3>1. PICK i \in d.rehashidx..(d.ht0.size - 1) : e \in d.ht0.table[i]
      BY <2>1
    <3>2. i \in 0..(d.ht0.size - 1)
      BY <1>1, <1>2 DEF RehashShape
    <3>3. QED
      BY <3>1, <3>2, InEntries
  <2>4. Candidates(d) = Unmoved(d) \cup Entries(d.ht1)
    BY <1>2 DEF Candidates
  <2>5. Candidates(d) = Contents(d)
    BY <2>2, <2>3, <2>4 DEF Contents
  <2>6. QED
    BY <1>1, <2>5, FS_EmptySet DEF Contents, GoodHT, Counted, dictSize
<1>3. CASE ~ IsRehashing(d)
  <2>1. Candidates(d) = Contents(d)
    BY <1>3, EmptySecondTable DEF Candidates, Contents
  <2>2. QED
    BY <1>1, <2>1, FS_EmptySet DEF Contents, GoodHT, Counted, dictSize
<1>4. QED
  BY <1>2, <1>3

\* dictSize is 0 only for a Dict with no entries.
LEMMA NoneCounted ==
  ASSUME NEW d, GoodDict(d), dictSize(d) = 0
  PROVE  Contents(d) = {}
<1>1. /\ IsFiniteSet(Entries(d.ht0)) /\ d.ht0.used = Cardinality(Entries(d.ht0))
      /\ IsFiniteSet(Entries(d.ht1)) /\ d.ht1.used = Cardinality(Entries(d.ht1))
      /\ d.ht0.used \in Nat /\ d.ht1.used \in Nat
  BY DEF GoodDict, GoodHT, Counted, IsHT
<1>2. d.ht0.used = 0 /\ d.ht1.used = 0
  BY <1>1 DEF dictSize
<1>3. QED
  BY <1>1, <1>2, FS_EmptySet DEF Contents

\* dictGetRandomKey can answer with any entry and does not loop on a Dict that
\* is not empty (EveryEntryDrawn).
THEOREM DrawsFromAll == Spec => []EveryEntryDrawn
<1>1. Inv => EveryEntryDrawn
  BY CandidatesAll DEF Inv, EveryEntryDrawn
<1>2. QED
  BY <1>1, Invariance, PTL

-----------------------------------------------------------------------------
(* The Dict implements the map of dict.h.                                  *)

\* The abstract value of a key is that of its entry, NoVal when it has none.
LEMMA ValueOfEntry ==
  ASSUME NEW d, GoodDict(d), NEW k \in Key
  PROVE  /\ \A e \in Contents(d) : e.key = k =>
              ValueOf(d, k) = e.val /\ ValueOf(d, k) # NoVal
         /\ (\A e \in Contents(d) : e.key # k) => ValueOf(d, k) = NoVal
<1>1. ASSUME NEW e \in Contents(d), e.key = k
      PROVE  ValueOf(d, k) = e.val /\ ValueOf(d, k) # NoVal
  <2>1. e \in Entry /\ \A f \in Contents(d) : f.key = k => f = e
    BY <1>1, WhichTable
  <2>2. (CHOOSE f \in Contents(d) : f.key = k) = e
    BY <1>1, <2>1
  <2>3. QED
    BY <1>1, <2>1, <2>2, DictAssumption DEF ValueOf, Entry
<1>2. QED
  BY <1>1 DEF ValueOf

AbsMap(d) == [k \in Key |-> ValueOf(d, k)]

\* Rehashing, resizing and iterating are invisible.
LEMMA SameMap ==
  ASSUME NEW d, NEW e, Contents(d) = Contents(e)
  PROVE  AbsMap(d) = AbsMap(e)
BY DEF AbsMap, ValueOf

\* An answer that is a key's value.
LEMMA LookupValue ==
  ASSUME NEW d, GoodDict(d), NEW k \in Key
  PROVE  /\ Lookup(d, k) = {} => AbsMap(d)[k] = NoVal
         /\ \A e \in Lookup(d, k) : /\ AbsMap(d)[k] = e.val /\ e.val # NoVal
                                    /\ e \in Contents(d) /\ e.key = k
<1>1. Lookup(d, k) = { e \in Contents(d) : e.key = k }
  BY LookupFinds
<1>2. AbsMap(d)[k] = ValueOf(d, k)
  BY DEF AbsMap
<1>3. QED
  BY <1>1, <1>2, ValueOfEntry

\* Entries added, changed and removed are the abstract map's updates.
LEMMA MapUpdates ==
  ASSUME NEW d, NEW e, GoodDict(d), GoodDict(e), NEW k \in Key,
         \A x : x.key # k => (x \in Contents(d) <=> x \in Contents(e))
  PROVE  AbsMap(e) = [AbsMap(d) EXCEPT ![k] = ValueOf(e, k)]
<1>1. ASSUME NEW q \in Key, q # k PROVE ValueOf(e, q) = ValueOf(d, q)
  <2>1. CASE \E x \in Contents(d) : x.key = q
    <3>1. PICK x \in Contents(d) : x.key = q
      BY <2>1
    <3>2. x \in Contents(e)
      BY <1>1, <3>1
    <3>3. QED
      BY <3>1, <3>2, ValueOfEntry
  <2>2. CASE \A x \in Contents(d) : x.key # q
    <3>1. \A x \in Contents(e) : x.key # q
      BY <1>1, <2>2
    <3>2. QED
      BY <2>2, <3>1, ValueOfEntry
  <2>3. QED
    BY <2>1, <2>2
<1>2. QED
  BY <1>1 DEF AbsMap

\* The new entry under its key.
LEMMA MapInsert ==
  ASSUME NEW d, GoodDict(d), NEW k \in Key, NEW v \in Val,
         Lookup(ExpandIfNeeded(d), k) = {}
  PROVE  LET e == Insert(ExpandIfNeeded(d), [key |-> k, val |-> v])
         IN  /\ AbsMap(d)[k] = NoVal
             /\ AbsMap(e) = [AbsMap(d) EXCEPT ![k] = v]
<1> DEFINE room == ExpandIfNeeded(d)
           f == [key |-> k, val |-> v]
           e == Insert(room, f)
<1>1. GoodDict(room) /\ room.ht0.size # 0 /\ Contents(room) = Contents(d)
  BY RoomGood
<1>2. f \in Entry /\ f.key = k /\ f.val = v
  BY DEF Entry
<1> HIDE DEF room, f
<1>3. Lookup(room, k) = {}
  BY DEF room
<1>4. \A x \in Contents(room) : x.key # k
  BY <1>1, <1>3, LookupFinds
<1>5. GoodDict(e) /\ Contents(e) = Contents(d) \cup {f}
  BY <1>1, <1>2, <1>4, InsertGood
<1>6. AbsMap(d)[k] = NoVal
  BY <1>1, <1>3, LookupValue, SameMap
<1> HIDE DEF e
<1>7. ValueOf(e, k) = v
  BY <1>2, <1>5, ValueOfEntry
<1>8. AbsMap(e) = [AbsMap(d) EXCEPT ![k] = v]
  BY <1>2, <1>5, <1>7, MapUpdates
<1>9. QED
  BY <1>6, <1>8 DEF e, f, room

\* The new value under its key.
LEMMA MapReplace ==
  ASSUME NEW d, GoodDict(d), NEW k \in Key, NEW v \in Val, NEW e \in Lookup(d, k)
  PROVE  /\ GoodDict(Update(d, e, v)) /\ AbsMap(d)[k] # NoVal
         /\ AbsMap(Update(d, e, v)) = [AbsMap(d) EXCEPT ![k] = v]
<1> DEFINE f == [key |-> e.key, val |-> v]
           new == Update(d, e, v)
<1>1. e \in Contents(d) /\ e.key = k /\ AbsMap(d)[k] # NoVal
  BY LookupValue
<1>2. GoodDict(new) /\ Contents(new) = (Contents(d) \ {e}) \cup {f}
  BY <1>1, UpdateGood
<1>3. f.key = k /\ f.val = v
  BY <1>1
<1> HIDE DEF f, new
<1>4. ValueOf(new, k) = v
  BY <1>2, <1>3, ValueOfEntry
<1>5. AbsMap(new) = [AbsMap(d) EXCEPT ![k] = v]
  BY <1>1, <1>2, <1>3, <1>4, MapUpdates
<1>6. QED
  BY <1>1, <1>2, <1>5 DEF new

\* No value under the key removed.
LEMMA MapRemove ==
  ASSUME NEW d, GoodDict(d), NEW k \in Key, NEW e \in Lookup(d, k)
  PROVE  /\ AbsMap(d)[k] # NoVal
         /\ AbsMap(Remove(d, e)) = [AbsMap(d) EXCEPT ![k] = NoVal]
<1> DEFINE new == Remove(d, e)
<1>1. e \in Contents(d) /\ e.key = k /\ AbsMap(d)[k] # NoVal
  BY LookupValue
<1>2. GoodDict(new) /\ Contents(new) = Contents(d) \ {e}
  BY <1>1, RemoveGood
<1> HIDE DEF new
<1>3. \A x \in Contents(new) : x.key # k
  BY <1>1, <1>2, WhichTable
<1>4. ValueOf(new, k) = NoVal
  BY <1>2, <1>3, ValueOfEntry
<1>5. AbsMap(new) = [AbsMap(d) EXCEPT ![k] = NoVal]
  BY <1>1, <1>2, <1>4, MapUpdates
<1>6. QED
  BY <1>1, <1>5 DEF new

\* Every call answers, and changes the map, as KeyValueMap allows.
LEMMA StepMaps == Inv /\ [Next]_vars => [Map!Next]_(Map!vars)
<1> SUFFICES ASSUME Inv, [Next]_vars PROVE [Map!Next]_(Map!vars)
  OBVIOUS
<1> DEFINE m == AbsMap(dict)
           n == AbsMap(dict')
<1>0. /\ GoodDict(dict)
      /\ m = [k \in Key |-> ValueOf(dict, k)]
      /\ n = [k \in Key |-> ValueOf(dict', k)]
      /\ \A k \in Key : Map!Present(k) <=> m[k] # NoVal
  BY DEF Inv, AbsMap, Map!Present
<1> HIDE DEF m, n
<1>1. ASSUME NEW k \in Key, NEW v \in Val, dictAdd(k, v) PROVE Map!Add(k, v)
  <2>1. PICK d \in RehashStep(dict) :
          \/ /\ Lookup(ExpandIfNeeded(d), k) = {}
             /\ dict' = Insert(ExpandIfNeeded(d), [key |-> k, val |-> v])
             /\ ret' = <<"add", k, "DICT_OK">>
          \/ /\ Lookup(ExpandIfNeeded(d), k) # {}
             /\ dict' = ExpandIfNeeded(d)
             /\ ret' = <<"add", k, "DICT_ERR">>
    BY <1>1 DEF dictAdd
  <2>2. GoodDict(d) /\ AbsMap(d) = m
    BY <1>0, RehashStepGood, SameMap DEF m
  <2>3. CASE /\ Lookup(ExpandIfNeeded(d), k) = {}
             /\ dict' = Insert(ExpandIfNeeded(d), [key |-> k, val |-> v])
             /\ ret' = <<"add", k, "DICT_OK">>
    <3>1. m[k] = NoVal /\ n = [m EXCEPT ![k] = v]
      BY <2>2, <2>3, MapInsert DEF n
    <3>2. QED
      BY <1>0, <2>3, <3>1 DEF Map!Add
  <2>4. CASE /\ Lookup(ExpandIfNeeded(d), k) # {}
             /\ dict' = ExpandIfNeeded(d)
             /\ ret' = <<"add", k, "DICT_ERR">>
    <3>1. GoodDict(dict') /\ n = m
      BY <2>2, <2>4, RoomGood, SameMap DEF n
    <3>2. m[k] # NoVal
      BY <2>4, <3>1, LookupValue DEF n
    <3>3. QED
      BY <1>0, <2>4, <3>1, <3>2 DEF Map!Add
  <2>5. QED
    BY <2>1, <2>3, <2>4
<1>2. ASSUME NEW k \in Key, NEW v \in Val, dictReplace(k, v) PROVE Map!Replace(k, v)
  <2>1. PICK d \in RehashStep(dict) :
          \/ /\ Lookup(ExpandIfNeeded(d), k) = {}
             /\ dict' = Insert(ExpandIfNeeded(d), [key |-> k, val |-> v])
             /\ ret' = <<"replace", k, 1>>
          \/ /\ \E f \in RehashStep(ExpandIfNeeded(d)) : \E e \in Lookup(f, k) :
                  dict' = Update(f, e, v)
             /\ ret' = <<"replace", k, 0>>
    BY <1>2 DEF dictReplace
  <2>2. GoodDict(d) /\ AbsMap(d) = m
    BY <1>0, RehashStepGood, SameMap DEF m
  <2>3. CASE /\ Lookup(ExpandIfNeeded(d), k) = {}
             /\ dict' = Insert(ExpandIfNeeded(d), [key |-> k, val |-> v])
             /\ ret' = <<"replace", k, 1>>
    <3>1. m[k] = NoVal /\ n = [m EXCEPT ![k] = v]
      BY <2>2, <2>3, MapInsert DEF n
    <3>2. QED
      BY <1>0, <2>3, <3>1 DEF Map!Replace
  <2>4. ASSUME NEW f \in RehashStep(ExpandIfNeeded(d)), NEW e \in Lookup(f, k),
               dict' = Update(f, e, v), ret' = <<"replace", k, 0>>
        PROVE  Map!Replace(k, v)
    <3>1. GoodDict(ExpandIfNeeded(d)) /\ AbsMap(ExpandIfNeeded(d)) = m
      BY <2>2, RoomGood, SameMap
    <3>2. GoodDict(f) /\ AbsMap(f) = m
      BY <3>1, RehashStepGood, SameMap
    <3>3. m[k] # NoVal /\ n = [m EXCEPT ![k] = v]
      BY <2>4, <3>2, MapReplace DEF n
    <3>4. QED
      BY <1>0, <2>4, <3>3 DEF Map!Replace
  <2>5. QED
    BY <2>1, <2>3, <2>4
<1>3. ASSUME NEW k \in Key, dictDelete(k) PROVE Map!Delete(k)
  <2>1. PICK d \in RehashStep(dict) :
          \/ /\ Lookup(d, k) = {} /\ dict' = d
             /\ ret' = <<"delete", k, "DICT_ERR">>
          \/ /\ \E e \in Lookup(d, k) : dict' = Remove(d, e)
             /\ ret' = <<"delete", k, "DICT_OK">>
    BY <1>3 DEF dictDelete
  <2>2. GoodDict(d) /\ AbsMap(d) = m
    BY <1>0, RehashStepGood, SameMap DEF m
  <2>3. CASE /\ Lookup(d, k) = {} /\ dict' = d
             /\ ret' = <<"delete", k, "DICT_ERR">>
    <3>1. m[k] = NoVal /\ n = m
      BY <2>2, <2>3, LookupValue DEF n
    <3>2. n = [m EXCEPT ![k] = NoVal]
      BY <1>0, <3>1
    <3>3. QED
      BY <1>0, <2>3, <3>1, <3>2 DEF Map!Delete
  <2>4. ASSUME NEW e \in Lookup(d, k), dict' = Remove(d, e),
               ret' = <<"delete", k, "DICT_OK">>
        PROVE  Map!Delete(k)
    <3>1. m[k] # NoVal /\ n = [m EXCEPT ![k] = NoVal]
      BY <2>2, <2>4, MapRemove DEF n
    <3>2. QED
      BY <1>0, <2>4, <3>1 DEF Map!Delete
  <2>5. QED
    BY <2>1, <2>3, <2>4
<1>4. ASSUME NEW k \in Key, dictFind(k) PROVE Map!Find(k)
  <2>1. PICK d \in RehashStep(dict) :
          /\ dict' = d
          /\ \/ Lookup(d, k) = {} /\ ret' = <<"find", k, NoVal>>
             \/ \E e \in Lookup(d, k) : ret' = <<"find", k, e.val>>
    BY <1>4 DEF dictFind
  <2>2. GoodDict(d) /\ n = m
    BY <1>0, <2>1, RehashStepGood, SameMap DEF m, n
  <2>3. ret' = <<"find", k, m[k]>>
    BY <2>1, <2>2, LookupValue DEF n
  <2>4. QED
    BY <1>0, <2>2, <2>3 DEF Map!Find
<1>5. ASSUME dictGetRandomKey PROVE Map!RandomKey
  <2>1. CASE dictSize(dict) = 0 /\ ret' = <<"random", NoVal, NoVal>> /\ dict' = dict
    <3>1. Contents(dict) = {}
      BY <1>0, <2>1, NoneCounted
    <3>2. n = m /\ \A k \in Key : m[k] = NoVal
      BY <1>0, <2>1, <3>1, ValueOfEntry DEF m, n
    <3>3. QED
      BY <1>0, <2>1, <3>2 DEF Map!RandomKey
  <2>2. ASSUME NEW d \in RehashStep(dict), dict' = d,
               NEW e \in Candidates(d), ret' = <<"random", e.key, e.val>>
        PROVE  Map!RandomKey
    <3>1. GoodDict(d) /\ n = m
      BY <1>0, <2>2, RehashStepGood, SameMap DEF m, n
    <3>2. e \in Contents(d) /\ e.key \in Key
      BY <3>1, CandidatesAll, WhichTable DEF Entry
    <3>3. m[e.key] = e.val /\ m[e.key] # NoVal
      BY <1>0, <2>2, <3>1, <3>2, ValueOfEntry
    <3>4. QED
      BY <1>0, <2>2, <3>1, <3>2, <3>3 DEF Map!RandomKey
  <2>3. QED
    BY <1>5, <2>1, <2>2 DEF dictGetRandomKey
<1>6. ASSUME dictEmpty PROVE Map!Clear
  <2>1. dict' = EmptyDict /\ ret' = ret
    BY <1>6 DEF dictEmpty, EmptyDict
  <2>2. \A k \in Key : n[k] = NoVal
    BY <1>0, <2>1, EmptyDictGood, ValueOfEntry
  <2>3. QED
    BY <1>0, <2>1, <2>2 DEF Map!Clear
<1>7. ASSUME Contents(dict') = Contents(dict), ret' = ret PROVE UNCHANGED Map!vars
  BY <1>0, <1>7, SameMap DEF m, n, Map!vars
<1>8. ASSUME NEW k \in Sizes, dictExpand(k) PROVE UNCHANGED Map!vars
  <2>1. k \in 0..MaxSize
    BY DictAssumption
  <2>2. QED
    BY <1>0, <1>7, <1>8, <2>1, ExpandGood DEF dictExpand
<1>9. ASSUME dictResize PROVE UNCHANGED Map!vars
  <2> DEFINE least == IF dict.ht0.used < DICT_HT_INITIAL_SIZE
                      THEN DICT_HT_INITIAL_SIZE ELSE dict.ht0.used
  <2>1. least \in 0..MaxSize
    BY <1>0, UsedBound, DictAssumption
  <2>2. dict' \in {dict, Expand(dict, least)} /\ ret' = ret
    BY <1>9 DEF dictResize
  <2> HIDE DEF least
  <2>3. QED
    BY <1>0, <1>7, <2>1, <2>2, ExpandGood
<1>10. ASSUME dictRehashMilliseconds PROVE UNCHANGED Map!vars
  <2>1. PICK j \in dict.rehashidx..dict.ht0.size : dict' = RehashTo(dict, j)
    BY <1>10 DEF dictRehashMilliseconds, Rehashed, RehashStops
  <2>2. QED
    BY <1>0, <1>7, <1>10, <2>1, RehashToGood DEF dictRehashMilliseconds
<1>11. ASSUME NEW on \in BOOLEAN, dictSetResize(on) PROVE UNCHANGED Map!vars
  BY <1>7, <1>11 DEF dictSetResize
<1>12. ASSUME startSafeIterator \/ dictReleaseIterator PROVE UNCHANGED Map!vars
  <2>1. PICK i \in Int : dict' = [dict EXCEPT !.iterators = i]
    BY <1>0, <1>12 DEF startSafeIterator, dictReleaseIterator, GoodDict, IsDict
  <2>2. ret' = ret
    BY <1>12 DEF startSafeIterator, dictReleaseIterator
  <2>3. QED
    BY <1>0, <1>7, <2>1, <2>2, CountIterators
<1>13. CASE UNCHANGED vars
  BY <1>7, <1>13 DEF vars
<1>14. QED
  BY <1>1, <1>2, <1>3, <1>4, <1>5, <1>6, <1>8, <1>9, <1>10, <1>11, <1>12, <1>13
  DEF Next, Map!Next

\* A Dict answers every call as a map from keys to values does, whatever is
\* being rehashed, resized or iterated (MapSpec, the contract of dict.h).
THEOREM DictIsMap == Spec => MapSpec
<1>1. Init => Map!Init
  <2> SUFFICES ASSUME Init PROVE Map!Init
    OBVIOUS
  <2>1. dict = EmptyDict /\ ret = <<"none", NoVal, NoVal>>
    BY DEF Init, EmptyDict
  <2>2. \A k \in Key : ValueOf(dict, k) = NoVal
    BY <2>1, EmptyDictGood, ValueOfEntry
  <2>3. QED
    BY <2>1, <2>2 DEF Map!Init
<1>2. QED
  BY <1>1, StepMaps, Invariance, PTL DEF Spec, MapSpec, Map!Spec

-----------------------------------------------------------------------------
(* The safe iterator.                                                      *)

LEMMA InKeysOf ==
  ASSUME NEW entries, NEW k
  PROVE  k \in KeysOf(entries) <=> \E e \in entries : e.key = k
BY DEF KeysOf

\* Where the one entry of a key is.
PlaceOf(d, k) == IF k \in KeysOf(Entries(d.ht0)) THEN Slot(d.ht0, k)
                                                 ELSE d.ht0.size + Slot(d.ht1, k)

\* The keys in a chain are the keys with that slot.
LEMMA KeyInChain ==
  ASSUME NEW ht, GoodHT(ht), NEW i \in 0..(ht.size - 1), NEW k
  PROVE  k \in KeysOf(ht.table[i]) <=> k \in KeysOf(Entries(ht)) /\ Slot(ht, k) = i
<1>1. IsHT(ht) /\ Placed(ht)
  BY DEF GoodHT
<1>2. ASSUME k \in KeysOf(ht.table[i]) PROVE k \in KeysOf(Entries(ht)) /\ Slot(ht, k) = i
  <2>1. PICK e \in ht.table[i] : e.key = k
    BY <1>2, InKeysOf
  <2>2. e \in Entries(ht) /\ i = Slot(ht, e.key)
    BY <1>1, InItsChain
  <2> QED
    BY <2>1, <2>2, InKeysOf
<1>3. ASSUME k \in KeysOf(Entries(ht)), Slot(ht, k) = i PROVE k \in KeysOf(ht.table[i])
  <2>1. PICK e \in Entries(ht) : e.key = k
    BY <1>3, InKeysOf
  <2>2. e \in ht.table[Slot(ht, e.key)]
    BY <1>1, InItsChain
  <2> QED
    BY <1>3, <2>1, <2>2, InKeysOf
<1> QED
  BY <1>2, <1>3

\* A key with an entry has a slot.
LEMMA KeyHasSlot ==
  ASSUME NEW ht, GoodHT(ht), NEW k \in KeysOf(Entries(ht))
  PROVE  k \in Key /\ ht.size \in Nat \ {0} /\ Slot(ht, k) \in 0..(ht.size - 1)
<1>1. PICK e \in Entries(ht) : e.key = k
  BY InKeysOf
<1>2. e \in Entry /\ ht.size # 0 /\ Slot(ht, e.key) \in 0..(ht.size - 1) /\ ht.size \in Sizes \cup {0}
  BY InItsChain DEF GoodHT, IsHT
<1> QED
  BY <1>1, <1>2, SizesPositive DEF Entry

LEMMA SizeIsNat ==
  ASSUME NEW d, GoodDict(d)
  PROVE  d.ht0.size \in Nat /\ d.ht1.size \in Nat
BY SizesPositive DEF GoodDict, GoodHT, IsHT

\* No key has entries in both tables, and the second has some only in a rehash.
LEMMA KeyInOneTable ==
  ASSUME NEW d, GoodDict(d), NEW k
  PROVE  /\ k \in KeysOf(Contents(d)) <=> k \in KeysOf(Entries(d.ht0)) \/ k \in KeysOf(Entries(d.ht1))
         /\ ~ (k \in KeysOf(Entries(d.ht0)) /\ k \in KeysOf(Entries(d.ht1)))
         /\ k \in KeysOf(Entries(d.ht1)) => IsRehashing(d)
<1>1. OneEntryPerKey(d)
  BY DEF GoodDict
<1>2. k \in KeysOf(Contents(d)) <=> k \in KeysOf(Entries(d.ht0)) \/ k \in KeysOf(Entries(d.ht1))
  BY DEF KeysOf, Contents
<1>3. ~ (k \in KeysOf(Entries(d.ht0)) /\ k \in KeysOf(Entries(d.ht1)))
  BY <1>1 DEF KeysOf, OneEntryPerKey, Contents
<1>4. k \in KeysOf(Entries(d.ht1)) => IsRehashing(d)
  BY EmptySecondTable DEF KeysOf
<1> QED
  BY <1>2, <1>3, <1>4

LEMMA InPlace ==
  ASSUME NEW d, GoodDict(d), NEW k, NEW m
  PROVE  m \in Places(d) /\ k \in ChainAt(d, m) <=> k \in KeysOf(Contents(d)) /\ m = PlaceOf(d, k)
<1>1. GoodHT(d.ht0) /\ GoodHT(d.ht1) /\ d.ht0.size \in Nat /\ d.ht1.size \in Nat
  BY SizeIsNat DEF GoodDict
<1>2. ASSUME m \in 0..(d.ht0.size - 1)
      PROVE  /\ m \in Places(d)
             /\ k \in ChainAt(d, m) <=> k \in KeysOf(Entries(d.ht0)) /\ Slot(d.ht0, k) = m
  <2>1. m < d.ht0.size /\ m \in Places(d)
    BY <1>1, <1>2 DEF Places
  <2>2. ChainAt(d, m) = KeysOf(d.ht0.table[m])
    BY <2>1 DEF ChainAt
  <2> QED
    BY <1>1, <1>2, <2>1, <2>2, KeyInChain
<1>3. ASSUME IsRehashing(d), NEW i \in 0..(d.ht1.size - 1), m = d.ht0.size + i
      PROVE  /\ m \in Places(d)
             /\ k \in ChainAt(d, m) <=> k \in KeysOf(Entries(d.ht1)) /\ Slot(d.ht1, k) = i
  <2>1. ~ (m < d.ht0.size) /\ m - d.ht0.size = i /\ m \in Places(d)
    BY <1>1, <1>3 DEF Places
  <2>2. ChainAt(d, m) = KeysOf(d.ht1.table[i])
    BY <2>1 DEF ChainAt
  <2> QED
    BY <1>1, <1>3, <2>1, <2>2, KeyInChain
<1>4. ASSUME m \in Places(d), k \in ChainAt(d, m)
      PROVE  k \in KeysOf(Contents(d)) /\ m = PlaceOf(d, k)
  <2>1. CASE m \in 0..(d.ht0.size - 1)
    BY <1>2, <1>4, <2>1, KeyInOneTable DEF PlaceOf
  <2>2. CASE IsRehashing(d) /\ \E i \in 0..(d.ht1.size - 1) : m = d.ht0.size + i
    <3>1. PICK i \in 0..(d.ht1.size - 1) : m = d.ht0.size + i
      BY <2>2
    <3>2. k \in KeysOf(Entries(d.ht1)) /\ Slot(d.ht1, k) = i
      BY <1>3, <1>4, <2>2, <3>1
    <3> QED
      BY <3>1, <3>2, KeyInOneTable DEF PlaceOf
  <2> QED
    BY <1>4, <2>1, <2>2 DEF Places
<1>5. ASSUME k \in KeysOf(Contents(d)), m = PlaceOf(d, k)
      PROVE  m \in Places(d) /\ k \in ChainAt(d, m)
  <2>1. CASE k \in KeysOf(Entries(d.ht0))
    <3>1. m = Slot(d.ht0, k) /\ m \in 0..(d.ht0.size - 1)
      BY <1>1, <1>5, <2>1, KeyHasSlot DEF PlaceOf
    <3> QED
      BY <1>2, <2>1, <3>1
  <2>2. CASE k \notin KeysOf(Entries(d.ht0))
    <3>1. k \in KeysOf(Entries(d.ht1)) /\ IsRehashing(d)
      BY <1>5, <2>2, KeyInOneTable
    <3>2. m = d.ht0.size + Slot(d.ht1, k) /\ Slot(d.ht1, k) \in 0..(d.ht1.size - 1)
      BY <1>1, <1>5, <2>2, <3>1, KeyHasSlot DEF PlaceOf
    <3> QED
      BY <1>3, <3>1, <3>2
  <2> QED
    BY <2>1, <2>2
<1> QED
  BY <1>4, <1>5

LEMMA PlacesAreNat ==
  ASSUME NEW d, GoodDict(d)
  PROVE  Places(d) \subseteq Nat
BY SizeIsNat DEF Places

-----------------------------------------------------------------------------
(* No call moves an entry while a safe iterator is registered.             *)

StaysPut(d, e) ==
  /\ e.ht0.size = d.ht0.size
  /\ \A k \in KeysOf(Contents(d)) : k \in KeysOf(Contents(e)) => PlaceOf(e, k) = PlaceOf(d, k)

\* It is enough that a key keeps its table, and the tables their sizes; a
\* second table that is empty may become another one.
SameTable(d, e) ==
  /\ GoodDict(d) /\ GoodDict(e)
  /\ e.ht0.size = d.ht0.size
  /\ e.ht1.size = d.ht1.size \/ Entries(d.ht1) = {}
  /\ \A k \in KeysOf(Contents(d)) : k \in KeysOf(Contents(e)) =>
       (k \in KeysOf(Entries(d.ht0)) <=> k \in KeysOf(Entries(e.ht0)))

LEMMA SameTableStays ==
  ASSUME NEW d, NEW e, SameTable(d, e)
  PROVE  StaysPut(d, e)
<1> USE DEF SameTable
<1>1. SUFFICES ASSUME NEW k \in KeysOf(Contents(d)), k \in KeysOf(Contents(e))
               PROVE  PlaceOf(e, k) = PlaceOf(d, k)
  BY DEF StaysPut
<1>2. CASE k \in KeysOf(Entries(d.ht0))
  BY <1>1, <1>2 DEF PlaceOf, Slot
<1>3. CASE k \notin KeysOf(Entries(d.ht0))
  <2>1. k \in KeysOf(Entries(d.ht1)) /\ k \notin KeysOf(Entries(e.ht0))
    BY <1>1, <1>3, KeyInOneTable
  <2>2. Entries(d.ht1) # {}
    BY <2>1, InKeysOf
  <2> QED
    BY <1>3, <2>1, <2>2 DEF PlaceOf, Slot
<1> QED
  BY <1>2, <1>3

LEMMA ExpandStays ==
  ASSUME NEW d, GoodDict(d), d.ht0.size # 0, NEW n \in 0..MaxSize
  PROVE  StaysPut(d, Expand(d, n))
<1> DEFINE e == Expand(d, n)
<1>1. GoodDict(e) /\ e.ht0.size = d.ht0.size
  BY ExpandGood
<1>2. CASE ExpandRefused(d, n)
  BY <1>2 DEF Expand, StaysPut
<1>3. CASE ~ ExpandRefused(d, n)
  <2>1. e.ht0 = d.ht0
    BY <1>3 DEF Expand, With
  <2>2. Entries(d.ht1) = {}
    BY <1>3, EmptySecondTable DEF ExpandRefused
  <2> HIDE DEF e
  <2>3. SameTable(d, e)
    BY <1>1, <2>1, <2>2 DEF SameTable
  <2>4. StaysPut(d, e)
    BY <2>3, SameTableStays
  <2> QED
    BY <2>4 DEF e
<1> QED
  BY <1>2, <1>3

LEMMA RoomStays ==
  ASSUME NEW d, GoodDict(d), d.ht0.size # 0
  PROVE  StaysPut(d, ExpandIfNeeded(d))
<1>1. d.ht0.used * 2 \in 0..MaxSize
  BY UsedBound, DictAssumption
<1>2. StaysPut(d, Expand(d, d.ht0.used * 2)) /\ StaysPut(d, d)
  BY <1>1, ExpandStays DEF StaysPut
<1> QED
  BY <1>2 DEF ExpandIfNeeded

LEMMA InsertStays ==
  ASSUME NEW d, GoodDict(d), d.ht0.size # 0, NEW x \in Entry,
         \A f \in Contents(d) : f.key # x.key
  PROVE  StaysPut(d, Insert(d, x))
<1> DEFINE e == Insert(d, x)
<1>1. GoodDict(e) /\ GoodHT(d.ht0) /\ GoodHT(d.ht1)
  BY InsertGood DEF GoodDict
<1>2. x \notin Entries(d.ht0) /\ x \notin Entries(d.ht1) /\ x.key \notin KeysOf(Contents(d))
  BY InKeysOf DEF Contents
<1>3. CASE IsRehashing(d)
  <2>1. e.ht0 = d.ht0 /\ e.ht1 = Put(d.ht1, x)
    BY <1>3 DEF Insert, With1, With
  <2>2. e.ht1.size = d.ht1.size
    BY <1>1, <1>2, <1>3, <2>1, EmptySecondTable, PutGood
  <2> HIDE DEF e
  <2>3. SameTable(d, e)
    BY <1>1, <2>1, <2>2 DEF SameTable
  <2> QED
    BY <2>3, SameTableStays DEF e
<1>4. CASE ~ IsRehashing(d)
  <2>1. e.ht0 = Put(d.ht0, x) /\ e.ht1 = d.ht1
    BY <1>4 DEF Insert, With0, With
  <2>2. e.ht0.size = d.ht0.size /\ Entries(e.ht0) = Entries(d.ht0) \cup {x}
    BY <1>1, <1>2, <2>1, PutGood
  <2> HIDE DEF e
  <2>3. \A k \in KeysOf(Contents(d)) : k \in KeysOf(Entries(d.ht0)) <=> k \in KeysOf(Entries(e.ht0))
    BY <1>2, <2>2 DEF KeysOf
  <2>4. SameTable(d, e)
    BY <1>1, <2>1, <2>2, <2>3 DEF SameTable
  <2> QED
    BY <2>4, SameTableStays DEF e
<1> QED
  BY <1>3, <1>4

LEMMA RemoveStays ==
  ASSUME NEW d, GoodDict(d), NEW x \in Contents(d)
  PROVE  StaysPut(d, Remove(d, x))
<1> DEFINE e == Remove(d, x)
<1>1. GoodDict(e) /\ GoodHT(d.ht0) /\ GoodHT(d.ht1) /\ Contents(e) = Contents(d) \ {x}
  BY RemoveGood DEF GoodDict
<1>2. \A k \in KeysOf(Contents(e)) : k # x.key
  <2> HIDE DEF e
  <2> QED
    BY <1>1, WhichTable DEF KeysOf
<1>3. CASE x \in Entries(d.ht0)
  <2>1. e.ht0 = Drop(d.ht0, x) /\ e.ht1 = d.ht1
    BY <1>3, WhichTable DEF Remove, With0, With
  <2>2. e.ht0.size = d.ht0.size /\ Entries(e.ht0) = Entries(d.ht0) \ {x}
    BY <1>1, <1>3, <2>1, DropGood
  <2> HIDE DEF e
  <2>3. \A k : k # x.key => (k \in KeysOf(Entries(d.ht0)) <=> k \in KeysOf(Entries(e.ht0)))
    BY <2>2 DEF KeysOf
  <2>4. SameTable(d, e)
    BY <1>1, <1>2, <2>1, <2>2, <2>3 DEF SameTable
  <2> QED
    BY <2>4, SameTableStays DEF e
<1>4. CASE x \notin Entries(d.ht0)
  <2>1. e.ht0 = d.ht0 /\ e.ht1 = Drop(d.ht1, x)
    BY <1>4, WhichTable DEF Remove, With1, With
  <2>2. e.ht1.size = d.ht1.size
    BY <1>1, <1>4, <2>1, WhichTable, DropGood
  <2> HIDE DEF e
  <2>3. SameTable(d, e)
    BY <1>1, <2>1, <2>2 DEF SameTable
  <2> QED
    BY <2>3, SameTableStays DEF e
<1> QED
  BY <1>3, <1>4

LEMMA UpdateStays ==
  ASSUME NEW d, GoodDict(d), NEW x \in Contents(d), NEW v \in Val
  PROVE  StaysPut(d, Update(d, x, v))
<1> DEFINE e == Update(d, x, v)
           y == [key |-> x.key, val |-> v]
<1>1. GoodDict(e) /\ GoodHT(d.ht0) /\ GoodHT(d.ht1) /\ OneEntryPerKey(d) /\ y.key = x.key
  BY UpdateGood DEF GoodDict
<1>2. /\ \A f \in Entries(d.ht0) : f.key = x.key => f = x
      /\ \A f \in Entries(d.ht1) : f.key = x.key => f = x
  BY WhichTable DEF Contents
<1>3. CASE x \in Entries(d.ht0)
  <2>1. e.ht0 = SetVal(d.ht0, x, v) /\ e.ht1 = d.ht1
    BY <1>3, WhichTable DEF Update, With0, With
  <2>2. e.ht0.size = d.ht0.size /\ Entries(e.ht0) = (Entries(d.ht0) \ {x}) \cup {y}
    BY <1>1, <1>2, <1>3, <2>1, SetValGood
  <2> HIDE DEF e, y
  <2>3. \A k : k \in KeysOf(Entries(d.ht0)) <=> k \in KeysOf(Entries(e.ht0))
    BY <1>1, <1>3, <2>2 DEF KeysOf
  <2>4. SameTable(d, e)
    BY <1>1, <2>1, <2>2, <2>3 DEF SameTable
  <2> QED
    BY <2>4, SameTableStays DEF e
<1>4. CASE x \notin Entries(d.ht0)
  <2>1. e.ht0 = d.ht0 /\ e.ht1 = SetVal(d.ht1, x, v)
    BY <1>4, WhichTable DEF Update, With1, With
  <2>2. e.ht1.size = d.ht1.size
    BY <1>1, <1>2, <1>4, <2>1, WhichTable, SetValGood
  <2> HIDE DEF e, y
  <2>3. SameTable(d, e)
    BY <1>1, <2>1, <2>2 DEF SameTable
  <2> QED
    BY <2>3, SameTableStays DEF e
<1> QED
  BY <1>3, <1>4
\* The calls leave the iterators alone.
LEMMA SameIterators ==
  ASSUME NEW d
  PROVE  /\ \A e \in RehashStep(d) : e.iterators = d.iterators
         /\ \A n : Expand(d, n).iterators = d.iterators
         /\ ExpandIfNeeded(d).iterators = d.iterators
         /\ \A x : Insert(d, x).iterators = d.iterators
         /\ \A x : Remove(d, x).iterators = d.iterators
         /\ \A x, v : Update(d, x, v).iterators = d.iterators
<1>1. \A ht0, ht1, r : With(d, ht0, ht1, r).iterators = d.iterators
  BY DEF With
<1>2. \A j : RehashTo(d, j).iterators = d.iterators
  BY <1>1 DEF RehashTo
<1>3. \A e \in RehashStep(d) : e.iterators = d.iterators
  BY <1>2 DEF RehashStep, Rehashed
<1>4. \A n : Expand(d, n).iterators = d.iterators
  BY <1>1 DEF Expand
<1>5. ExpandIfNeeded(d).iterators = d.iterators
  BY <1>4 DEF ExpandIfNeeded
<1>6. \A x : Insert(d, x).iterators = d.iterators
  BY <1>1 DEF Insert, With0, With1
<1>7. \A x : Remove(d, x).iterators = d.iterators
  BY <1>1 DEF Remove, With0, With1
<1>8. \A x, v : Update(d, x, v).iterators = d.iterators
  BY <1>1 DEF Update, With0, With1
<1> QED
  BY <1>3, <1>4, <1>5, <1>6, <1>7, <1>8

\* What a step of a call does to a Dict d: it keeps the keys of K, and under an
\* iterator it moves no entry.
Keeps(d, e, K) ==
  /\ GoodDict(e) /\ e.iterators = d.iterators
  /\ \A k \in KeysOf(Contents(d)) : k \in K => k \in KeysOf(Contents(e))
  /\ d.iterators # 0 /\ d.ht0.size # 0 => StaysPut(d, e)

\* A step that keeps every entry, and another one behind it.
LEMMA KeepsOn ==
  ASSUME NEW d, NEW e, NEW f, NEW K,
         Keeps(d, e, Key), Contents(e) = Contents(d), Keeps(e, f, K)
  PROVE  Keeps(d, f, K)
BY DEF Keeps, StaysPut

LEMMA StepKeeps ==
  ASSUME NEW d, GoodDict(d), NEW e \in RehashStep(d)
  PROVE  Keeps(d, e, Key) /\ Contents(e) = Contents(d)
<1>1. GoodDict(e) /\ Contents(e) = Contents(d) /\ e.iterators = d.iterators
  BY RehashStepGood, SameIterators
<1>2. d.iterators # 0 => e = d
  BY DEF RehashStep
<1> QED
  BY <1>1, <1>2 DEF Keeps, StaysPut

LEMMA RoomKeeps ==
  ASSUME NEW d, GoodDict(d)
  PROVE  Keeps(d, ExpandIfNeeded(d), Key) /\ Contents(ExpandIfNeeded(d)) = Contents(d)
BY RoomGood, RoomStays, SameIterators DEF Keeps

LEMMA ExpandKeeps ==
  ASSUME NEW d, GoodDict(d), NEW n \in 0..MaxSize
  PROVE  Keeps(d, Expand(d, n), Key)
BY ExpandGood, ExpandStays, SameIterators DEF Keeps

LEMMA InsertKeeps ==
  ASSUME NEW d, GoodDict(d), d.ht0.size # 0, NEW k \in Key, NEW v \in Val, Lookup(d, k) = {}
  PROVE  Keeps(d, Insert(d, [key |-> k, val |-> v]), Key)
<1> DEFINE x == [key |-> k, val |-> v]
<1>1. x \in Entry /\ x.key = k
  BY DEF Entry
<1> HIDE DEF x
<1>2. \A f \in Contents(d) : f.key # x.key
  BY <1>1, LookupFinds
<1>3. /\ GoodDict(Insert(d, x)) /\ Contents(Insert(d, x)) = Contents(d) \cup {x}
      /\ StaysPut(d, Insert(d, x)) /\ Insert(d, x).iterators = d.iterators
  BY <1>1, <1>2, InsertGood, InsertStays, SameIterators
<1>4. Keeps(d, Insert(d, x), Key)
  BY <1>3 DEF Keeps, KeysOf
<1> QED
  BY <1>4 DEF x

LEMMA UpdateKeeps ==
  ASSUME NEW d, GoodDict(d), NEW x \in Contents(d), NEW v \in Val
  PROVE  Keeps(d, Update(d, x, v), Key)
<1> DEFINE y == [key |-> x.key, val |-> v]
<1>1. /\ GoodDict(Update(d, x, v)) /\ Contents(Update(d, x, v)) = (Contents(d) \ {x}) \cup {y}
      /\ StaysPut(d, Update(d, x, v)) /\ Update(d, x, v).iterators = d.iterators /\ y.key = x.key
  BY UpdateGood, UpdateStays, SameIterators
<1> HIDE DEF y
<1> QED
  BY <1>1 DEF Keeps, KeysOf

LEMMA RemoveKeeps ==
  ASSUME NEW d, GoodDict(d), NEW x \in Contents(d)
  PROVE  Keeps(d, Remove(d, x), Key \ {x.key})
<1>1. /\ GoodDict(Remove(d, x)) /\ Contents(Remove(d, x)) = Contents(d) \ {x}
      /\ StaysPut(d, Remove(d, x)) /\ Remove(d, x).iterators = d.iterators
  BY RemoveGood, RemoveStays, SameIterators
<1> QED
  BY <1>1 DEF Keeps, KeysOf

LEMMA KeysAreKeys ==
  ASSUME NEW d, GoodDict(d)
  PROVE  KeysOf(Contents(d)) \subseteq Key
BY KeyInOneTable, KeyHasSlot DEF GoodDict

\* What the caller of an iteration may do between two dictNext.
LEMMA CallKeeps ==
  ASSUME Inv, Call
  PROVE  Keeps(dict, dict', {it.next}) /\ live' = live /\ [Next]_vars
<1>0. GoodDict(dict)
  BY DEF Inv
<1>1. ASSUME NEW k \in Key, NEW v \in Val, dictAdd(k, v) PROVE Keeps(dict, dict', Key) /\ live' = live
  <2>1. PICK d \in RehashStep(dict) :
          \/ /\ Lookup(ExpandIfNeeded(d), k) = {}
             /\ dict' = Insert(ExpandIfNeeded(d), [key |-> k, val |-> v])
          \/ dict' = ExpandIfNeeded(d)
    BY <1>1 DEF dictAdd
  <2>2. Keeps(dict, d, Key) /\ Contents(d) = Contents(dict) /\ GoodDict(d)
    BY <1>0, StepKeeps DEF Keeps
  <2>3. /\ Keeps(d, ExpandIfNeeded(d), Key) /\ Contents(ExpandIfNeeded(d)) = Contents(d)
        /\ GoodDict(ExpandIfNeeded(d)) /\ ExpandIfNeeded(d).ht0.size # 0
    BY <2>2, RoomKeeps, RoomGood
  <2>4. Keeps(dict, ExpandIfNeeded(d), Key) /\ Contents(ExpandIfNeeded(d)) = Contents(dict)
    BY <2>2, <2>3, KeepsOn
  <2>5. Keeps(dict, dict', Key)
    BY <2>1, <2>3, <2>4, InsertKeeps, KeepsOn
  <2> QED
    BY <1>1, <2>5 DEF dictAdd
<1>2. ASSUME NEW k \in Key, NEW v \in Val, dictReplace(k, v) PROVE Keeps(dict, dict', Key) /\ live' = live
  <2>1. PICK d \in RehashStep(dict) :
          \/ /\ Lookup(ExpandIfNeeded(d), k) = {}
             /\ dict' = Insert(ExpandIfNeeded(d), [key |-> k, val |-> v])
          \/ \E f \in RehashStep(ExpandIfNeeded(d)) : \E e \in Lookup(f, k) : dict' = Update(f, e, v)
    BY <1>2 DEF dictReplace
  <2>2. Keeps(dict, d, Key) /\ Contents(d) = Contents(dict) /\ GoodDict(d)
    BY <1>0, StepKeeps DEF Keeps
  <2>3. /\ Keeps(d, ExpandIfNeeded(d), Key) /\ Contents(ExpandIfNeeded(d)) = Contents(d)
        /\ GoodDict(ExpandIfNeeded(d)) /\ ExpandIfNeeded(d).ht0.size # 0
    BY <2>2, RoomKeeps, RoomGood
  <2>4. Keeps(dict, ExpandIfNeeded(d), Key) /\ Contents(ExpandIfNeeded(d)) = Contents(dict)
    BY <2>2, <2>3, KeepsOn
  <2>5. CASE /\ Lookup(ExpandIfNeeded(d), k) = {}
             /\ dict' = Insert(ExpandIfNeeded(d), [key |-> k, val |-> v])
    BY <1>2, <2>3, <2>4, <2>5, InsertKeeps, KeepsOn DEF dictReplace
  <2>6. ASSUME NEW f \in RehashStep(ExpandIfNeeded(d)), NEW e \in Lookup(f, k), dict' = Update(f, e, v)
        PROVE  Keeps(dict, dict', Key)
    <3>1. Keeps(ExpandIfNeeded(d), f, Key) /\ Contents(f) = Contents(ExpandIfNeeded(d)) /\ GoodDict(f)
      BY <2>3, StepKeeps DEF Keeps
    <3>2. Keeps(dict, f, Key) /\ Contents(f) = Contents(dict)
      BY <2>4, <3>1, KeepsOn
    <3>3. e \in Contents(f)
      BY <3>1, LookupFinds
    <3>4. Keeps(f, dict', Key)
      BY <2>6, <3>1, <3>3, UpdateKeeps
    <3> QED
      BY <3>2, <3>4, KeepsOn
  <2> QED
    BY <1>2, <2>1, <2>5, <2>6 DEF dictReplace
<1>3. ASSUME NEW k \in Key \ {it.next}, dictDelete(k) PROVE Keeps(dict, dict', {it.next}) /\ live' = live
  <2>1. PICK d \in RehashStep(dict) : dict' = d \/ \E e \in Lookup(d, k) : dict' = Remove(d, e)
    BY <1>3 DEF dictDelete
  <2>2. Keeps(dict, d, Key) /\ Contents(d) = Contents(dict) /\ GoodDict(d)
    BY <1>0, StepKeeps DEF Keeps
  <2>3. KeysOf(Contents(dict)) \subseteq Key
    BY <1>0, KeysAreKeys
  <2>4. CASE dict' = d
    BY <1>3, <2>2, <2>3, <2>4 DEF Keeps, dictDelete
  <2>5. ASSUME NEW e \in Lookup(d, k), dict' = Remove(d, e) PROVE Keeps(dict, dict', {it.next})
    <3>1. e \in Contents(d) /\ e.key = k
      BY <2>2, LookupFinds
    <3>2. Keeps(d, dict', Key \ {k})
      BY <2>2, <2>5, <3>1, RemoveKeeps
    <3>3. Keeps(dict, dict', Key \ {k})
      BY <2>2, <3>2, KeepsOn
    <3> QED
      BY <2>3, <3>3 DEF Keeps
  <2> QED
    BY <1>3, <2>1, <2>4, <2>5 DEF dictDelete
<1>4. ASSUME NEW k \in Key, dictFind(k) PROVE Keeps(dict, dict', Key) /\ live' = live
  BY <1>0, <1>4, StepKeeps DEF dictFind
<1>5. StaysPut(dict, dict)
  BY DEF StaysPut
<1>6. ASSUME dictGetRandomKey PROVE Keeps(dict, dict', Key) /\ live' = live
  BY <1>0, <1>5, <1>6, StepKeeps DEF dictGetRandomKey, Keeps
<1>7. ASSUME NEW n \in Sizes, dictExpand(n) PROVE Keeps(dict, dict', Key) /\ live' = live
  <2>1. n \in 0..MaxSize
    BY DictAssumption
  <2> QED
    BY <1>0, <1>7, <2>1, ExpandKeeps DEF dictExpand
<1>8. ASSUME dictResize PROVE Keeps(dict, dict', Key) /\ live' = live
  <2> DEFINE least == IF dict.ht0.used < DICT_HT_INITIAL_SIZE
                      THEN DICT_HT_INITIAL_SIZE ELSE dict.ht0.used
  <2>1. least \in 0..MaxSize
    <3>1. DICT_HT_INITIAL_SIZE \in 1..MaxSize /\ MaxSize \in Nat
      BY DictAssumption
    <3>2. dict.ht0.used \in 0..MaxSize
      BY <1>0, UsedBound, DictAssumption
    <3> QED
      BY <3>1, <3>2
  <2>2. dict' \in {dict, Expand(dict, least)} /\ live' = live
    BY <1>8 DEF dictResize
  <2> HIDE DEF least
  <2> QED
    BY <1>0, <1>5, <2>1, <2>2, ExpandKeeps DEF Keeps
<1>9. ASSUME NEW on \in BOOLEAN, dictSetResize(on) PROVE Keeps(dict, dict', Key) /\ live' = live
  BY <1>0, <1>5, <1>9 DEF dictSetResize, Keeps
<1>10. Keeps(dict, dict', Key) => Keeps(dict, dict', {it.next})
  BY <1>0, KeysAreKeys DEF Keeps
<1>11. [Next]_vars
  BY DEF Call, Next
<1> QED
  BY <1>1, <1>2, <1>3, <1>4, <1>6, <1>7, <1>8, <1>9, <1>10, <1>11 DEF Call

LEMMA CronCounts ==
  ASSUME Cron
  PROVE  /\ live' = live /\ [Next]_vars
         /\ dict'.iterators = dict.iterators \/ dict'.iterators = 0
<1>1. \A j : RehashTo(dict, j).iterators = dict.iterators
  BY DEF RehashTo, With
<1> QED
  BY <1>1 DEF Cron, dictRehashMilliseconds, Rehashed, dictEmpty, Next

-----------------------------------------------------------------------------
(* The iteration.                                                          *)

Registered == kind = "iterate" /\ it.at # -1

\* What it will return next is chained behind what it has returned, in the
\* bucket it is at; the rest of what it has returned is not behind that, and
\* what it has not lies ahead.
Iterating ==
  /\ it.at \in Nat /\ dict.ht0.size # 0
  /\ it.next \in IF it.behind = {} THEN {NoKey} ELSE it.behind
  /\ it.behind \subseteq KeysOf(Contents(dict))
  /\ \A k \in it.behind : PlaceOf(dict, k) = it.at
  /\ \A k \in stayed : k \in seen => PlaceOf(dict, k) <= it.at /\ k \notin it.behind
  /\ \A k \in stayed : k \notin seen => k \in it.behind \/ PlaceOf(dict, k) > it.at

WalkInv ==
  /\ Inv
  /\ dict.iterators = live /\ live = IF Registered THEN 1 ELSE 0
  /\ kind \in {"none", "scan", "iterate", "end"}
  /\ it = [at |-> it.at, next |-> it.next, behind |-> it.behind]
  /\ stayed \subseteq KeysOf(Contents(dict))
  /\ twice \cap stayed = {}
  /\ kind \in {"none", "scan"} => twice = {}
  /\ kind = "iterate" /\ it.at = -1 => it = NewIterator /\ seen = {} /\ twice = {}
  /\ Registered => Iterating

LEMMA WalkStarts == WInit => WalkInv
<1> SUFFICES ASSUME WInit PROVE WalkInv
  OBVIOUS
<1>1. Init /\ kind = "none" /\ it = NewIterator /\ twice = {} /\ stayed = {} /\ seen = {}
  BY DEF WInit
<1>2. dict.iterators = 0 /\ live = 0
  BY <1>1 DEF Init
<1> QED
  BY <1>1, <1>2, InitInv DEF WalkInv, NewIterator, Registered

\* Every step of a walk is a step of the Dict.
LEMMA WalkIsNext == Inv /\ [WNext]_wvars => [Next]_vars
<1> SUFFICES ASSUME Inv, [WNext]_wvars PROVE [Next]_vars
  OBVIOUS
<1>1. CASE Between
  BY <1>1, CallKeeps, CronCounts DEF Between
<1>2. CASE dictNext \/ dictNextEnds
  <2>1. startSafeIterator \/ dictReleaseIterator \/ UNCHANGED vars
    BY <1>2 DEF dictNext, dictNextEnds, Register
  <2> QED
    BY <2>1 DEF Next
<1> QED
  BY <1>1, <1>2 DEF WNext, wvars, Begin, dictScan, End

\* Registering and releasing an iterator leaves the tables.
LEMMA CountStays ==
  ASSUME Inv, startSafeIterator \/ dictReleaseIterator
  PROVE  /\ dict'.ht0 = dict.ht0 /\ dict'.ht1 = dict.ht1 /\ Contents(dict') = Contents(dict)
         /\ \A k : PlaceOf(dict', k) = PlaceOf(dict, k)
<1>1. \E n \in Int : dict' = [dict EXCEPT !.iterators = n]
  BY DEF startSafeIterator, dictReleaseIterator, Inv, GoodDict, IsDict
<1>2. dict'.ht0 = dict.ht0 /\ dict'.ht1 = dict.ht1
  BY <1>1 DEF Inv, GoodDict, IsDict
<1> QED
  BY <1>2 DEF PlaceOf, Contents

\* Behind the last chain nothing is left, and between one chain and the next
\* there is nothing.
LEMMA FoundIsNext ==
  ASSUME GoodDict(dict), NEW at \in Int
  PROVE  /\ \A n \in Found(dict, at) : n \in Nat /\ n > at
         /\ \A n \in Found(dict, at) : \A k \in KeysOf(Contents(dict)) :
              PlaceOf(dict, k) > at => PlaceOf(dict, k) >= n
         /\ Found(dict, at) = {} => \A k \in KeysOf(Contents(dict)) : PlaceOf(dict, k) <= at
<1>1. \A n \in Found(dict, at) : n \in Nat /\ n > at
  BY PlacesAreNat DEF Found
<1>2. \A k \in KeysOf(Contents(dict)) :
        /\ PlaceOf(dict, k) \in Places(dict) /\ k \in ChainAt(dict, PlaceOf(dict, k))
        /\ PlaceOf(dict, k) \in Nat
  BY InPlace, PlacesAreNat
<1>3. ASSUME NEW n \in Found(dict, at), NEW k \in KeysOf(Contents(dict)), PlaceOf(dict, k) > at
      PROVE  PlaceOf(dict, k) >= n
  BY <1>1, <1>2, <1>3 DEF Found
<1>4. ASSUME NEW k \in KeysOf(Contents(dict)), PlaceOf(dict, k) > at
      PROVE  Found(dict, at) # {}
  <2> DEFINE T == { m \in Places(dict) : m > at /\ ChainAt(dict, m) # {} }
  <2>1. T \subseteq Nat /\ T # {}
    BY <1>2, <1>4, PlacesAreNat
  <2>2. PICK m \in T : \A i \in T : m <= i
    BY <2>1, Least
  <2>3. m \in Found(dict, at)
    BY <2>1, <2>2 DEF Found
  <2> QED
    BY <2>3
<1>5. Found(dict, at) = {} => \A k \in KeysOf(Contents(dict)) : PlaceOf(dict, k) <= at
  BY <1>2, <1>4
<1> QED
  BY <1>1, <1>3, <1>5

\* Every key of the first chain with any is at its place, and new to the walk.
LEMMA ChainIsNew ==
  ASSUME GoodDict(dict), NEW at \in Int, NEW n \in Found(dict, at)
  PROVE  \A k \in ChainAt(dict, n) : k \in KeysOf(Contents(dict)) /\ PlaceOf(dict, k) = n
BY InPlace DEF Found

LEMMA NextSteps ==
  ASSUME WalkInv, dictNext
  PROVE  WalkInv'
<1>1. Inv /\ Inv' /\ GoodDict(dict) /\ KeysOf(Contents(dict)) \subseteq Key /\ kind = "iterate" /\ kind' = kind
  <2>1. Inv /\ [Next]_vars
    BY WalkIsNext DEF WalkInv, WNext
  <2> QED
    BY <2>1, StepInv, KeysAreKeys DEF WalkInv, Inv, dictNext, Return
<1>2. NoKey \notin KeysOf(Contents(dict)) /\ it.at \in Int /\ stayed' = stayed
  BY <1>1, WalkAssumption DEF WalkInv, Registered, Iterating, dictNext, Return
<1>3. CASE /\ it.next # NoKey
           /\ Return(it.next, it.at, it.behind \ {it.next})
           /\ UNCHANGED vars
  <2>1. Registered /\ Iterating
    BY <1>1, <1>3 DEF WalkInv, NewIterator, Registered
  <2>2. it.next \in it.behind
    BY <1>3, <2>1 DEF Iterating
  <2>3. /\ it' = [at |-> it.at, next |-> it'.next, behind |-> it.behind \ {it.next}]
        /\ it'.next \in IF it'.behind = {} THEN {NoKey} ELSE it'.behind
        /\ seen' = seen \cup {it.next} /\ twice' = twice \cup ({it.next} \cap seen)
        /\ UNCHANGED <<dict, live, stayed, kind>>
    BY <1>3 DEF Return, vars
  <2>4. it'.at = it.at /\ it'.behind = it.behind \ {it.next}
    BY <2>3
  <2>5. twice' \cap stayed' = {}
    BY <2>1, <2>2, <2>3 DEF Iterating, WalkInv
  <2>6. Iterating'
    BY <2>1, <2>2, <2>3, <2>4 DEF Iterating
  <2>7. Registered'
    BY <2>1, <2>3, <2>4 DEF Registered
  <2> QED
    BY <1>1, <2>1, <2>3, <2>4, <2>5, <2>6, <2>7 DEF WalkInv, Registered, Iterating
<1>4. ASSUME it.next = NoKey, NEW n \in Found(dict, it.at), NEW k \in ChainAt(dict, n),
             Return(k, n, ChainAt(dict, n) \ {k}), Register
      PROVE  WalkInv'
  <2>1. it.behind = {}
    BY <1>1, <1>2, <1>4 DEF WalkInv, Registered, Iterating, NewIterator
  <2>2. /\ it' = [at |-> n, next |-> it'.next, behind |-> ChainAt(dict, n) \ {k}]
        /\ it'.next \in IF it'.behind = {} THEN {NoKey} ELSE it'.behind
        /\ seen' = seen \cup {k} /\ twice' = twice \cup ({k} \cap seen)
    BY <1>4 DEF Return
  <2>3. it'.at = n /\ it'.behind = ChainAt(dict, n) \ {k}
    BY <2>2
  <2>4. /\ n \in Nat /\ n > it.at
        /\ \A x \in KeysOf(Contents(dict)) : PlaceOf(dict, x) > it.at => PlaceOf(dict, x) >= n
        /\ \A x \in ChainAt(dict, n) : x \in KeysOf(Contents(dict)) /\ PlaceOf(dict, x) = n
        /\ \A x \in KeysOf(Contents(dict)) : PlaceOf(dict, x) = n => x \in ChainAt(dict, n)
        /\ \A x \in KeysOf(Contents(dict)) : PlaceOf(dict, x) \in Nat
    BY <1>1, <1>2, <1>4, FoundIsNext, ChainIsNew, InPlace, PlacesAreNat
  <2>5. /\ Contents(dict') = Contents(dict) /\ dict'.ht0.size = dict.ht0.size
        /\ \A x : PlaceOf(dict', x) = PlaceOf(dict, x)
        /\ dict'.iterators = live' /\ live' = 1
    <3>1. CASE it.at = -1
      <4>1. startSafeIterator /\ dict.iterators = 0 /\ live = 0
        BY <1>1, <1>4, <3>1 DEF Register, WalkInv, Registered
      <4>2. dict'.iterators = 1 /\ live' = 1
        BY <1>1, <4>1 DEF startSafeIterator, GoodDict, IsDict
      <4> QED
        BY <1>1, <4>1, <4>2, CountStays
    <3>2. CASE it.at # -1
      BY <1>1, <1>4, <3>2 DEF Register, vars, WalkInv, Registered
    <3> QED
      BY <3>1, <3>2
  <2>6. /\ stayed \subseteq KeysOf(Contents(dict))
        /\ \A x \in stayed : x \in seen => PlaceOf(dict, x) <= it.at
        /\ \A x \in stayed : x \notin seen => PlaceOf(dict, x) > it.at
    <3>1. CASE it.at = -1
      BY <1>1, <2>4, <3>1 DEF WalkInv
    <3>2. CASE it.at # -1
      BY <1>1, <2>1, <3>2 DEF WalkInv, Registered, Iterating
    <3> QED
      BY <3>1, <3>2
  <2>7. \A x \in stayed : x \in ChainAt(dict, n) => x \notin seen
    BY <1>2, <2>4, <2>6
  <2>8. twice' \cap stayed' = {}
    BY <1>2, <1>4, <2>2, <2>7 DEF WalkInv
  <2>9. dict.ht0.size # 0
    <3>1. Places(dict) # {}
      BY <1>4 DEF Found
    <3>2. dict.ht0.size = 0 => ~IsRehashing(dict)
      BY <1>1, EmptySecondTable
    <3> QED
      BY <3>1, <3>2 DEF Places
  <2>10. \A x \in stayed' : x \in seen' => PlaceOf(dict', x) <= it'.at /\ x \notin it'.behind
    <3>1. ASSUME NEW x \in stayed, x \in seen'
          PROVE  PlaceOf(dict, x) <= n /\ x \notin ChainAt(dict, n) \ {k}
      <4>1. CASE x = k
        BY <2>4, <1>4, <4>1
      <4>2. CASE x # k
        <5>1. x \in seen
          BY <2>2, <3>1, <4>2
        <5>2. PlaceOf(dict, x) <= it.at /\ x \notin ChainAt(dict, n) /\ PlaceOf(dict, x) \in Nat
          BY <2>4, <2>6, <2>7, <5>1
        <5> QED
          BY <1>2, <2>4, <5>2
      <4> QED
        BY <4>1, <4>2
    <3> QED
      BY <1>2, <2>3, <2>5, <3>1
  <2>11. \A x \in stayed' : x \notin seen' => x \in it'.behind \/ PlaceOf(dict', x) > it'.at
    <3>1. ASSUME NEW x \in stayed, x \notin seen'
          PROVE  x \in ChainAt(dict, n) \ {k} \/ PlaceOf(dict, x) > n
      <4>1. x \notin seen /\ x # k
        BY <2>2, <3>1
      <4>2. PlaceOf(dict, x) >= n /\ PlaceOf(dict, x) \in Nat
        BY <2>4, <2>6, <4>1
      <4> QED
        BY <2>4, <2>6, <4>1, <4>2
    <3> QED
      BY <1>2, <2>3, <2>5, <3>1
  <2>12. Iterating'
    BY <2>2, <2>3, <2>4, <2>5, <2>9, <2>10, <2>11 DEF Iterating
  <2>13. Registered'
    BY <1>1, <2>3, <2>4 DEF Registered
  <2>14. it' = [at |-> it'.at, next |-> it'.next, behind |-> it'.behind]
    BY <2>2
  <2> QED
    BY <1>1, <1>2, <2>4, <2>5, <2>6, <2>8, <2>12, <2>13, <2>14 DEF WalkInv, Registered
<1> QED
  BY <1>3, <1>4 DEF dictNext

\* What stays has been returned when the iteration ends.
LEMMA IterationEnds ==
  ASSUME WalkInv, dictNextEnds
  PROVE  WalkInv' /\ stayed' \subseteq seen'
<1>1. Inv /\ Inv' /\ GoodDict(dict) /\ KeysOf(Contents(dict)) \subseteq Key
  <2>1. Inv /\ [Next]_vars
    BY WalkIsNext DEF WalkInv, WNext
  <2> QED
    BY <2>1, StepInv, KeysAreKeys DEF WalkInv, Inv
<1>2. /\ kind = "iterate" /\ kind' = "end" /\ it.next = NoKey /\ Found(dict, it.at) = {}
      /\ UNCHANGED <<cursor, it, seen, twice, midway, stayed>>
  BY DEF dictNextEnds
<1>3. NoKey \notin KeysOf(Contents(dict)) /\ it.at \in Int
  BY <1>1, <1>2, WalkAssumption DEF WalkInv, Registered, Iterating
<1>4. \A k \in KeysOf(Contents(dict)) : PlaceOf(dict, k) <= it.at /\ PlaceOf(dict, k) \in Nat
  BY <1>1, <1>2, <1>3, FoundIsNext, InPlace, PlacesAreNat
<1>5. CASE it.at = -1
  <2>1. UNCHANGED vars /\ live = 0 /\ dict.iterators = 0
    BY <1>2, <1>5 DEF dictNextEnds, WalkInv, Registered
  <2>2. stayed = {}
    BY <1>4, <1>5 DEF WalkInv
  <2> QED
    BY <1>1, <1>2, <2>1, <2>2 DEF WalkInv, Registered, vars
<1>6. CASE it.at # -1
  <2>1. dictReleaseIterator /\ Registered /\ Iterating /\ live = 1 /\ dict.iterators = 1
    BY <1>2, <1>6 DEF dictNextEnds, WalkInv, Registered
  <2>2. dict'.iterators = 0 /\ live' = 0
    BY <1>1, <2>1 DEF dictReleaseIterator, GoodDict, IsDict
  <2>3. Contents(dict') = Contents(dict)
    BY <1>1, <2>1, CountStays
  <2>4. it.behind = {}
    BY <1>2, <1>3, <2>1 DEF Iterating
  <2>5. \A k \in stayed : PlaceOf(dict, k) <= it.at /\ PlaceOf(dict, k) \in Nat
    BY <1>4 DEF WalkInv
  <2>6. stayed \subseteq seen
    BY <1>3, <2>1, <2>4, <2>5 DEF Iterating
  <2> QED
    BY <1>1, <1>2, <2>2, <2>3, <2>6 DEF WalkInv, Registered
<1> QED
  BY <1>5, <1>6

LEMMA BetweenSteps ==
  ASSUME WalkInv, Between
  PROVE  WalkInv'
<1>1. Inv /\ Inv' /\ GoodDict(dict)
  <2>1. Inv /\ [Next]_vars
    BY WalkIsNext DEF WalkInv, WNext
  <2> QED
    BY <2>1, StepInv DEF WalkInv, Inv
<1> DEFINE K == KeysOf(Contents(dict'))
<1>2. /\ kind # "end" /\ (Call \/ (kind # "iterate" /\ Cron))
      /\ stayed' = stayed \cap K
      /\ it' = [it EXCEPT !.behind = @ \cap K]
      /\ UNCHANGED <<kind, cursor, seen, twice, midway>>
  BY DEF Between
<1>3. it' = [at |-> it.at, next |-> it.next, behind |-> it.behind \cap K]
  BY <1>2 DEF WalkInv
<1>4. it'.at = it.at /\ it'.next = it.next /\ it'.behind = it.behind \cap K
  BY <1>3
<1>5. Registered' <=> Registered
  BY <1>2, <1>4 DEF Registered
<1>6. live' = live /\ dict'.iterators = live'
  <2>1. CASE Call
    BY <1>1, <2>1, CallKeeps DEF Keeps, WalkInv
  <2>2. CASE kind # "iterate" /\ Cron
    BY <2>2, CronCounts DEF WalkInv, Registered
  <2> QED
    BY <1>2, <2>1, <2>2
<1>7. ASSUME Registered PROVE Iterating'
  <2>1. Call /\ Iterating /\ dict.iterators # 0 /\ dict.ht0.size # 0
    BY <1>2, <1>7 DEF WalkInv, Registered, Iterating
  <2>2. Keeps(dict, dict', {it.next})
    BY <1>1, <2>1, CallKeeps
  <2>3. /\ dict'.ht0.size # 0
        /\ \A k \in KeysOf(Contents(dict)) : k \in K => PlaceOf(dict', k) = PlaceOf(dict, k)
        /\ it.next \in KeysOf(Contents(dict)) => it.next \in K
    BY <2>1, <2>2 DEF Keeps, StaysPut
  <2>4. stayed \subseteq KeysOf(Contents(dict))
    BY DEF WalkInv
  <2> HIDE DEF K
  <2>5. it'.next \in IF it'.behind = {} THEN {NoKey} ELSE it'.behind
    <3>1. CASE it.behind = {}
      BY <1>4, <2>1, <3>1 DEF Iterating
    <3>2. CASE it.behind # {}
      <4>1. it.next \in it.behind /\ it.next \in K
        BY <2>1, <2>3, <3>2 DEF Iterating
      <4> QED
        BY <1>4, <4>1
    <3> QED
      BY <3>1, <3>2
  <2>6. \A k \in it'.behind : PlaceOf(dict', k) = it'.at
    BY <1>4, <2>1, <2>3 DEF Iterating
  <2>7. \A k \in stayed' : k \in seen' => PlaceOf(dict', k) <= it'.at /\ k \notin it'.behind
    BY <1>2, <1>4, <2>1, <2>3, <2>4 DEF Iterating
  <2>8. \A k \in stayed' : k \notin seen' => k \in it'.behind \/ PlaceOf(dict', k) > it'.at
    BY <1>2, <1>4, <2>1, <2>3, <2>4 DEF Iterating
  <2>9. it'.behind \subseteq KeysOf(Contents(dict'))
    BY <1>4 DEF K
  <2>10. it'.at \in Nat
    BY <1>4, <2>1 DEF Iterating
  <2> QED
    BY <2>3, <2>5, <2>6, <2>7, <2>8, <2>9, <2>10 DEF Iterating
<1>8. kind' = "iterate" /\ it'.at = -1 => it' = NewIterator /\ seen' = {} /\ twice' = {}
  <2>1. ASSUME kind = "iterate", it.at = -1 PROVE it' = NewIterator /\ seen = {} /\ twice = {}
    <3>1. it = NewIterator /\ it.behind = {} /\ it.next = NoKey /\ seen = {} /\ twice = {}
      BY <2>1 DEF WalkInv, NewIterator
    <3> QED
      BY <1>3, <2>1, <3>1 DEF NewIterator
  <2> QED
    BY <1>2, <1>4, <2>1
<1>9. it' = [at |-> it'.at, next |-> it'.next, behind |-> it'.behind]
  BY <1>3, <1>4
<1> QED
  BY <1>1, <1>2, <1>5, <1>6, <1>7, <1>8, <1>9 DEF WalkInv

LEMMA WalkSteps == WalkInv /\ [WNext]_wvars => WalkInv'
<1> SUFFICES ASSUME WalkInv, [WNext]_wvars PROVE WalkInv'
  OBVIOUS
<1>1. Inv /\ Inv'
  <2>1. Inv /\ [Next]_vars
    BY WalkIsNext DEF WalkInv
  <2> QED
    BY <2>1, StepInv
<1>2. ASSUME NEW k \in {"scan", "iterate"}, Begin(k) PROVE WalkInv'
  <2>1. UNCHANGED vars /\ kind' = k /\ it' = NewIterator /\ seen' = {} /\ twice' = {} /\ kind = "none"
        /\ stayed' = KeysOf(Contents(dict))
    BY <1>2 DEF Begin
  <2>2. ~ Registered /\ ~ Registered'
    BY <2>1 DEF Registered, NewIterator
  <2>3. it' = [at |-> it'.at, next |-> it'.next, behind |-> it'.behind]
    BY <2>1 DEF NewIterator
  <2> QED
    BY <1>1, <2>1, <2>2, <2>3 DEF WalkInv, vars
<1>3. CASE dictScan
  <2>1. UNCHANGED <<vars, it, twice, stayed>> /\ kind = "scan" /\ kind' \in {"end", "scan"}
    BY <1>3 DEF dictScan
  <2>2. ~ Registered /\ ~ Registered'
    BY <2>1 DEF Registered
  <2> QED
    BY <1>1, <2>1, <2>2 DEF WalkInv, vars
<1>4. CASE End
  <2>1. /\ UNCHANGED vars /\ kind = "end" /\ kind' = "none" /\ it' = NewIterator
        /\ twice' = {} /\ stayed' = {}
    BY <1>4 DEF End
  <2>2. ~ Registered /\ ~ Registered'
    BY <2>1 DEF Registered
  <2>3. it' = [at |-> it'.at, next |-> it'.next, behind |-> it'.behind]
    BY <2>1 DEF NewIterator
  <2> QED
    BY <1>1, <2>1, <2>2, <2>3 DEF WalkInv, vars
<1>5. CASE UNCHANGED wvars
  BY <1>1, <1>5 DEF wvars, vars, walk, WalkInv, Registered, Iterating
<1> QED
  BY <1>2, <1>3, <1>4, <1>5, NextSteps, IterationEnds, BetweenSteps DEF WNext

\* A safe iterator returns no entry twice that is in the Dict throughout,
\* whatever is added, deleted, replaced or expanded while it is registered.
THEOREM IteratesOnceAlways == WSpec => []IteratesOnce
<1>1. WalkInv => IteratesOnce
  BY DEF WalkInv, IteratesOnce
<1> QED
  BY <1>1, WalkStarts, WalkSteps, PTL DEF WSpec

-----------------------------------------------------------------------------
(* The bits of a cursor.                                                   *)

LEMMA Pow2Is ==
  /\ Width \in Nat /\ Pow2[0] = 1
  /\ \A i \in 1..Width : Pow2[i] = 2 * Pow2[i - 1]
  /\ \A i \in 0..Width : Pow2[i] \in Nat \ {0}
<1> DEFINE G == [v \in Nat \X Nat |-> 2 * v[1]]
<1>1. Width \in Nat
  BY WalkAssumption
<1>2. G \in [Nat \X Nat -> Nat]
  OBVIOUS
<1>3. PICK f \in [0..Width -> Nat] : Recursive(f, Width, 1, G)
  <2> HIDE DEF G
  <2> QED
    BY <1>1, <1>2, RecursionExists
<1>4. \A i \in 0..Width : f[i] = IF i = 0 THEN 1 ELSE 2 * f[i - 1]
  <2>1. ASSUME NEW i \in 0..Width, i # 0 PROVE f[i] = 2 * f[i - 1]
    <3>1. i \in 1..Width /\ i \in Nat /\ i - 1 \in 0..Width
      BY <1>1, <2>1
    <3>2. f[i - 1] \in Nat /\ f[i] = G[<<f[i - 1], i>>]
      BY <1>3, <3>1 DEF Recursive
    <3> QED
      BY <3>1, <3>2
  <2> HIDE DEF G
  <2> QED
    BY <1>3, <2>1 DEF Recursive
<1>5. f = [i \in 0..Width |-> IF i = 0 THEN 1 ELSE 2 * f[i - 1]]
  <2> HIDE DEF G
  <2>1. f = [i \in 0..Width |-> f[i]]
    OBVIOUS
  <2> QED
    BY <1>4, <2>1
<1>6. Pow2 = [i \in 0..Width |-> IF i = 0 THEN 1 ELSE 2 * Pow2[i - 1]]
  <2> HIDE DEF G
  <2> QED
    BY <1>5 DEF Pow2
<1>7. Pow2[0] = 1 /\ \A i \in 1..Width : Pow2[i] = 2 * Pow2[i - 1]
  <2>1. 0 \in 0..Width /\ \A i \in 1..Width : i \in 0..Width /\ i # 0
    BY <1>1
  <2> QED
    BY <1>6, <2>1
<1>8. \A i \in 0..Width : Pow2[i] \in Nat \ {0}
  <2>1. \A i \in 1..Width : Pow2[i - 1] \in Nat \ {0} => Pow2[i] \in Nat \ {0}
    BY <1>7
  <2>2. Pow2[0] \in Nat \ {0}
    BY <1>7
  <2> QED
    BY <1>1, <2>1, <2>2, RecursionStays, Zenon
<1> QED
  BY <1>1, <1>7, <1>8

\* A larger power is a multiple of a smaller one.
LEMMA Pow2Sum ==
  ASSUME NEW i \in 0..Width, NEW j \in 0..Width, i + j <= Width
  PROVE  Pow2[i + j] = Pow2[i] * Pow2[j]
<1> DEFINE T == { n \in 0..j : Pow2[i + n] = Pow2[i] * Pow2[n] }
<1>1. Width \in Nat /\ i \in Nat /\ j \in Nat /\ \A n \in 0..Width : Pow2[n] \in Nat
  BY Pow2Is
<1>2. 0 \in T
  BY <1>1, Pow2Is
<1>3. ASSUME NEW n \in 0..j - 1, n \in T PROVE n + 1 \in T
  <2>1. /\ n + 1 \in 1..Width /\ i + (n + 1) \in 1..Width /\ n \in 0..Width /\ n + 1 \in 0..j
        /\ (n + 1) - 1 = n /\ (i + (n + 1)) - 1 = i + n /\ i + n \in 0..Width
    BY <1>1
  <2>2. Pow2[n + 1] = 2 * Pow2[n] /\ Pow2[i + (n + 1)] = 2 * Pow2[i + n]
    BY <2>1, Pow2Is
  <2>3. Pow2[i + n] = Pow2[i] * Pow2[n]
    BY <1>3
  <2>4. 2 * (Pow2[i] * Pow2[n]) = Pow2[i] * (2 * Pow2[n])
    <3> DEFINE a == Pow2[i]
               b == Pow2[n]
    <3>1. a \in Nat /\ b \in Nat
      BY <1>1, <2>1
    <3> HIDE DEF a, b
    <3>2. 2 * (a * b) = a * (2 * b)
      BY <3>1
    <3> QED
      BY <3>2 DEF a, b
  <2> QED
    BY <2>1, <2>2, <2>3, <2>4
<1> HIDE DEF T
<1>4. 0..j \subseteq T
  BY <1>1, <1>2, <1>3, InductTo
<1>5. j \in T
  BY <1>1, <1>4
<1> QED
  BY <1>5 DEF T

LEMMA BitIs ==
  ASSUME NEW v \in Nat, NEW i \in 0..Width
  PROVE  Bit(v, i) \in {0, 1}
<1>1. Pow2[i] \in Nat \ {0}
  BY Pow2Is
<1>2. v \div Pow2[i] \in Int
  BY <1>1, DivMod
<1> DEFINE q == v \div Pow2[i]
<1> HIDE DEF q
<1>3. q % 2 \in Nat /\ q % 2 < 2
  BY <1>2, DivMod DEF q
<1> QED
  BY <1>3 DEF Bit, q

\* One bit more of a number.
LEMMA LowBits ==
  ASSUME NEW v \in Nat, NEW i \in 0..Width - 1
  PROVE  v % Pow2[i + 1] = (v % Pow2[i]) + (IF Bit(v, i) = 0 THEN 0 ELSE Pow2[i])
<1> DEFINE P == Pow2[i]
           q == v \div P
           r == v % P
           q2 == q \div 2
           b == q % 2
<1>1. i \in 0..Width /\ i + 1 \in 1..Width /\ (i + 1) - 1 = i
  BY Pow2Is
<1>2. P \in Nat \ {0} /\ Pow2[i + 1] = 2 * P
  BY <1>1, Pow2Is
<1>3. v = q * P + r /\ q \in Int /\ r \in Nat /\ r < P
  <2> HIDE DEF P
  <2> QED
    BY <1>2, DivMod
<1>4. q = q2 * 2 + b /\ q2 \in Int /\ b \in Nat /\ b < 2
  <2> HIDE DEF q
  <2> QED
    BY <1>3, DivMod
<1>5. Bit(v, i) = b
  BY DEF Bit
<1> HIDE DEF P, q, r, q2, b
<1>6. ASSUME b = 0 PROVE v % (2 * P) = r
  <2>1. v = q2 * (2 * P) + r
    BY <1>2, <1>3, <1>4, <1>6, SMTT(30)
  <2>2. 2 * P \in Nat \ {0} /\ r < 2 * P
    BY <1>2, <1>3
  <2> QED
    BY <1>3, <1>4, <2>1, <2>2, ModIs
<1>7. ASSUME b # 0 PROVE v % (2 * P) = r + P
  <2>1. b = 1
    BY <1>4, <1>7
  <2>2. v = q2 * (2 * P) + (r + P)
    BY <1>2, <1>3, <1>4, <2>1, SMTT(30)
  <2>3. 2 * P \in Nat \ {0} /\ r + P < 2 * P /\ r + P \in Nat
    BY <1>2, <1>3
  <2> QED
    BY <1>4, <2>2, <2>3, ModIs
<1>8. v % Pow2[i + 1] = r + (IF Bit(v, i) = 0 THEN 0 ELSE P)
  BY <1>2, <1>3, <1>5, <1>6, <1>7
<1> QED
  BY <1>8 DEF r, P

\* r[i] is the lowest i bits of v, in the opposite order.
Reverses(r, v) == /\ rev(v) = r[Width] /\ r[0] = 0
                  /\ \A i \in 1..Width : r[i] = r[i - 1] * 2 + Bit(v, i - 1)
                  /\ \A i \in 0..Width : r[i] \in Nat

LEMMA RevSteps ==
  ASSUME NEW v \in Nat
  PROVE  \E r : Reverses(r, v)
<1> DEFINE G == [w \in Nat \X Nat |-> IF w[2] \in 1..Width THEN w[1] * 2 + Bit(v, w[2] - 1) ELSE w[1]]
           r[i \in 0..Width] == IF i = 0 THEN 0 ELSE r[i - 1] * 2 + Bit(v, i - 1)
<1>1. Width \in Nat /\ \A i \in 1..Width : Bit(v, i - 1) \in Nat
  <2>1. Width \in Nat
    BY Pow2Is
  <2>2. \A i \in 1..Width : i - 1 \in 0..Width
    BY <2>1
  <2>3. \A i \in 0..Width : Bit(v, i) \in Nat
    BY BitIs
  <2> QED
    BY <2>1, <2>2, <2>3
<1>2. G \in [Nat \X Nat -> Nat]
  <2>1. ASSUME NEW w \in Nat \X Nat PROVE G[w] \in Nat
    <3>1. w[1] \in Nat
      OBVIOUS
    <3>2. w[2] \in 1..Width => w[1] * 2 + Bit(v, w[2] - 1) \in Nat
      BY <1>1, <3>1
    <3> QED
      BY <3>1, <3>2
  <2> QED
    BY <2>1
<1>3. PICK f \in [0..Width -> Nat] : Recursive(f, Width, 0, G)
  <2> HIDE DEF G
  <2> QED
    BY <1>1, <1>2, RecursionExists
<1>4. \A i \in 0..Width : f[i] = IF i = 0 THEN 0 ELSE f[i - 1] * 2 + Bit(v, i - 1)
  <2>1. ASSUME NEW i \in 0..Width, i # 0 PROVE f[i] = f[i - 1] * 2 + Bit(v, i - 1)
    <3>1. i \in 1..Width /\ i \in Nat /\ i - 1 \in 0..Width
      BY <1>1, <2>1
    <3>2. f[i - 1] \in Nat /\ f[i] = G[<<f[i - 1], i>>]
      BY <1>3, <3>1 DEF Recursive
    <3> QED
      BY <3>1, <3>2
  <2> HIDE DEF G
  <2> QED
    BY <1>3, <2>1 DEF Recursive
<1>5. f = [i \in 0..Width |-> IF i = 0 THEN 0 ELSE f[i - 1] * 2 + Bit(v, i - 1)]
  <2> HIDE DEF G
  <2>1. f = [i \in 0..Width |-> f[i]]
    OBVIOUS
  <2> QED
    BY <1>4, <2>1
<1>6. r = [i \in 0..Width |-> IF i = 0 THEN 0 ELSE r[i - 1] * 2 + Bit(v, i - 1)]
  <2> HIDE DEF G
  <2> QED
    BY <1>5
<1>7. rev(v) = r[Width]
  BY DEF rev
<1> HIDE DEF G, r
<1>8. r[0] = 0 /\ \A i \in 1..Width : r[i] = r[i - 1] * 2 + Bit(v, i - 1)
  <2>1. 0 \in 0..Width /\ \A i \in 1..Width : i \in 0..Width /\ i # 0
    BY <1>1
  <2> QED
    BY <1>6, <2>1
<1>9. \A i \in 0..Width : r[i] \in Nat
  <2>1. \A i \in 1..Width : r[i - 1] \in Nat => r[i] \in Nat
    BY <1>1, <1>8
  <2>2. r[0] \in Nat
    BY <1>8
  <2> QED
    BY <1>1, <2>1, <2>2, RecursionStays, Zenon
<1>10. Reverses(r, v)
  BY <1>7, <1>8, <1>9 DEF Reverses
<1> QED
  BY <1>10

LEMMA RevOf0 == rev(0) = 0
<1>1. PICK r : Reverses(r, 0)
  BY RevSteps, Zenon
<1>2. Width \in Nat
  BY Pow2Is
<1>3. \A i \in 0..Width : Bit(0, i) = 0
  <2>1. ASSUME NEW i \in 0..Width PROVE Bit(0, i) = 0
    <3>1. Pow2[i] \in Nat \ {0}
      BY Pow2Is
    <3> DEFINE P == Pow2[i]
    <3> HIDE DEF P
    <3>2. (0 * P + 0) \div P = 0 /\ 0 * P + 0 = 0
      BY <3>1, DivIs DEF P
    <3>3. (0 * 2 + 0) % 2 = 0 /\ 0 * 2 + 0 = 0
      BY ModIs
    <3> QED
      BY <3>2, <3>3 DEF Bit, P
  <2> QED
    BY <2>1
<1>4. \A i \in 1..Width : r[i - 1] \in {0} => r[i] \in {0}
  BY <1>1, <1>2, <1>3 DEF Reverses
<1>5. r[0] \in {0}
  BY <1>1 DEF Reverses
<1>6. \A i \in 0..Width : r[i] \in {0}
  BY <1>2, <1>4, <1>5, RecursionStays, Zenon
<1> QED
  BY <1>1, <1>2, <1>6 DEF Reverses

\* The low bits reversed tell the low bits, and are no more of them.
LEMMA RevTells ==
  ASSUME NEW v \in Nat, NEW w \in Nat, NEW r, NEW s, Reverses(r, v), Reverses(s, w)
  PROVE  \A i \in 0..Width : /\ r[i] < Pow2[i]
                             /\ r[i] = s[i] <=> v % Pow2[i] = w % Pow2[i]
<1> DEFINE T == { i \in 0..Width : /\ r[i] < Pow2[i]
                                   /\ r[i] = s[i] <=> v % Pow2[i] = w % Pow2[i] }
<1>1. Width \in Nat /\ Pow2[0] = 1
  BY Pow2Is
<1>2. 0 \in T
  <2>1. v % 1 = 0 /\ w % 1 = 0
    BY SMTT(30)
  <2>2. r[0] = 0 /\ s[0] = 0
    BY DEF Reverses
  <2> QED
    BY <1>1, <2>1, <2>2
<1>3. ASSUME NEW i \in 0..Width - 1, i \in T PROVE i + 1 \in T
  <2>1. i + 1 \in 1..Width /\ (i + 1) - 1 = i /\ i \in 0..Width /\ i + 1 \in 0..Width
    BY <1>1
  <2> DEFINE P == Pow2[i]
             a == Bit(v, i)
             b == Bit(w, i)
             x == v % P
             y == w % P
  <2>2. P \in Nat \ {0} /\ Pow2[i + 1] = 2 * P /\ a \in {0, 1} /\ b \in {0, 1}
    BY <2>1, Pow2Is, BitIs
  <2>3. /\ r[i + 1] = r[i] * 2 + a /\ s[i + 1] = s[i] * 2 + b
        /\ r[i] \in Nat /\ s[i] \in Nat
    BY <2>1 DEF Reverses
  <2>4. x \in Nat /\ x < P /\ y \in Nat /\ y < P
    <3> HIDE DEF P
    <3> QED
      BY <2>2, DivMod
  <2>5. /\ v % Pow2[i + 1] = x + (IF a = 0 THEN 0 ELSE P)
        /\ w % Pow2[i + 1] = y + (IF b = 0 THEN 0 ELSE P)
    BY LowBits
  <2>6. r[i] < P /\ (r[i] = s[i] <=> x = y)
    BY <1>3
  <2> HIDE DEF P, a, b, x, y
  <2>7. r[i + 1] < Pow2[i + 1]
    BY <2>2, <2>3, <2>6
  <2>8. r[i + 1] = s[i + 1] <=> r[i] = s[i] /\ a = b
    BY <2>2, <2>3
  <2>9. v % Pow2[i + 1] = w % Pow2[i + 1] <=> x = y /\ a = b
    BY <2>2, <2>4, <2>5
  <2> QED
    BY <2>1, <2>6, <2>7, <2>8, <2>9
<1> HIDE DEF T
<1>4. 0..Width \subseteq T
  BY <1>1, <1>2, <1>3, InductTo
<1> QED
  BY <1>4 DEF T

\* The lowest bits are the highest of the number reversed.
LEMMA RevTop ==
  ASSUME NEW v \in Nat, NEW r, Reverses(r, v), NEW i \in 0..Width
  PROVE  \E t \in Nat : t < Pow2[Width - i] /\ rev(v) = r[i] * Pow2[Width - i] + t
<1> DEFINE T == { d \in 0..Width : \E t \in Nat : t < Pow2[d] /\ rev(v) = r[Width - d] * Pow2[d] + t }
<1>1. Width \in Nat /\ Pow2[0] = 1
  BY Pow2Is
<1>2. 0 \in T
  <2>1. rev(v) = r[Width] /\ r[Width] \in Nat /\ Width - 0 = Width
    BY <1>1 DEF Reverses
  <2>2. rev(v) = r[Width - 0] * Pow2[0] + 0 /\ 0 < Pow2[0]
    BY <1>1, <2>1
  <2> QED
    BY <1>1, <2>2
<1>3. ASSUME NEW d \in 0..Width - 1, d \in T PROVE d + 1 \in T
  <2>1. /\ d + 1 \in 1..Width /\ (d + 1) - 1 = d /\ d \in 0..Width /\ d + 1 \in 0..Width
        /\ Width - d \in 1..Width /\ (Width - d) - 1 = Width - (d + 1) /\ Width - (d + 1) \in 0..Width
    BY <1>1
  <2> DEFINE P == Pow2[d]
             n == Width - (d + 1)
             b == Bit(v, n)
  <2>2. P \in Nat \ {0} /\ Pow2[d + 1] = 2 * P /\ b \in {0, 1}
    BY <2>1, Pow2Is, BitIs
  <2>3. r[Width - d] = r[n] * 2 + b /\ r[n] \in Nat
    BY <2>1 DEF Reverses
  <2>4. PICK t \in Nat : t < P /\ rev(v) = r[Width - d] * P + t
    BY <1>3
  <2> HIDE DEF P, n, b
  <2>5. rev(v) = (r[n] * 2 + b) * P + t
    BY <2>3, <2>4
  <2>6. CASE b = 0
    <3>1. rev(v) = r[n] * (2 * P) + t
      BY <2>2, <2>3, <2>4, <2>5, <2>6, SMTT(30)
    <3>2. t < 2 * P
      BY <2>2, <2>4
    <3> QED
      BY <2>1, <2>2, <3>1, <3>2 DEF n
  <2>7. CASE b = 1
    <3>1. rev(v) = r[n] * (2 * P) + (t + P)
      BY <2>2, <2>3, <2>4, <2>5, <2>7, SMTT(30)
    <3>2. t + P < 2 * P /\ t + P \in Nat
      BY <2>2, <2>4
    <3> QED
      BY <2>1, <2>2, <3>1, <3>2 DEF n
  <2> QED
    BY <2>2, <2>6, <2>7
<1> HIDE DEF T
<1>4. 0..Width \subseteq T
  BY <1>1, <1>2, <1>3, InductTo
<1>5. Width - i \in 0..Width /\ Width - (Width - i) = i
  BY <1>1
<1>6. Width - i \in T
  BY <1>4, <1>5
<1> QED
  BY <1>5, <1>6 DEF T

LEMMA RevRange ==
  ASSUME NEW v \in Nat
  PROVE  rev(v) \in Nat /\ rev(v) < Pow2[Width]
<1>1. PICK r : Reverses(r, v)
  BY RevSteps, Zenon
<1>2. Width \in 0..Width
  BY Pow2Is
<1>3. r[Width] < Pow2[Width]
  BY <1>1, <1>2, RevTells
<1> QED
  BY <1>1, <1>2, <1>3 DEF Reverses

LEMMA RevBit ==
  ASSUME NEW v \in Nat, NEW i \in 0..Width - 1
  PROVE  Bit(rev(v), i) = Bit(v, Width - (i + 1))
<1>1. PICK r : Reverses(r, v)
  BY RevSteps, Zenon
<1> DEFINE j == Width - i
           P == Pow2[i]
           b == Bit(v, Width - (i + 1))
<1>2. /\ j \in 1..Width /\ j - 1 = Width - (i + 1) /\ Width - j = i /\ i \in 0..Width /\ j \in 0..Width
      /\ Width - (i + 1) \in 0..Width
  BY Pow2Is
<1>3. P \in Nat \ {0} /\ b \in {0, 1}
  BY <1>2, Pow2Is, BitIs
<1>4. r[j] = r[j - 1] * 2 + b /\ r[j] \in Nat /\ r[j - 1] \in Nat
  <2>1. j - 1 \in 0..Width
    BY <1>2
  <2> QED
    BY <1>1, <1>2, <2>1 DEF Reverses
<1>5. PICK t \in Nat : t < P /\ rev(v) = r[j] * P + t
  BY <1>1, <1>2, RevTop
<1>6. rev(v) \div P = r[j]
  <2> DEFINE q == r[j]
  <2>1. q \in Int /\ rev(v) = q * P + t
    BY <1>4, <1>5
  <2> HIDE DEF P, q
  <2>2. (q * P + t) \div P = q
    BY <1>3, <1>5, <2>1, DivIs
  <2> QED
    BY <2>1, <2>2 DEF q
<1>7. r[j] % 2 = b
  <2> HIDE DEF j, b
  <2> QED
    BY <1>3, <1>4, ModIs
<1> QED
  BY <1>6, <1>7 DEF Bit

\* Numbers with the same bits are the same.
LEMMA SameBits ==
  ASSUME NEW v \in Nat, NEW w \in Nat, v < Pow2[Width], w < Pow2[Width],
         \A i \in 0..Width - 1 : Bit(v, i) = Bit(w, i)
  PROVE  v = w
<1> DEFINE T == { i \in 0..Width : v % Pow2[i] = w % Pow2[i] }
<1>1. Width \in Nat /\ Pow2[0] = 1 /\ Pow2[Width] \in Nat \ {0}
  BY Pow2Is
<1>2. 0 \in T
  BY <1>1, SMTT(30)
<1>3. ASSUME NEW i \in 0..Width - 1, i \in T PROVE i + 1 \in T
  BY <1>1, <1>3, LowBits
<1> HIDE DEF T
<1>4. 0..Width \subseteq T
  BY <1>1, <1>2, <1>3, InductTo
<1>5. v % Pow2[Width] = w % Pow2[Width]
  BY <1>1, <1>4 DEF T
<1>6. v % Pow2[Width] = v /\ w % Pow2[Width] = w
  BY <1>1, ModSmall
<1> QED
  BY <1>5, <1>6

LEMMA RevRev ==
  ASSUME NEW v \in Nat, v < Pow2[Width]
  PROVE  rev(rev(v)) = v
<1>1. rev(v) \in Nat /\ rev(rev(v)) \in Nat /\ rev(rev(v)) < Pow2[Width]
  BY RevRange
<1>2. ASSUME NEW i \in 0..Width - 1 PROVE Bit(rev(rev(v)), i) = Bit(v, i)
  <2>1. /\ Width - (i + 1) \in 0..Width - 1 /\ Width - ((Width - (i + 1)) + 1) = i
    BY Pow2Is
  <2>2. Bit(rev(rev(v)), i) = Bit(rev(v), Width - (i + 1))
    BY <1>1, RevBit
  <2>3. Bit(rev(v), Width - (i + 1)) = Bit(v, i)
    BY <2>1, RevBit
  <2> QED
    BY <2>2, <2>3
<1> QED
  BY <1>1, <1>2, SameBits

-----------------------------------------------------------------------------
(* The step of the cursor.                                                 *)

\* v |= ~mask: the bits above the index are 1.
LEMMA Filled ==
  ASSUME NEW v \in Nat, NEW j \in 0..Width
  PROVE  LET a == (v % Pow2[j]) + (Pow2[Width] - Pow2[j])
         IN  /\ a \in Nat /\ a < Pow2[Width] /\ a % Pow2[j] = v % Pow2[j]
             /\ \A i \in j..Width - 1 : Bit(a, i) = 1
<1> DEFINE P == Pow2[j]
           m == Pow2[Width - j]
           x == v % P
           a == x + (Pow2[Width] - P)
<1>1. Width \in Nat /\ Width - j \in 0..Width /\ P \in Nat \ {0} /\ m \in Nat \ {0}
      /\ Pow2[Width] \in Nat \ {0} /\ Width \in 0..Width
  <2>1. Width \in Nat
    BY Pow2Is
  <2>2. Width - j \in 0..Width /\ Width \in 0..Width
    BY <2>1
  <2> QED
    BY <2>1, <2>2, Pow2Is
<1>2. Pow2[Width] = m * P
  <2>1. (Width - j) + j = Width /\ Width - j \in 0..Width /\ (Width - j) + j <= Width
    BY <1>1
  <2>2. Pow2[(Width - j) + j] = Pow2[Width - j] * Pow2[j]
    BY <2>1, Pow2Sum
  <2> QED
    BY <2>1, <2>2
<1>3. x \in Nat /\ x < P
  <2> HIDE DEF P
  <2> QED
    BY <1>1, DivMod
<1> HIDE DEF P, m, x
<1>4. P <= m * P
  <2>1. 1 * P <= m * P
    BY <1>1, TimesKeepsOrder
  <2> QED
    BY <1>1, <2>1
<1>5. a \in Nat /\ a < Pow2[Width]
  BY <1>1, <1>2, <1>3, <1>4
<1>6. a % P = x
  <2>1. a = (m - 1) * P + x
    BY <1>1, <1>2, <1>3, SMTT(30)
  <2>2. m - 1 \in Int
    BY <1>1
  <2> QED
    BY <1>1, <1>3, <2>1, <2>2, ModIs
<1>7. x % P = x
  BY <1>1, <1>3, ModSmall
<1>8. ASSUME NEW i \in j..Width - 1 PROVE Bit(a, i) = 1
  <2> DEFINE Q == Pow2[i]
             h == Pow2[Width - (i + 1)]
             g == Pow2[i - j]
             rest == x + (Q - P)
  <2>1. /\ i \in 0..Width /\ Width - (i + 1) \in 0..Width /\ i - j \in 0..Width
        /\ i + 1 \in 1..Width /\ (i + 1) - 1 = i /\ i + 1 \in 0..Width
        /\ (Width - (i + 1)) + (i + 1) = Width /\ (i - j) + j = i
    BY <1>1
  <2>2. Q \in Nat \ {0} /\ h \in Nat \ {0} /\ g \in Nat \ {0} /\ Pow2[i + 1] = 2 * Q
    BY <2>1, Pow2Is
  <2>3. Pow2[Width] = h * (2 * Q)
    <3>1. Pow2[(Width - (i + 1)) + (i + 1)] = Pow2[Width - (i + 1)] * Pow2[i + 1]
      BY <1>1, <2>1, Pow2Sum
    <3> QED
      BY <2>1, <2>2, <3>1
  <2>4. Q = g * P
    <3>1. Pow2[(i - j) + j] = Pow2[i - j] * Pow2[j]
      BY <1>1, <2>1, Pow2Sum
    <3> QED
      BY <2>1, <3>1 DEF P
  <2> HIDE DEF Q, h, g
  <2>5. P <= Q
    <3>1. 1 * P <= g * P
      BY <1>1, <2>2, TimesKeepsOrder
    <3> QED
      BY <1>1, <2>4, <3>1
  <2>6. rest \in Nat /\ rest < Q
    BY <1>1, <1>3, <2>2, <2>5
  <2>7. a = (2 * h - 1) * Q + rest
    <3>1. (2 * h - 1) * Q = h * (2 * Q) - Q
      BY <2>2, SMTT(30)
    <3>2. h * (2 * Q) \in Nat
      BY <1>1, <2>3
    <3> QED
      BY <1>1, <1>3, <2>2, <2>3, <3>1, <3>2
  <2> HIDE DEF rest, a
  <2>8. a \div Q = 2 * h - 1
    <3>1. 2 * h - 1 \in Int
      BY <2>2
    <3> QED
      BY <2>2, <2>6, <2>7, <3>1, DivIs
  <2>9. (2 * h - 1) % 2 = 1
    <3>1. 2 * h - 1 = (h - 1) * 2 + 1 /\ h - 1 \in Int
      BY <2>2
    <3>2. ((h - 1) * 2 + 1) % 2 = 1
      BY <3>1, ModIs
    <3> QED
      BY <3>1, <3>2
  <2> QED
    BY <2>8, <2>9 DEF Bit, Q
<1> QED
  BY <1>5, <1>6, <1>8 DEF x, P

\* Reversed, the cursor goes on to the next block, of the numbers that agree in
\* their lowest j bits; after the last it is 0.
LEMMA AdvanceIs ==
  ASSUME NEW v \in Nat, NEW r, Reverses(r, v), NEW j \in 0..Width
  PROVE  LET n == Advance(v, Pow2[j])
         IN  /\ n \in Nat /\ n < Pow2[Width]
             /\ \/ n = 0 /\ r[j] + 1 = Pow2[j]
                \/ n # 0 /\ rev(n) = (r[j] + 1) * Pow2[Width - j]
<1> DEFINE a == (v % Pow2[j]) + (Pow2[Width] - Pow2[j])
           m == Pow2[Width - j]
<1>1. a \in Nat /\ a < Pow2[Width] /\ a % Pow2[j] = v % Pow2[j] /\ \A i \in j..Width - 1 : Bit(a, i) = 1
  BY Filled
<1> HIDE DEF a
<1>2. PICK s : Reverses(s, a)
  BY <1>1, RevSteps, Zenon
<1>3. /\ Width \in Nat /\ j \in Nat /\ j <= Width /\ Width - j \in Nat /\ Width - j \in 0..Width
      /\ Pow2[0] = 1 /\ m \in Nat \ {0} /\ Pow2[Width] \in Nat \ {0} /\ Pow2[j] \in Nat \ {0}
  <2>1. Width \in Nat
    BY Pow2Is
  <2>2. Width - j \in 0..Width /\ Width \in 0..Width
    BY <2>1
  <2> QED
    BY <2>1, <2>2, Pow2Is
<1>4. s[j] = r[j] /\ r[j] \in Nat /\ r[j] < Pow2[j]
  BY <1>1, <1>2, RevTells DEF Reverses
<1> HIDE DEF m
<1>5. rev(a) + 1 = (r[j] + 1) * m
  <2> DEFINE T == { d \in 0..Width - j : s[j + d] + 1 = (r[j] + 1) * Pow2[d] }
  <2>1. 0 \in T
    BY <1>3, <1>4
  <2>2. ASSUME NEW d \in 0..(Width - j) - 1, d \in T PROVE d + 1 \in T
    <3>1. /\ j + (d + 1) \in 1..Width /\ (j + (d + 1)) - 1 = j + d /\ j + d \in j..Width - 1
          /\ d + 1 \in 1..Width /\ (d + 1) - 1 = d /\ d \in 0..Width /\ d + 1 \in 0..Width - j
          /\ j + d \in 0..Width
      BY <1>3
    <3>2. s[j + (d + 1)] = s[j + d] * 2 + 1 /\ s[j + d] \in Nat
      BY <1>1, <1>2, <3>1 DEF Reverses
    <3>3. Pow2[d + 1] = 2 * Pow2[d] /\ Pow2[d] \in Nat
      BY <3>1, Pow2Is
    <3>4. s[j + d] + 1 = (r[j] + 1) * Pow2[d]
      BY <2>2
    <3> DEFINE c == r[j] + 1
               P == Pow2[d]
               y == s[j + d]
    <3>5. c \in Nat /\ P \in Nat /\ y \in Nat /\ y + 1 = c * P
      BY <1>4, <3>2, <3>3, <3>4
    <3> HIDE DEF c, P, y
    <3>6. (y * 2 + 1) + 1 = c * (2 * P)
      BY <3>5, SMTT(30)
    <3> QED
      BY <3>1, <3>2, <3>3, <3>6 DEF c, P, y
  <2> HIDE DEF T
  <2>3. 0..Width - j \subseteq T
    BY <1>3, <2>1, <2>2, InductTo
  <2>4. Width - j \in T
    BY <1>3, <2>3
  <2>5. j + (Width - j) = Width /\ rev(a) = s[Width]
    BY <1>2, <1>3 DEF Reverses
  <2> QED
    BY <2>4, <2>5 DEF T, m
<1>6. Pow2[Width] = Pow2[j] * m
  <2>1. j + (Width - j) = Width /\ j + (Width - j) <= Width
    BY <1>3
  <2>2. Pow2[j + (Width - j)] = Pow2[j] * Pow2[Width - j]
    BY <1>3, <2>1, Pow2Sum
  <2> QED
    BY <2>1, <2>2 DEF m
<1> DEFINE x == (rev(a) + 1) % Pow2[Width]
<1>7. Advance(v, Pow2[j]) = rev(x)
  BY DEF Advance, a
<1>8. CASE r[j] + 1 = Pow2[j]
  <2>1. rev(a) + 1 = Pow2[Width]
    BY <1>5, <1>6, <1>8
  <2>2. x = 0
    <3>1. (1 * Pow2[Width] + 0) % Pow2[Width] = 0 /\ 1 * Pow2[Width] + 0 = Pow2[Width]
      BY <1>3, ModIs
    <3> QED
      BY <2>1, <3>1
  <2>3. Advance(v, Pow2[j]) = 0
    BY <1>7, <2>2, RevOf0
  <2> QED
    BY <1>3, <1>8, <2>3
<1>9. CASE r[j] + 1 # Pow2[j]
  <2> DEFINE c == r[j] + 1
  <2>1. c \in Nat /\ c < Pow2[j] /\ c >= 1
    BY <1>3, <1>4, <1>9
  <2> HIDE DEF c
  <2>2. c * m + 0 < Pow2[j] * m /\ c * m \in Nat
    BY <1>3, <2>1, BlockOrder
  <2>3. 1 * m <= c * m
    BY <1>3, <2>1, TimesKeepsOrder
  <2>4. c * m # 0
    BY <1>3, <2>2, <2>3
  <2>5. x = c * m /\ c * m < Pow2[Width]
    <3>1. c * m < Pow2[Width] /\ rev(a) + 1 = c * m
      BY <1>5, <1>6, <2>2 DEF c
    <3> QED
      BY <1>3, <2>2, <3>1, ModSmall
  <2>6. rev(rev(x)) = x /\ rev(x) \in Nat /\ rev(x) < Pow2[Width]
    <3> HIDE DEF x
    <3> QED
      BY <2>2, <2>5, RevRev, RevRange
  <2>7. rev(x) # 0
    BY <2>4, <2>5, <2>6, RevOf0
  <2> QED
    BY <1>7, <2>5, <2>6, <2>7 DEF c, m
<1> QED
  BY <1>8, <1>9

\* The cursor passes over one block: the hashes that agree with it below the
\* size of the table.
LEMMA OneBlock ==
  ASSUME NEW v \in Nat, NEW j \in 0..Width
  PROVE  LET n == Advance(v, Pow2[j])
         IN  /\ n \in Nat /\ n < Pow2[Width]
             /\ n = 0 \/ rev(n) > rev(v)
             /\ \A h \in Nat : rev(v) <= rev(h) /\ (n # 0 => rev(h) < rev(n))
                                 => h % Pow2[j] = v % Pow2[j]
<1> DEFINE n == Advance(v, Pow2[j])
           m == Pow2[Width - j]
<1>1. PICK r : Reverses(r, v)
  BY RevSteps, Zenon
<1>2. m \in Nat \ {0} /\ Pow2[j] \in Nat
  <2>1. Width - j \in 0..Width
    BY Pow2Is
  <2> QED
    BY <2>1, Pow2Is
<1>3. PICK t \in Nat : t < m /\ rev(v) = r[j] * m + t
  BY <1>1, RevTop
<1>4. r[j] \in Nat
  BY <1>1 DEF Reverses
<1>5. n \in Nat /\ n < Pow2[Width]
  BY <1>1, AdvanceIs
<1>6. (n = 0 /\ r[j] + 1 = Pow2[j]) \/ (n # 0 /\ rev(n) = (r[j] + 1) * m)
  BY <1>1, AdvanceIs
<1>7. rev(v) \in Nat
  BY RevRange
<1> HIDE DEF n, m
<1>8. n = 0 \/ rev(n) > rev(v)
  <2> DEFINE a == r[j]
             b == r[j] + 1
  <2>1. a \in Nat /\ b \in Nat /\ a < b
    BY <1>4
  <2>2. rev(v) = a * m + t /\ (n = 0 \/ rev(n) = b * m)
    BY <1>3, <1>6
  <2> HIDE DEF a, b
  <2>3. a * m + t < b * m /\ a * m \in Nat /\ b * m \in Nat
    BY <1>2, <1>3, <2>1, BlockOrder
  <2> QED
    BY <1>3, <2>2, <2>3
<1>9. ASSUME NEW h \in Nat, rev(v) <= rev(h), n # 0 => rev(h) < rev(n)
      PROVE  h % Pow2[j] = v % Pow2[j]
  <2>1. PICK s : Reverses(s, h)
    BY RevSteps, Zenon
  <2>2. PICK u \in Nat : u < m /\ rev(h) = s[j] * m + u
    BY <2>1, RevTop DEF m
  <2>3. s[j] \in Nat
    BY <2>1 DEF Reverses
  <2>4. s[j] < Pow2[j] /\ (s[j] = r[j] <=> h % Pow2[j] = v % Pow2[j])
    BY <1>1, <2>1, RevTells
  <2> DEFINE a == r[j]
             c == s[j]
  <2>5. a \in Nat /\ c \in Nat /\ a + 1 \in Nat
    BY <1>4, <2>3
  <2>6. /\ rev(v) = a * m + t /\ rev(h) = c * m + u
        /\ (n = 0 /\ a + 1 = Pow2[j]) \/ (n # 0 /\ rev(n) = (a + 1) * m)
    BY <1>3, <1>6, <2>2
  <2>7. c < Pow2[j]
    BY <2>4
  <2> HIDE DEF a, c
  <2>8. ~ (c < a)
    <3> SUFFICES ASSUME c < a PROVE FALSE
      OBVIOUS
    <3>1. c * m + u < a * m /\ c * m \in Nat /\ a * m \in Nat
      BY <1>2, <2>2, <2>5, BlockOrder
    <3> QED
      BY <1>3, <1>9, <2>2, <2>6, <3>1
  <2>9. ~ (a < c)
    <3> SUFFICES ASSUME a < c PROVE FALSE
      OBVIOUS
    <3>1. CASE n = 0
      BY <1>2, <2>5, <2>6, <2>7, <3>1
    <3>2. CASE n # 0
      <4> DEFINE b == a + 1
      <4>1. b \in Nat /\ b <= c /\ rev(n) = b * m
        BY <2>5, <2>6, <3>2
      <4> HIDE DEF b
      <4>2. b * m <= c * m /\ b * m \in Nat /\ c * m \in Nat
        BY <1>2, <2>5, <4>1, TimesKeepsOrder
      <4> QED
        BY <1>9, <2>2, <2>6, <3>2, <4>1, <4>2
    <3> QED
      BY <3>1, <3>2
  <2>10. a = c
    BY <2>5, <2>8, <2>9
  <2> QED
    BY <2>4, <2>10 DEF a, c
<1> QED
  BY <1>5, <1>8, <1>9 DEF n

-----------------------------------------------------------------------------
(* The scan.                                                               *)

\* The index in the larger of two sizes extends that in the smaller.
LEMMA IndexExtends ==
  ASSUME NEW i \in 0..Width, NEW j \in 0..Width, Pow2[i] <= Pow2[j], NEW h \in Nat
  PROVE  (h % Pow2[j]) % Pow2[i] = h % Pow2[i] /\ h % Pow2[i] <= h % Pow2[j]
<1> DEFINE s == Pow2[i]
           l == Pow2[j]
           x == h % l
           q == h \div l
<1>1. s \in Nat \ {0} /\ l \in Nat \ {0} /\ s <= l /\ Width \in Nat
  BY Pow2Is
<1>2. \E c \in Nat \ {0} : l = c * s
  <2>1. CASE i <= j
    <3>1. j - i \in 0..Width /\ (j - i) + i = j /\ (j - i) + i <= Width
      BY <1>1, <2>1
    <3>2. Pow2[(j - i) + i] = Pow2[j - i] * Pow2[i]
      BY <3>1, Pow2Sum
    <3> QED
      BY <3>1, <3>2, Pow2Is
  <2>2. CASE j < i
    <3>1. i - j \in 0..Width /\ (i - j) + j = i /\ (i - j) + j <= Width
      BY <1>1, <2>2
    <3>2. Pow2[(i - j) + j] = Pow2[i - j] * Pow2[j]
      BY <3>1, Pow2Sum
    <3>3. s = Pow2[i - j] * l /\ Pow2[i - j] \in Nat \ {0}
      BY <3>1, <3>2, Pow2Is
    <3> DEFINE g == Pow2[i - j]
    <3> HIDE DEF s, l, g
    <3>4. 1 * l <= g * l
      BY <1>1, <3>3, TimesKeepsOrder DEF g
    <3>5. l = s
      BY <1>1, <3>3, <3>4 DEF g
    <3> QED
      BY <1>1, <3>5
  <2> QED
    BY <1>1, <2>1, <2>2
<1>3. PICK c \in Nat \ {0} : l = c * s
  BY <1>2
<1> HIDE DEF s, l
<1>4. h = q * l + x /\ q \in Int /\ x \in Nat
  BY <1>1, DivMod
<1> HIDE DEF x, q
<1>5. x % s = h % s
  <2>1. h = x + (q * c) * s /\ q * c \in Int
    BY <1>1, <1>3, <1>4, SMTT(30)
  <2> DEFINE n == q * c
  <2>2. h = x + n * s
    BY <2>1
  <2>3. n \in Int /\ x \in Int /\ s \in Nat \ {0}
    BY <1>1, <1>4, <2>1
  <2> HIDE DEF n
  <2>4. (x + n * s) % s = x % s
    BY <2>3, ModShift
  <2> QED
    BY <2>2, <2>4
<1>6. x % s <= x
  <2>1. x % s \in Nat /\ x % s < s
    BY <1>1, <1>4, DivMod
  <2>2. x < s => x % s = x
    BY <1>1, <1>4, ModSmall
  <2> QED
    BY <1>1, <1>4, <2>1, <2>2
<1> QED
  BY <1>5, <1>6 DEF s, l, x

\* The size by which the cursor steps.
StepSize(d) == IF IsRehashing(d) THEN Smaller(d).size ELSE d.ht0.size

LEMMA StepSizeIs ==
  ASSUME NEW d, GoodDict(d), dictSize(d) # 0
  PROVE  /\ \E j \in 0..Width : StepSize(d) = Pow2[j]
         /\ IsRehashing(d) => \E j \in 0..Width : Larger(d).size = Pow2[j]
<1>1. d.ht0.size # 0 /\ (IsRehashing(d) => d.ht1.size # 0)
  <2>1. ASSUME d.ht0.size = 0 PROVE FALSE
    <3>1. d.ht0.used = 0 /\ ~ IsRehashing(d)
      BY <2>1, EmptySecondTable
    <3>2. d.ht1 = NewHT(0)
      BY <3>1, EmptySecondTable
    <3>3. d.ht1.used = 0
      BY <3>2 DEF NewHT
    <3> QED
      BY <3>1, <3>3 DEF dictSize
  <2>2. IsRehashing(d) => d.ht1.size # 0
    BY EmptySecondTable
  <2> QED
    BY <2>1, <2>2
<1>2. d.ht0.size \in Sizes /\ (IsRehashing(d) => d.ht1.size \in Sizes)
  BY <1>1 DEF GoodDict, GoodHT, IsHT
<1> QED
  BY <1>2, WalkAssumption DEF StepSize, Smaller, Larger

\* A Dict that counts no entries has none.
LEMMA NoneLeft ==
  ASSUME NEW d, GoodDict(d), dictSize(d) = 0
  PROVE  KeysOf(Contents(d)) = {}
<1>1. /\ d.ht0.used \in Nat /\ d.ht1.used \in Nat
      /\ IsFiniteSet(Entries(d.ht0)) /\ IsFiniteSet(Entries(d.ht1))
      /\ d.ht0.used = Cardinality(Entries(d.ht0)) /\ d.ht1.used = Cardinality(Entries(d.ht1))
  BY DEF GoodDict, GoodHT, IsHT, Counted
<1>2. d.ht0.used = 0 /\ d.ht1.used = 0
  BY <1>1 DEF dictSize
<1>3. Entries(d.ht0) = {} /\ Entries(d.ht1) = {}
  BY <1>1, <1>2, FS_EmptySet
<1> QED
  BY <1>3 DEF KeysOf, Contents

\* Unless it begins in the middle of a split, a call of dictScan returns every
\* entry whose hash agrees with the cursor.
LEMMA BlockScanned ==
  ASSUME NEW d, GoodDict(d), dictSize(d) # 0, NEW v \in Nat, ~ Midway(d, v),
         NEW k \in KeysOf(Contents(d)), Hash[k] % StepSize(d) = v % StepSize(d)
  PROVE  k \in KeysOf(Scanned(d, v))
<1>1. GoodHT(d.ht0) /\ GoodHT(d.ht1) /\ KeysOf(Contents(d)) \subseteq Key
  BY KeysAreKeys DEF GoodDict
<1>2. Hash[k] \in Nat
  BY <1>1, DictAssumption
<1>3. PICK i \in 0..Width : StepSize(d) = Pow2[i]
  BY StepSizeIs
<1>4. StepSize(d) \in Nat \ {0}
  BY <1>3, Pow2Is
<1>5. v % StepSize(d) \in 0..(StepSize(d) - 1)
  <2> DEFINE s == StepSize(d)
  <2> HIDE DEF s
  <2>1. s \in Nat \ {0}
    BY <1>4 DEF s
  <2>2. v % s \in Nat /\ v % s < s
    BY <2>1, DivMod
  <2>3. v % s \in 0..(s - 1)
    BY <2>1, <2>2
  <2> QED
    BY <2>3 DEF s
<1>6. CASE ~ IsRehashing(d)
  <2>1. k \in KeysOf(Entries(d.ht0)) /\ StepSize(d) = d.ht0.size
    BY <1>6, KeyInOneTable DEF StepSize
  <2>2. k \in KeysOf(d.ht0.table[v % d.ht0.size])
    BY <1>1, <1>5, <2>1, KeyInChain DEF Slot
  <2> QED
    BY <1>6, <2>2 DEF Scanned
<1>7. CASE IsRehashing(d)
  <2> DEFINE S == Smaller(d)
             L == Larger(d)
  <2>1. /\ GoodHT(S) /\ GoodHT(L) /\ S.size <= L.size /\ StepSize(d) = S.size
        /\ k \in KeysOf(Entries(S)) \/ k \in KeysOf(Entries(L))
    <3>1. d.ht0.size \in Nat /\ d.ht1.size \in Nat
      BY SizeIsNat
    <3>2. k \in KeysOf(Entries(d.ht0)) \/ k \in KeysOf(Entries(d.ht1))
      BY KeyInOneTable
    <3> QED
      BY <1>1, <1>7, <3>1, <3>2 DEF Smaller, Larger, StepSize
  <2>2. PICK j \in 0..Width : L.size = Pow2[j]
    BY <1>7, StepSizeIs
  <2>3. v % L.size < S.size /\ v % L.size \in Nat
    <3>1. L.size \in Nat \ {0} /\ S.size \in Nat
      BY <1>4, <2>1, <2>2, Pow2Is
    <3>2. v % L.size \in Nat
      BY <3>1, DivMod
    <3> QED
      BY <1>7, <3>1, <3>2 DEF Midway
  <2>4. Scanned(d, v) = S.table[v % S.size] \cup UNION { L.table[n] : n \in Split(d, v) }
    BY <1>7 DEF Scanned
  <2>5. Split(d, v) = { n \in 0..(L.size - 1) : n % S.size = v % S.size /\ n >= v % L.size }
    BY DEF Split
  <2> HIDE DEF S, L
  <2>6. CASE k \in KeysOf(Entries(S))
    <3>1. k \in KeysOf(S.table[v % S.size])
      BY <1>5, <2>1, <2>6, KeyInChain DEF Slot
    <3> QED
      BY <2>4, <3>1 DEF KeysOf
  <2>7. CASE k \in KeysOf(Entries(L))
    <3> DEFINE n == Slot(L, k)
    <3>1. n \in 0..(L.size - 1) /\ n \in Nat
      BY <2>1, <2>7, KeyHasSlot
    <3>2. k \in KeysOf(L.table[n])
      BY <2>1, <2>7, <3>1, KeyInChain
    <3>3. n % S.size = v % S.size /\ v % S.size <= n
      <4>1. /\ (Hash[k] % Pow2[j]) % Pow2[i] = Hash[k] % Pow2[i]
            /\ Hash[k] % Pow2[i] <= Hash[k] % Pow2[j]
        BY <1>2, <1>3, <2>1, <2>2, IndexExtends
      <4> QED
        BY <1>3, <2>1, <2>2, <4>1 DEF Slot
    <3>4. v % S.size = v % L.size
      <4>1. (v % Pow2[j]) % Pow2[i] = v % Pow2[i]
        BY <1>3, <2>1, <2>2, IndexExtends
      <4> DEFINE x == v % L.size
                 s == S.size
      <4>2. x \in Nat /\ x < s /\ s \in Nat \ {0} /\ x % s = v % s
        BY <1>3, <1>4, <2>1, <2>2, <2>3, <4>1
      <4> HIDE DEF x, s
      <4>3. x % s = x
        BY <4>2, ModSmall
      <4> QED
        BY <4>2, <4>3 DEF x, s
    <3>5. n \in Split(d, v)
      BY <2>3, <2>5, <3>1, <3>3, <3>4
    <3> HIDE DEF n
    <3> QED
      BY <2>4, <3>2, <3>5 DEF KeysOf
  <2> QED
    BY <2>1, <2>6, <2>7
<1> QED
  BY <1>6, <1>7

\* A scan has returned every key that stays and whose hash it has passed.
ScanInv ==
  /\ WalkInv
  /\ cursor \in Nat
  /\ kind = "scan" /\ ~ midway => \A k \in stayed : rev(Hash[k]) < rev(cursor) => k \in seen
  /\ kind = "end" /\ ~ midway => stayed \subseteq seen

LEMMA ScanStarts == WInit => ScanInv
BY WalkStarts DEF WInit, ScanInv

\* What one call of dictScan does to the cursor.
LEMMA CursorSteps ==
  ASSUME GoodDict(dict), cursor \in Nat, dictScan
  PROVE  /\ cursor' \in Nat
         /\ cursor' = 0 \/ rev(cursor') > rev(cursor)
         /\ dictSize(dict) # 0 =>
              \A h \in Nat : rev(cursor) <= rev(h) /\ (cursor' # 0 => rev(h) < rev(cursor'))
                               => h % StepSize(dict) = cursor % StepSize(dict)
<1>1. CASE dictSize(dict) = 0
  BY <1>1 DEF dictScan
<1>2. CASE dictSize(dict) # 0
  <2>1. PICK j \in 0..Width : StepSize(dict) = Pow2[j]
    BY <1>2, StepSizeIs
  <2>2. cursor' = Advance(cursor, Pow2[j])
    BY <1>2, <2>1 DEF dictScan, NextCursor, StepSize
  <2> QED
    BY <2>1, <2>2, OneBlock
<1> QED
  BY <1>1, <1>2

LEMMA ScanSteps == ScanInv /\ [WNext]_wvars => ScanInv'
<1> SUFFICES ASSUME ScanInv, [WNext]_wvars PROVE ScanInv'
  OBVIOUS
<1>1. WalkInv /\ WalkInv' /\ GoodDict(dict) /\ cursor \in Nat
  BY WalkSteps DEF ScanInv, WalkInv, Inv
<1>2. ASSUME NEW n \in {"scan", "iterate"}, Begin(n) PROVE ScanInv'
  <2>1. kind' = n /\ cursor' = 0 /\ stayed' = KeysOf(Contents(dict)) /\ seen' = {} /\ UNCHANGED vars
    BY <1>2 DEF Begin
  <2>2. \A k \in stayed' : ~ (rev(Hash[k]) < rev(cursor'))
    <3>1. ASSUME NEW k \in KeysOf(Contents(dict)) PROVE ~ (rev(Hash[k]) < 0)
      <4>1. Hash[k] \in Nat
        BY <1>1, KeysAreKeys, DictAssumption
      <4> QED
        BY <4>1, RevRange
    <3> QED
      BY <2>1, <3>1, RevOf0
  <2> QED
    BY <1>1, <2>1, <2>2 DEF ScanInv
<1>3. CASE dictScan
  <2>1. /\ kind = "scan" /\ stayed' = stayed /\ kind' = IF cursor' = 0 THEN "end" ELSE "scan"
    BY <1>3 DEF dictScan
  <2>2. ASSUME ~ midway', NEW k \in stayed, cursor' # 0 => rev(Hash[k]) < rev(cursor')
        PROVE  k \in seen'
    <3>1. k \in KeysOf(Contents(dict)) /\ Hash[k] \in Nat
      BY <1>1, KeysAreKeys, DictAssumption DEF WalkInv
    <3>2. dictSize(dict) # 0
      BY <1>1, <3>1, NoneLeft
    <3>3. ~ midway /\ ~ Midway(dict, cursor) /\ seen' = seen \cup KeysOf(Scanned(dict, cursor))
      BY <1>3, <2>2, <3>2 DEF dictScan
    <3>4. CASE rev(Hash[k]) < rev(cursor)
      BY <2>1, <3>3, <3>4 DEF ScanInv
    <3>5. CASE ~ (rev(Hash[k]) < rev(cursor))
      <4>1. rev(cursor) <= rev(Hash[k])
        BY <1>1, <3>1, <3>5, RevRange
      <4>2. Hash[k] % StepSize(dict) = cursor % StepSize(dict)
        BY <1>1, <1>3, <2>2, <3>1, <3>2, <4>1, CursorSteps
      <4>3. k \in KeysOf(Scanned(dict, cursor))
        BY <1>1, <3>1, <3>2, <3>3, <4>2, BlockScanned
      <4> QED
        BY <3>3, <4>3
    <3> QED
      BY <3>4, <3>5
  <2>3. cursor' \in Nat
    BY <1>1, <1>3, CursorSteps
  <2>4. kind' = "scan" /\ ~ midway' =>
          \A k \in stayed' : rev(Hash[k]) < rev(cursor') => k \in seen'
    BY <2>1, <2>2
  <2>5. kind' = "end" /\ ~ midway' => stayed' \subseteq seen'
    BY <2>1, <2>2
  <2> QED
    BY <1>1, <2>3, <2>4, <2>5 DEF ScanInv
<1>4. CASE dictNext
  BY <1>1, <1>4 DEF dictNext, Return, ScanInv
<1>5. CASE dictNextEnds
  <2>1. stayed' \subseteq seen'
    BY <1>1, <1>5, IterationEnds
  <2> QED
    BY <1>1, <1>5, <2>1 DEF dictNextEnds, ScanInv
<1>6. CASE Between
  BY <1>1, <1>6 DEF Between, ScanInv
<1>7. CASE End
  BY <1>1, <1>7 DEF End, ScanInv
<1>8. CASE UNCHANGED wvars
  BY <1>1, <1>8 DEF wvars, walk, ScanInv
<1> QED
  BY <1>2, <1>3, <1>4, <1>5, <1>6, <1>7, <1>8 DEF WNext

\* A walk that ends without having met a split in its middle has returned every
\* entry that was in the Dict throughout, whatever grew, shrank and rehashed
\* between its calls (dictScan, dictNext).
THEOREM WalkCompleteAlways == WSpec => []WalkComplete
<1>1. ScanInv => WalkComplete
  BY DEF ScanInv, WalkComplete
<1> QED
  BY <1>1, ScanStarts, ScanSteps, PTL DEF WSpec

\* The cursor of dictScan, its bits reversed, only goes up, from whatever table
\* to whatever other (dict.c, the reverse binary increment).
THEOREM ScanAdvancesAlways == WSpec => ScanAdvances
<1>1. ScanInv /\ [WNext]_wvars => [dictScan => cursor' = 0 \/ rev(cursor') > rev(cursor)]_wvars
  BY CursorSteps DEF ScanInv, WalkInv, Inv
<1> QED
  BY <1>1, ScanStarts, ScanSteps, PTL DEF WSpec, ScanAdvances

\* A chain lies within the contents, and so does what a call of dictScan returns.
LEMMA ScannedAreKeys ==
  ASSUME NEW d, GoodDict(d), dictSize(d) # 0, NEW v \in Nat
  PROVE  KeysOf(Scanned(d, v)) \subseteq Key
<1>1. \A ht \in {d.ht0, d.ht1} : \A i \in 0..(ht.size - 1) : KeysOf(ht.table[i]) \subseteq Key
  <2> SUFFICES ASSUME NEW ht \in {d.ht0, d.ht1}, NEW i \in 0..(ht.size - 1)
               PROVE  KeysOf(ht.table[i]) \subseteq Key
    OBVIOUS
  <2>1. ht.table \in [0..(ht.size - 1) -> SUBSET Entry]
    BY DEF GoodDict, GoodHT, IsHT
  <2>2. \A e \in ht.table[i] : e \in Entry
    BY <2>1
  <2> QED
    BY <2>2 DEF KeysOf, Entry
<1>2. PICK j \in 0..Width : StepSize(d) = Pow2[j]
  BY StepSizeIs
<1>3. v % StepSize(d) \in 0..(StepSize(d) - 1)
  <2> DEFINE s == StepSize(d)
  <2>1. s \in Nat \ {0}
    BY <1>2, Pow2Is
  <2> HIDE DEF s
  <2>2. v % s \in Nat /\ v % s < s
    BY <2>1, DivMod
  <2>3. v % s \in 0..(s - 1)
    BY <2>1, <2>2
  <2> QED
    BY <2>3 DEF s
<1>4. CASE ~ IsRehashing(d)
  BY <1>1, <1>3, <1>4 DEF StepSize, Scanned
<1>5. CASE IsRehashing(d)
  <2>1. Smaller(d) \in {d.ht0, d.ht1} /\ Larger(d) \in {d.ht0, d.ht1} /\ StepSize(d) = Smaller(d).size
    BY <1>5 DEF Smaller, Larger, StepSize
  <2>2. KeysOf(Smaller(d).table[v % Smaller(d).size]) \subseteq Key
    BY <1>1, <1>3, <2>1
  <2>3. \A i \in Split(d, v) : KeysOf(Larger(d).table[i]) \subseteq Key
    BY <1>1, <2>1 DEF Split
  <2> QED
    BY <1>5, <2>2, <2>3 DEF Scanned, KeysOf
<1> QED
  BY <1>4, <1>5

LEMMA PlacesBound ==
  ASSUME NEW d, GoodDict(d)
  PROVE  Places(d) \subseteq 0..(2 * MaxSize)
<1>1. MaxSize \in Nat /\ \A s \in Sizes \cup {0} : s \in Nat /\ s <= MaxSize
  BY DictAssumption
<1>2. d.ht0.size \in Sizes \cup {0} /\ d.ht1.size \in Sizes \cup {0}
  BY DEF GoodDict, GoodHT, IsHT
<1> QED
  BY <1>1, <1>2 DEF Places

LEMMA TypeSteps == ScanInv /\ WTypeOK /\ [WNext]_wvars => WTypeOK'
<1> SUFFICES ASSUME ScanInv, WTypeOK, [WNext]_wvars PROVE WTypeOK'
  OBVIOUS
<1>1. /\ WalkInv /\ WalkInv' /\ GoodDict(dict) /\ cursor \in Nat /\ TypeOK'
      /\ KeysOf(Contents(dict)) \subseteq Key /\ KeysOf(Contents(dict')) \subseteq Key
  <2>1. WalkInv /\ WalkInv' /\ Inv /\ Inv' /\ cursor \in Nat
    BY WalkSteps DEF ScanInv, WalkInv
  <2>2. GoodDict(dict) /\ GoodDict(dict') /\ TypeOK'
    BY <2>1 DEF Inv, GoodDict, GoodHT, TypeOK
  <2> QED
    BY <2>1, <2>2, KeysAreKeys
<1>2. Pow2[Width] \in Nat \ {0} /\ 0 \in 0..(Pow2[Width] - 1)
  <2>1. Width \in 0..Width
    BY Pow2Is
  <2> QED
    BY <2>1, Pow2Is
<1>3. NewIterator.at \in -1..(2 * MaxSize) /\ NewIterator.next \in Key \cup {NoKey}
      /\ NewIterator.behind \subseteq Key
  BY DictAssumption DEF NewIterator
<1>4. ASSUME NEW n \in {"scan", "iterate"}, Begin(n) PROVE WTypeOK'
  BY <1>1, <1>2, <1>3, <1>4 DEF Begin, WTypeOK
<1>5. CASE dictScan
  <2>1. cursor' \in 0..(Pow2[Width] - 1) /\ seen' \subseteq Key
    <3>1. CASE dictSize(dict) = 0
      BY <1>2, <1>5, <3>1 DEF dictScan, WTypeOK
    <3>2. CASE dictSize(dict) # 0
      <4>1. PICK j \in 0..Width : StepSize(dict) = Pow2[j]
        BY <1>1, <3>2, StepSizeIs
      <4>2. cursor' = Advance(cursor, Pow2[j]) /\ seen' = seen \cup KeysOf(Scanned(dict, cursor))
        BY <1>5, <3>2, <4>1 DEF dictScan, NextCursor, StepSize
      <4>3. cursor' \in Nat /\ cursor' < Pow2[Width]
        BY <1>1, <4>2, OneBlock
      <4> QED
        BY <1>1, <1>2, <3>2, <4>2, <4>3, ScannedAreKeys DEF WTypeOK
    <3> QED
      BY <3>1, <3>2
  <2>2. kind' \in {"scan", "end"} /\ UNCHANGED <<it, twice, stayed>> /\ seen \subseteq seen'
    BY <1>5 DEF dictScan
  <2> QED
    BY <1>1, <2>1, <2>2 DEF WTypeOK
<1>6. CASE dictNext
  <2>1. /\ kind' = "iterate" /\ UNCHANGED <<cursor, stayed>> /\ kind = "iterate"
    BY <1>6 DEF dictNext, Return
  <2>2. ASSUME NEW k \in Key, NEW n \in -1..(2 * MaxSize), NEW behind \in SUBSET Key, Return(k, n, behind)
        PROVE  WTypeOK'
    <3>1. /\ it'.at = n /\ it'.behind = behind /\ it'.next \in IF behind = {} THEN {NoKey} ELSE behind
          /\ seen' = seen \cup {k} /\ twice' = twice \cup ({k} \cap seen)
      BY <2>2 DEF Return
    <3> QED
      BY <1>1, <2>1, <2>2, <3>1 DEF WTypeOK
  <2>3. CASE it.next # NoKey /\ Return(it.next, it.at, it.behind \ {it.next})
    <3>1. it.next \in Key /\ it.at \in -1..(2 * MaxSize) /\ it.behind \ {it.next} \in SUBSET Key
      BY <2>3 DEF WTypeOK
    <3> QED
      BY <2>2, <2>3, <3>1
  <2>4. ASSUME NEW n \in Found(dict, it.at), NEW k \in ChainAt(dict, n), Return(k, n, ChainAt(dict, n) \ {k})
        PROVE  WTypeOK'
    <3>1. n \in Places(dict) /\ n \in -1..(2 * MaxSize)
      BY <1>1, PlacesBound, DictAssumption DEF Found
    <3>2. ChainAt(dict, n) \subseteq Key
      BY <1>1, <3>1, InPlace
    <3>3. k \in Key /\ ChainAt(dict, n) \ {k} \in SUBSET Key
      BY <3>2
    <3> QED
      BY <2>2, <2>4, <3>1, <3>3
  <2> QED
    BY <1>6, <2>3, <2>4 DEF dictNext
<1>7. CASE dictNextEnds
  BY <1>1, <1>7 DEF dictNextEnds, WTypeOK
<1>8. CASE Between
  <2>1. /\ kind' = kind /\ UNCHANGED <<cursor, seen, twice>> /\ stayed' \subseteq stayed
        /\ it' = [it EXCEPT !.behind = @ \cap KeysOf(Contents(dict'))]
    BY <1>8 DEF Between
  <2>2. it' = [at |-> it.at, next |-> it.next, behind |-> it.behind \cap KeysOf(Contents(dict'))]
    BY <1>1, <2>1 DEF WalkInv
  <2>3. it'.at = it.at /\ it'.next = it.next /\ it'.behind \subseteq it.behind
    BY <2>2
  <2> QED
    BY <1>1, <2>1, <2>3 DEF WTypeOK
<1>9. CASE End
  BY <1>1, <1>2, <1>3, <1>9 DEF End, WTypeOK
<1>10. CASE UNCHANGED wvars
  BY <1>1, <1>10 DEF wvars, walk, WTypeOK
<1> QED
  BY <1>4, <1>5, <1>6, <1>7, <1>8, <1>9, <1>10 DEF WNext

\* A cursor, an iterator and what a walk has returned keep their types; the
\* cursor stays within its bits, the iterator within the two tables.
THEOREM WalkTypeCorrect == WSpec => []WTypeOK
<1>1. WInit => WTypeOK
  <2> SUFFICES ASSUME WInit PROVE WTypeOK
    OBVIOUS
  <2>1. TypeOK
    BY InitInv DEF WInit, Inv, GoodDict, GoodHT, TypeOK
  <2>2. Pow2[Width] \in Nat \ {0} /\ 0 \in 0..(Pow2[Width] - 1)
    <3>1. Width \in 0..Width
      BY Pow2Is
    <3> QED
      BY <3>1, Pow2Is
  <2> QED
    BY <2>1, <2>2, DictAssumption DEF WInit, NewIterator, WTypeOK
<1> QED
  BY <1>1, ScanStarts, ScanSteps, TypeSteps, PTL DEF WSpec
=============================================================================
