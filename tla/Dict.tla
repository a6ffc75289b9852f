-------------------------------- MODULE Dict --------------------------------
(***************************************************************************)
(* The hash table of src/src/dict.c: two tables, ht[0] and ht[1], and an   *)
(* incremental rehash that moves ht[0] into ht[1] a few buckets per call.  *)
(*                                                                         *)
(* A chain is the set of its entries (its order only decides which entry   *)
(* a walk meets first).  Table sizes are powers of two, so `h & size_mask' *)
(* is h % size.  Every call runs to completion before the next: the code   *)
(* is single-threaded, and one call is one action.                         *)
(***************************************************************************)
EXTENDS Integers, FiniteSets

CONSTANTS Key, Val, NoVal,
          Hash,                 \* type->hashFunction, as a function on Key
          Sizes,                \* the table sizes memory allows (bound)
          MaxSize,              \* the largest of them (bound)
          DICT_HT_INITIAL_SIZE, \* 4 in dict.h
          ForceRatio,           \* dict_force_resize_ratio, 5
          EmptyVisits,          \* empty buckets a step may skip, 10
          RehashBatch,          \* steps per call of dictRehashMilliseconds, 100
          MaxIterators          \* safe iterators alive at once (bound)

ASSUME DictAssumption ==
  /\ NoVal \notin Val
  /\ IsFiniteSet(Key)
  /\ Hash \in [Key -> Nat]
  /\ MaxSize \in Nat /\ 2 * Cardinality(Key) <= MaxSize
  /\ Sizes \subseteq 1..MaxSize
  /\ DICT_HT_INITIAL_SIZE \in Sizes
  /\ {ForceRatio, MaxIterators} \subseteq Nat
  /\ {EmptyVisits, RehashBatch} \subseteq Nat \ {0}
  /\ \A n \in 0..MaxSize : \E p \in Sizes :
        p >= n /\ \A q \in Sizes : q >= n => p <= q

VARIABLES dict,       \* the Dict: its two tables, rehashidx and iterators
          canResize,  \* dict_can_resize
          live,       \* safe iterators started and not yet released
          ret         \* the last answer, as in KeyValueMap

vars == <<dict, canResize, live, ret>>

-----------------------------------------------------------------------------
(* Tables and buckets.                                                     *)

Entry == [key : Key, val : Val]

NewHT(n) == [size |-> n, used |-> 0, table |-> [i \in 0..(n - 1) |-> {}]]

IsHT(ht) == /\ ht = [size |-> ht.size, used |-> ht.used, table |-> ht.table]
            /\ ht.size \in Sizes \cup {0}
            /\ ht.used \in Nat
            /\ ht.table \in [0..(ht.size - 1) -> SUBSET Entry]

Slot(ht, k) == Hash[k] % ht.size

Entries(ht) == UNION { ht.table[i] : i \in 0..(ht.size - 1) }

IsRehashing(d) == d.rehashidx # -1

\* d with other tables; its safe iterators are what they were.
With(d, ht0, ht1, rehashidx) ==
  [ht0 |-> ht0, ht1 |-> ht1, rehashidx |-> rehashidx, iterators |-> d.iterators]

Contents(d) == Entries(d.ht0) \cup Entries(d.ht1)

\* The entries a walk of the one chain that can hold k compares equal to k.
Matches(ht, k) == { e \in ht.table[Slot(ht, k)] : e.key = k }

\* _dictNextPower: the least table size that is no less than n.
NextPower(n) == CHOOSE p \in Sizes :
                  p >= n /\ \A q \in Sizes : q >= n => p <= q

-----------------------------------------------------------------------------
(* dictExpand and _dictExpandIfNeeded.                                     *)

ExpandRefused(d, n) == \/ IsRehashing(d)
                       \/ d.ht0.used > n
                       \/ NextPower(n) = d.ht0.size

Expand(d, n) ==
  IF ExpandRefused(d, n) THEN d
  ELSE IF d.ht0.size = 0 THEN With(d, NewHT(NextPower(n)), d.ht1, -1)
  ELSE With(d, d.ht0, NewHT(NextPower(n)), 0)

Crowded(d) == /\ d.ht0.used >= d.ht0.size
              /\ canResize \/ d.ht0.used \div d.ht0.size > ForceRatio

\* Its dictExpand never refuses: the size it asks for is above the present one.
ExpandIfNeeded(d) ==
  IF IsRehashing(d) THEN d
  ELSE IF d.ht0.size = 0 THEN Expand(d, DICT_HT_INITIAL_SIZE)
  ELSE IF Crowded(d) THEN Expand(d, d.ht0.used * 2)
  ELSE d

-----------------------------------------------------------------------------
(* dictRehash.  The walk starts at rehashidx and stops at bucket j, where  *)
(* all n buckets are moved, or n * EmptyVisits empty ones were skipped, or *)
(* ht[0] holds nothing more.                                               *)

Moved(d, j) == UNION { d.ht0.table[i] : i \in d.rehashidx..(j - 1) }

StopsAt(d, n, j) ==
  LET walked == d.rehashidx..(j - 1)
      empty  == { i \in walked : d.ht0.table[i] = {} }
  IN  \/ Cardinality(walked \ empty) = n
      \/ Cardinality(empty) = n * EmptyVisits
      \/ d.ht0.used = Cardinality(Moved(d, j))

RehashStops(d, n) ==
  { j \in d.rehashidx..d.ht0.size :
      StopsAt(d, n, j) /\ \A i \in d.rehashidx..(j - 1) : ~ StopsAt(d, n, i) }

HTWith(ht, used, table) == [size |-> ht.size, used |-> used, table |-> table]

Take(ht, moved, from, to) ==
  HTWith(ht, ht.used - Cardinality(moved),
         [i \in 0..(ht.size - 1) |-> IF i \in from..to THEN {} ELSE ht.table[i]])

Give(ht, moved) ==
  HTWith(ht, ht.used + Cardinality(moved),
         [i \in 0..(ht.size - 1) |->
            ht.table[i] \cup { e \in moved : Slot(ht, e.key) = i }])

\* When ht[0] is drained ht[1] takes its place and the rehash is over.
RehashTo(d, j) ==
  LET moved == Moved(d, j)
      from  == Take(d.ht0, moved, d.rehashidx, j - 1)
      to    == Give(d.ht1, moved)
  IN  IF from.used = 0
      THEN With(d, to, NewHT(0), -1) ELSE With(d, from, to, j)

Rehashed(d, n) == { RehashTo(d, j) : j \in RehashStops(d, n) }

\* _dictRehashStep, as the calls make it: only while rehashing, and never
\* under a safe iterator.
RehashStep(d) ==
  IF IsRehashing(d) /\ d.iterators = 0 THEN Rehashed(d, 1) ELSE {d}

-----------------------------------------------------------------------------
(* Looking up, adding and removing one entry.                              *)

\* Mutant: a rehash does not make lookups probe the second table.
Lookup_FirstTable(d, k) == IF d.ht0.size = 0 THEN {} ELSE Matches(d.ht0, k)

\* The entries dictFind can return: the first table answers if it can.
Lookup(d, k) ==
  IF d.ht0.size = 0 THEN {}
  ELSE IF Matches(d.ht0, k) # {} THEN Matches(d.ht0, k)
  ELSE IF IsRehashing(d) THEN Matches(d.ht1, k)
  ELSE {}

Rechain(ht, k, chain) == [ht.table EXCEPT ![Slot(ht, k)] = chain]
Chain(ht, k) == ht.table[Slot(ht, k)]

\* Mutants: an entry linked without counting it, one counted off twice.
Put_Uncounted(ht, e) ==
  HTWith(ht, ht.used, Rechain(ht, e.key, Chain(ht, e.key) \cup {e}))

Drop_Twice(ht, e) ==
  HTWith(ht, ht.used - 2, Rechain(ht, e.key, Chain(ht, e.key) \ {e}))

Put(ht, e) ==
  HTWith(ht, ht.used + 1, Rechain(ht, e.key, Chain(ht, e.key) \cup {e}))

Drop(ht, e) ==
  HTWith(ht, ht.used - 1, Rechain(ht, e.key, Chain(ht, e.key) \ {e}))

SetVal(ht, e, v) ==
  HTWith(ht, ht.used, Rechain(ht, e.key, (Chain(ht, e.key) \ {e})
                                         \cup {[key |-> e.key, val |-> v]}))

\* Calls that change one of the two tables.
With0(d, ht) == With(d, ht, d.ht1, d.rehashidx)
With1(d, ht) == With(d, d.ht0, ht, d.rehashidx)

\* Both act on the table whose chain holds e.
Remove(d, e) ==
  IF e \in Matches(d.ht0, e.key) THEN With0(d, Drop(d.ht0, e))
                                 ELSE With1(d, Drop(d.ht1, e))

Update(d, e, v) ==
  IF e \in Matches(d.ht0, e.key) THEN With0(d, SetVal(d.ht0, e, v))
                                 ELSE With1(d, SetVal(d.ht1, e, v))

\* Mutant: new entries go to ht[0] during a rehash too.
Insert_OldTable(d, e) == With0(d, Put(d.ht0, e))

\* New entries go to ht[1] during a rehash.
Insert(d, e) == IF IsRehashing(d) THEN With1(d, Put(d.ht1, e))
                                  ELSE With0(d, Put(d.ht0, e))

-----------------------------------------------------------------------------
(* The calls.                                                              *)

Init == /\ dict = [ht0 |-> NewHT(0), ht1 |-> NewHT(0),
                   rehashidx |-> -1, iterators |-> 0]
        /\ canResize = TRUE
        /\ live = 0
        /\ ret = <<"none", NoVal, NoVal>>

\* dictAdd: _dictKeyIndex makes room before it looks for the key, so a call
\* that fails because the key is there may still have grown the table.
dictAdd(k, v) ==
  \E d \in RehashStep(dict) :
    LET room == ExpandIfNeeded(d)
    IN  /\ IF Lookup(room, k) = {}
           THEN /\ dict' = Insert(room, [key |-> k, val |-> v])
                /\ ret' = <<"add", k, "DICT_OK">>
           ELSE /\ dict' = room
                /\ ret' = <<"add", k, "DICT_ERR">>
        /\ UNCHANGED <<canResize, live>>

\* dictReplace: a failed dictAdd, then dictFind with a rehash step of its own.
dictReplace(k, v) ==
  \E d \in RehashStep(dict) :
    LET room == ExpandIfNeeded(d)
    IN  /\ \/ /\ Lookup(room, k) = {}
              /\ dict' = Insert(room, [key |-> k, val |-> v])
              /\ ret' = <<"replace", k, 1>>
           \/ /\ Lookup(room, k) # {}
              /\ \E f \in RehashStep(room) : \E e \in Lookup(f, k) :
                   dict' = Update(f, e, v)
              /\ ret' = <<"replace", k, 0>>
        /\ UNCHANGED <<canResize, live>>

\* dictGenericDelete, under dictDelete and dictDeleteNoFree.
dictDelete(k) ==
  \E d \in RehashStep(dict) :
    /\ \/ /\ Lookup(d, k) = {}
          /\ dict' = d
          /\ ret' = <<"delete", k, "DICT_ERR">>
       \/ /\ \E e \in Lookup(d, k) : dict' = Remove(d, e)
          /\ ret' = <<"delete", k, "DICT_OK">>
    /\ UNCHANGED <<canResize, live>>

dictFind(k) ==
  \E d \in RehashStep(dict) :
    /\ dict' = d
    /\ \/ Lookup(d, k) = {} /\ ret' = <<"find", k, NoVal>>
       \/ \E e \in Lookup(d, k) : ret' = <<"find", k, e.val>>
    /\ UNCHANGED <<canResize, live>>

dictSize(d) == d.ht0.used + d.ht1.used

\* The entries of the buckets dictGetRandomKey draws from: during a rehash it
\* skips the buckets of ht[0] below rehashidx, otherwise it ignores ht[1].
Unmoved(d) == UNION { d.ht0.table[i] : i \in d.rehashidx..(d.ht0.size - 1) }

Candidates(d) == IF IsRehashing(d) THEN Unmoved(d) \cup Entries(d.ht1)
                                   ELSE Entries(d.ht0)

dictGetRandomKey ==
  /\ IF dictSize(dict) = 0
     THEN ret' = <<"random", NoVal, NoVal>> /\ UNCHANGED dict
     ELSE \E d \in RehashStep(dict) :
            /\ dict' = d
            /\ \E e \in Candidates(d) : ret' = <<"random", e.key, e.val>>
  /\ UNCHANGED <<canResize, live>>

\* dictExpand as callers use it, to make room for n entries in advance.
dictExpand(n) ==
  /\ dict' = Expand(dict, n)
  /\ UNCHANGED <<canResize, live, ret>>

\* dictResize: the smallest table that holds what there is.
dictResize ==
  LET least == IF dict.ht0.used < DICT_HT_INITIAL_SIZE
               THEN DICT_HT_INITIAL_SIZE ELSE dict.ht0.used
  IN  /\ dict' = IF canResize THEN Expand(dict, least) ELSE dict
      /\ UNCHANGED <<canResize, live, ret>>

\* One dictRehash(d, 100) of dictRehashMilliseconds, whose clock may end the
\* loop after any of them.  It does not look at the iterators.
dictRehashMilliseconds ==
  /\ IsRehashing(dict)
  /\ dict' \in Rehashed(dict, RehashBatch)
  /\ UNCHANGED <<canResize, live, ret>>

\* Mutant: only the first table is cleared.
dictEmpty_FirstTable ==
  /\ dict' = [dict EXCEPT !.ht0 = NewHT(0), !.rehashidx = -1, !.iterators = 0]
  /\ UNCHANGED <<canResize, live, ret>>

\* dictEmpty also forgets the iterators, those alive included.
dictEmpty ==
  /\ dict' = [ht0 |-> NewHT(0), ht1 |-> NewHT(0),
              rehashidx |-> -1, iterators |-> 0]
  /\ UNCHANGED <<canResize, live, ret>>

\* dictEnableResize and dictDisableResize.
dictSetResize(on) ==
  /\ canResize' = on
  /\ UNCHANGED <<dict, live, ret>>

\* The first dictNext of a safe iterator, and its dictReleaseIterator.
startSafeIterator ==
  /\ live < MaxIterators
  /\ live' = live + 1
  /\ dict' = [dict EXCEPT !.iterators = @ + 1]
  /\ UNCHANGED <<canResize, ret>>

dictReleaseIterator ==
  /\ live > 0
  /\ live' = live - 1
  /\ dict' = [dict EXCEPT !.iterators = @ - 1]
  /\ UNCHANGED <<canResize, ret>>

Next == \/ \E k \in Key, v \in Val : dictAdd(k, v) \/ dictReplace(k, v)
        \/ \E k \in Key : dictDelete(k) \/ dictFind(k)
        \/ dictGetRandomKey
        \/ \E n \in Sizes : dictExpand(n)
        \/ dictResize
        \/ dictRehashMilliseconds
        \/ dictEmpty
        \/ \E on \in BOOLEAN : dictSetResize(on)
        \/ startSafeIterator
        \/ dictReleaseIterator

Spec == Init /\ [][Next]_vars

-----------------------------------------------------------------------------
(* What must hold between calls.                                           *)

IsDict(d) == /\ d = [ht0 |-> d.ht0, ht1 |-> d.ht1,
                     rehashidx |-> d.rehashidx, iterators |-> d.iterators]
             /\ IsHT(d.ht0) /\ IsHT(d.ht1)
             /\ d.rehashidx \in Int /\ d.iterators \in Int

\* Every field has the type dict.h gives it; tables are whole or empty.
TypeOK == /\ IsDict(dict)
          /\ canResize \in BOOLEAN
          /\ live \in 0..MaxIterators

\* ht[1] exists exactly during a rehash, and the buckets of ht[0] below
\* rehashidx have been moved.
RehashShape(d) ==
  IF IsRehashing(d)
  THEN /\ d.rehashidx \in 0..d.ht0.size
       /\ d.ht0.size > 0 /\ d.ht1.size > 0
       /\ \A i \in 0..(d.rehashidx - 1) : d.ht0.table[i] = {}
  ELSE d.ht1 = NewHT(0)

\* Entries lie in the chain their hash selects.
Placed(ht) == \A i \in 0..(ht.size - 1) :
                \A e \in ht.table[i] : Slot(ht, e.key) = i

\* No key has two entries, in one chain or in the two tables.
OneEntryPerKey(d) ==
  /\ \A e, f \in Contents(d) : e.key = f.key => e = f
  /\ Entries(d.ht0) \cap Entries(d.ht1) = {}

\* `used' is the number of entries of each table (dict.h dictSize, the load
\* factor and the end of a rehash all trust it).
Counted(ht) == ht.used = Cardinality(Entries(ht))

UsedExact == Counted(dict.ht0) /\ Counted(dict.ht1)

\* Lookup misses no entry in either table, whatever the rehash has moved
\* (dict.c dictFind: it probes one chain per table).
NothingLost ==
  \A e \in Contents(dict) : Lookup(dict, e.key) = {e}

\* The assertion of dictRehash, size > rehashidx, and the scan for the next
\* bucket under it: while ht[0] counts entries, one lies at or past rehashidx,
\* so the scan ends inside the table.
RehashIndexInRange ==
  IsRehashing(dict) /\ dict.ht0.used # 0 =>
    \E i \in dict.rehashidx..(dict.ht0.size - 1) : dict.ht0.table[i] # {}

\* dictGetRandomKey can draw every entry, and its draw from the buckets ends
\* when the dictionary is not empty.
EveryEntryDrawn ==
  /\ Candidates(dict) = Contents(dict)
  /\ dictSize(dict) # 0 => Candidates(dict) # {}

\* The map a Dict stands for, and dictionary calls as operations on it: the
\* calls that only rehash, resize or iterate change nothing a caller sees.
ValueOf(d, k) ==
  IF \E e \in Contents(d) : e.key = k
  THEN (CHOOSE e \in Contents(d) : e.key = k).val
  ELSE NoVal

Map == INSTANCE KeyValueMap WITH map <- [k \in Key |-> ValueOf(dict, k)]

MapSpec == Map!Spec
=============================================================================
