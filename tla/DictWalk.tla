------------------------------ MODULE DictWalk ------------------------------
(***************************************************************************)
(* The two ways of walking a Dict of src/src/dict.c while it is in use:    *)
(* dictScan, whose cursor outlives any number of calls between two of its  *)
(* own, and the safe iterator, under which no call may move an entry.      *)
(* One walk is made at a time, among all the calls of Dict.                *)
(***************************************************************************)
EXTENDS Dict

CONSTANTS Width,   \* bits of the cursor, an unsigned long
          NoKey

Pow2[i \in 0..Width] == IF i = 0 THEN 1 ELSE 2 * Pow2[i - 1]

\* _dictNextPower only doubles (LONG_MAX, its other answer, is more than memory
\* allows), and a cursor has the bits of any size.
ASSUME WalkAssumption == /\ Width \in Nat /\ NoKey \notin Key
                         /\ Sizes \subseteq { Pow2[i] : i \in 0..Width }

VARIABLES kind,    \* the walk: "none", "scan", "iterate" or "end"
          cursor,  \* the cursor of the scan
          it,      \* the iterator: bucket, nextEntry, what is chained behind
          seen,    \* history: the keys the walk has returned,
          twice,   \* those the iterator has returned again,
          stayed,  \* and those in the Dict ever since the walk began
          midway   \* history: the scan has begun in the middle of a split

walk  == <<kind, cursor, it, seen, twice, midway>>
wvars == <<vars, walk, stayed>>

KeysOf(entries) == { e.key : e \in entries }

\* The iterator of dictGetIterator, before its first bucket.
NewIterator == [at |-> -1, next |-> NoKey, behind |-> {}]

WInit == /\ Init
         /\ kind = "none" /\ cursor = 0 /\ it = NewIterator
         /\ seen = {} /\ twice = {} /\ stayed = {} /\ midway = FALSE

Begin(k) == /\ kind = "none"
            /\ kind' = k
            /\ cursor' = 0 /\ it' = NewIterator
            /\ seen' = {} /\ twice' = {} /\ midway' = FALSE
            /\ stayed' = KeysOf(Contents(dict))
            /\ UNCHANGED vars

-----------------------------------------------------------------------------
(* dictScan.                                                               *)

Bit(v, i) == (v \div Pow2[i]) % 2

\* rev: the bits of v in the opposite order.
rev(v) == LET r[i \in 0..Width] ==
                IF i = 0 THEN 0 ELSE r[i - 1] * 2 + Bit(v, i - 1)
          IN  r[Width]

\* Mutant: the cursor counts up.
Advance_Counts(v, size) == ((v % size) + 1) % size

\* v |= ~mask, and one up with the bits reversed.
Advance(v, size) == rev((rev((v % size) + (Pow2[Width] - size)) + 1) % Pow2[Width])

Smaller(d) == IF d.ht0.size > d.ht1.size THEN d.ht1 ELSE d.ht0
Larger(d)  == IF d.ht0.size > d.ht1.size THEN d.ht0 ELSE d.ht1

\* The buckets of the larger table that the bucket of v splits into: their
\* indices agree with v below the size of the smaller one, and the loop goes on
\* from v until the bits above are back to 0.
Split(d, v) ==
  LET low == Smaller(d).size
  IN  { i \in 0..(Larger(d).size - 1) : i % low = v % low /\ i >= v % Larger(d).size }

\* The loop does not go back to the indices below that of v.
Midway(d, v) == IsRehashing(d) /\ v % Larger(d).size >= Smaller(d).size

\* Mutant: during a rehash only the smaller table is visited.
Scanned_SmallerOnly(d, v) ==
  IF IsRehashing(d) THEN Smaller(d).table[v % Smaller(d).size]
                    ELSE d.ht0.table[v % d.ht0.size]

\* The entries that dictScan passes to its callback.
Scanned(d, v) ==
  IF IsRehashing(d)
  THEN Smaller(d).table[v % Smaller(d).size]
       \cup UNION { Larger(d).table[i] : i \in Split(d, v) }
  ELSE d.ht0.table[v % d.ht0.size]

NextCursor(d, v) == Advance(v, IF IsRehashing(d) THEN Smaller(d).size ELSE d.ht0.size)

\* An empty Dict answers 0, and 0 ends a scan.
dictScan ==
  /\ kind = "scan"
  /\ IF dictSize(dict) = 0
     THEN cursor' = 0 /\ UNCHANGED <<seen, midway>>
     ELSE /\ cursor' = NextCursor(dict, cursor)
          /\ midway' = (midway \/ Midway(dict, cursor))
          /\ seen' = seen \cup KeysOf(Scanned(dict, cursor))
  /\ kind' = IF cursor' = 0 THEN "end" ELSE "scan"
  /\ UNCHANGED <<vars, it, twice, stayed>>

-----------------------------------------------------------------------------
(* dictNext of a safe iterator.  A place is a table and an index in it,    *)
(* counted through both tables.                                            *)

Places(d) == (0..(d.ht0.size - 1))
             \cup IF IsRehashing(d) THEN { d.ht0.size + i : i \in 0..(d.ht1.size - 1) } ELSE {}

ChainAt(d, n) == KeysOf(IF n < d.ht0.size THEN d.ht0.table[n] ELSE d.ht1.table[n - d.ht0.size])

\* The place of the next chain, or none.
Found(d, n) == { m \in Places(d) :
                   /\ m > n /\ ChainAt(d, m) # {}
                   /\ \A i \in Places(d) : i > n /\ i < m => ChainAt(d, i) = {} }

\* Returning k, at place n, with `behind' chained after it: what comes next is
\* read now.
Return(k, n, behind) ==
  /\ it' \in { [at |-> n, next |-> m, behind |-> behind] :
                m \in IF behind = {} THEN {NoKey} ELSE behind }
  /\ seen' = seen \cup {k}
  /\ twice' = twice \cup ({k} \cap seen)
  /\ UNCHANGED <<kind, cursor, midway, stayed>>

\* Mutant: the first dictNext does not register the iterator.
Register_Not == UNCHANGED vars

\* The first dictNext of an iterator counts it in the Dict.
Register == IF it.at = -1 THEN startSafeIterator ELSE UNCHANGED vars

\* dictNext: the rest of the chain, or the first of the next chain there is.
dictNext ==
  /\ kind = "iterate"
  /\ \/ /\ it.next # NoKey
        /\ Return(it.next, it.at, it.behind \ {it.next})
        /\ UNCHANGED vars
     \/ /\ it.next = NoKey
        /\ \E n \in Found(dict, it.at) : \E k \in ChainAt(dict, n) :
             Return(k, n, ChainAt(dict, n) \ {k})
        /\ Register

\* It finds nothing more, and the caller releases the iterator.
dictNextEnds ==
  /\ kind = "iterate" /\ it.next = NoKey
  /\ Found(dict, it.at) = {}
  /\ kind' = "end"
  /\ IF it.at = -1 THEN UNCHANGED vars ELSE dictReleaseIterator
  /\ UNCHANGED <<cursor, it, seen, twice, midway, stayed>>

-----------------------------------------------------------------------------
(* The calls made meanwhile.                                               *)

\* What the body of an iteration may call.  It does not delete the entry that
\* the iterator will go to, whose address is already in nextEntry.
Call == \/ \E k \in Key, v \in Val : dictAdd(k, v) \/ dictReplace(k, v)
        \/ \E k \in Key : dictFind(k)
        \/ \E k \in Key \ {it.next} : dictDelete(k)
        \/ dictGetRandomKey
        \/ \E n \in Sizes : dictExpand(n)
        \/ dictResize
        \/ \E on \in BOOLEAN : dictSetResize(on)

\* What may come between two calls of a scan as well: the rehashing of the
\* cron, and a database that is emptied.
Cron == dictRehashMilliseconds \/ dictEmpty

\* A key that leaves the Dict has not stayed, and is chained nowhere.
Between ==
  /\ kind # "end"
  /\ Call \/ (kind # "iterate" /\ Cron)
  /\ stayed' = stayed \cap KeysOf(Contents(dict'))
  /\ it' = [it EXCEPT !.behind = @ \cap KeysOf(Contents(dict'))]
  /\ UNCHANGED <<kind, cursor, seen, twice, midway>>

End == /\ kind = "end"
       /\ kind' = "none"
       /\ cursor' = 0 /\ it' = NewIterator
       /\ seen' = {} /\ twice' = {} /\ midway' = FALSE /\ stayed' = {}
       /\ UNCHANGED vars

WNext == \/ Begin("scan") \/ Begin("iterate") \/ dictScan \/ dictNext \/ dictNextEnds
         \/ Between \/ End

WSpec == WInit /\ [][WNext]_wvars

-----------------------------------------------------------------------------
WTypeOK ==
  /\ TypeOK
  /\ kind \in {"none", "scan", "iterate", "end"}
  /\ cursor \in 0..(Pow2[Width] - 1)
  /\ it.at \in -1..(2 * MaxSize) /\ it.next \in Key \cup {NoKey} /\ it.behind \subseteq Key
  /\ seen \subseteq Key /\ twice \subseteq seen /\ stayed \subseteq Key

\* A walk returns every entry that stays, however the table grows, shrinks and
\* rehashes between its calls (dictScan), if none of its calls met a bucket of
\* the smaller table whose parts it had begun to visit.
WalkComplete == kind = "end" /\ ~midway => stayed \subseteq seen

\* The cursor with its bits reversed only goes up, whatever the table does, so
\* that a scan ends within Pow2[Width] calls.
ScanAdvances == [][dictScan => cursor' = 0 \/ rev(cursor') > rev(cursor)]_wvars

\* An iteration returns every entry that stays, and no such entry again, since
\* no call moves an entry while the iterator is registered (dictNext,
\* _dictRehashStep).
IteratesOnce == kind = "iterate" \/ kind = "end" => twice \cap stayed = {}
=============================================================================
