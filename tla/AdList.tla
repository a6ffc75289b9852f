------------------------------- MODULE AdList -------------------------------
(***************************************************************************)
(* The doubly linked list of src/src/adlist.c: pointers and the count, a   *)
(* node added at the tail is not counted. A list whose count and pointers  *)
(* disagree loses nodes, or dereferences NULL, and the process with it.    *)
(***************************************************************************)
EXTENDS Integers, FiniteSets

CONSTANTS Nodes,  \* the nodes there is memory for
          NULL,
          ULong   \* the number of values of an unsigned long

\* There is memory for finitely many nodes.
ASSUME ListAssumption == /\ NULL \notin Nodes /\ IsFiniteSet(Nodes)
                         /\ ULong \in Nat /\ ULong > 1

VARIABLES nxt, prv,     \* the pointers of each node
          head, tail, len,
          hasFree,      \* a free method is set
          iter,         \* an iterator (next, dir, and as history the nodes it has
                        \* returned and those it has yet to return), or NoIter
          linked,       \* history: the nodes of the list
          lost,         \* history: those that left it without being freed
          uncounted,    \* history: how many were added at the tail, modulo ULong
          crashed

pointers == <<nxt, prv, head, tail>>
lvars    == <<pointers, len, hasFree, iter, linked, lost, uncounted, crashed>>

NoIter == [next |-> NULL, dir |-> "none", seen |-> {}, left |-> {}]

Counted(d) == IF len + d < 0 THEN len + d + ULong
              ELSE IF len + d >= ULong THEN len + d - ULong ELSE len + d

\* f with an assignment through the pointer n, which may be NULL.
Set(f, n, x) == [m \in Nodes |-> IF m = n THEN x ELSE f[m]]

ListInit == /\ nxt = [n \in Nodes |-> NULL] /\ prv = nxt
            /\ head = NULL /\ tail = NULL /\ len = 0 /\ hasFree \in BOOLEAN
            /\ iter = NoIter /\ linked = {} /\ lost = {} /\ uncounted = 0
            /\ crashed = FALSE

\* Nothing is known of the list: a new one has been made, or the process is gone.
Anew == /\ nxt' = [n \in Nodes |-> NULL] /\ prv' = [n \in Nodes |-> NULL]
        /\ head' = NULL /\ tail' = NULL /\ len' = 0 /\ hasFree' \in BOOLEAN
        /\ iter' = NoIter /\ linked' = {} /\ lost' = {} /\ uncounted' = 0

Crash == Anew /\ crashed' = TRUE

Fresh == Nodes \ (linked \cup lost)

-----------------------------------------------------------------------------
(* Adding.                                                                 *)

\* A list that counts nothing is taken to be empty: what it holds is lost.
Only(n) == /\ nxt' = Set(nxt, n, NULL) /\ prv' = Set(prv, n, NULL)
           /\ head' = n /\ tail' = n
           /\ linked' = {n} /\ lost' = lost \cup linked
           /\ UNCHANGED <<hasFree, iter, crashed>>

\* Mutant: the old head is not told of the new one.
Prepend_OneWay(n) == /\ nxt' = Set(nxt, n, head) /\ prv' = Set(prv, n, NULL)
                     /\ head' = n
                     /\ linked' = linked \cup {n}
                     /\ UNCHANGED <<tail, lost, hasFree, iter, crashed>>

Prepend(n) == /\ nxt' = Set(nxt, n, head) /\ prv' = Set(Set(prv, n, NULL), head, n)
              /\ head' = n
              /\ linked' = linked \cup {n}
              /\ UNCHANGED <<tail, lost, hasFree, iter, crashed>>

listAddNodeHead(n) ==
  \/ /\ len = 0 \/ head # NULL
     /\ IF len = 0 THEN Only(n) ELSE Prepend(n)
     /\ len' = Counted(1) /\ UNCHANGED uncounted
  \/ len # 0 /\ head = NULL /\ Crash

Push(n) == /\ nxt' = Set(Set(nxt, n, NULL), tail, n) /\ prv' = Set(prv, n, tail)
           /\ tail' = n
           /\ linked' = linked \cup {n}
           /\ UNCHANGED <<head, lost, hasFree, iter, crashed>>

\* The only one that leaves len as it is.
listAddNodeTail(n) ==
  \/ /\ len = 0 \/ tail # NULL
     /\ IF len = 0 THEN Only(n) ELSE Push(n)
     /\ uncounted' = (uncounted + 1) % ULong /\ UNCHANGED len
  \/ len # 0 /\ tail = NULL /\ Crash

\* Mutant: a node that is inserted is not counted.
listInsertNode_Uncounted(old, n, after) ==
  LET p == IF after THEN old ELSE prv[old]
      q == IF after THEN nxt[old] ELSE old
  IN  /\ nxt' = Set(Set(nxt, n, q), p, n) /\ prv' = Set(Set(prv, n, p), q, n)
      /\ tail' = IF after /\ tail = old THEN n ELSE tail
      /\ head' = IF ~after /\ head = old THEN n ELSE head
      /\ linked' = linked \cup {n}
      /\ UNCHANGED <<len, hasFree, iter, lost, uncounted, crashed>>

listInsertNode(old, n, after) ==
  LET p == IF after THEN old ELSE prv[old]
      q == IF after THEN nxt[old] ELSE old
  IN  /\ nxt' = Set(Set(nxt, n, q), p, n) /\ prv' = Set(Set(prv, n, p), q, n)
      /\ tail' = IF after /\ tail = old THEN n ELSE tail
      /\ head' = IF ~after /\ head = old THEN n ELSE head
      /\ len' = Counted(1)
      /\ linked' = linked \cup {n}
      /\ UNCHANGED <<hasFree, iter, lost, uncounted, crashed>>

-----------------------------------------------------------------------------
(* Removing and moving.                                                    *)

\* The caller may delete any node but the next one of the iterator. What the
\* freed block holds is of no interest.
listDelNode(n) ==
  /\ iter.next # n
  /\ nxt' = Set(Set(nxt, prv[n], nxt[n]), n, NULL)
  /\ prv' = Set(Set(prv, nxt[n], prv[n]), n, NULL)
  /\ head' = IF prv[n] = NULL THEN nxt[n] ELSE head
  /\ tail' = IF nxt[n] = NULL THEN prv[n] ELSE tail
  /\ len' = Counted(-1)
  /\ linked' = linked \ {n}
  /\ iter' = [iter EXCEPT !.seen = @ \ {n}, !.left = @ \ {n}]
  /\ UNCHANGED <<hasFree, lost, uncounted, crashed>>

\* Nobody iterates over a list that it rotates.
listRotate ==
  /\ iter = NoIter /\ len > 1
  /\ IF tail = NULL \/ prv[tail] = NULL THEN Crash
     ELSE /\ tail' = prv[tail] /\ head' = tail
          /\ nxt' = Set(Set(nxt, prv[tail], NULL), tail, head)
          /\ prv' = Set(Set(prv, head, tail), tail, NULL)
          /\ UNCHANGED <<len, hasFree, iter, linked, lost, uncounted, crashed>>

\* len times, the loop reads current->next; it frees and moves on only when a
\* free method is set, which it hands the next node itself: undefined. A new
\* list takes its place.
listRelease ==
  /\ iter = NoIter
  /\ IF len > 0 /\ (head = NULL \/ hasFree) THEN Crash
     ELSE Anew /\ UNCHANGED crashed

\* iter = (orig, AL_START_HEAD) is 0, and listNext dereferences it.
listDup == Crash

-----------------------------------------------------------------------------
(* Reading. listNext is declared only; listNode is what it is meant to be. *)
(* listSearchKey is an iteration from the head that ends at a match.       *)

\* listGetIterator, listRewind and listRewindTail.
listGetIterator(dir) ==
  /\ iter' = [next |-> IF dir = "head" THEN head ELSE tail, dir |-> dir,
              seen |-> {}, left |-> linked]
  /\ UNCHANGED <<pointers, len, hasFree, linked, lost, uncounted, crashed>>

\* Mutant: an iterator from the tail goes the other way.
Beyond_Next(n) == nxt[n]

Beyond(n) == IF iter.dir = "head" THEN nxt[n] ELSE prv[n]

listNext ==
  /\ iter.next # NULL
  /\ iter' = [iter EXCEPT !.next = Beyond(iter.next),
                          !.seen = @ \cup {iter.next}, !.left = @ \ {iter.next}]
  /\ UNCHANGED <<pointers, len, hasFree, linked, lost, uncounted, crashed>>

listReleaseIterator ==
  /\ iter # NoIter /\ iter' = NoIter
  /\ UNCHANGED <<pointers, len, hasFree, linked, lost, uncounted, crashed>>

\* A negative index counts from the tail, -1 being the last node.
listIndex(i) ==
  LET from[k \in 0..Cardinality(Nodes)] ==
        IF k = 0 THEN IF i < 0 THEN tail ELSE head
        ELSE IF from[k - 1] = NULL THEN NULL
        ELSE IF i < 0 THEN prv[from[k - 1]] ELSE nxt[from[k - 1]]
  IN  from[IF i < 0 THEN -i - 1 ELSE i]

ListNext ==
  /\ ~crashed
  /\ \/ \E n \in Fresh : \/ listAddNodeHead(n) \/ listAddNodeTail(n)
                         \/ \E old \in linked, after \in BOOLEAN :
                              listInsertNode(old, n, after)
     \/ \E n \in linked : listDelNode(n)
     \/ listRotate \/ listRelease \/ listDup
     \/ \E dir \in {"head", "tail"} : listGetIterator(dir)
     \/ listNext \/ listReleaseIterator

ListSpec == ListInit /\ [][ListNext]_lvars

-----------------------------------------------------------------------------
(* Properties.                                                             *)

\* The pointers agree in both directions and with the two ends, through every
\* insertion, deletion and rotation, also when the count is wrong.
Mirrored ==
  /\ linked = {} => head = NULL /\ tail = NULL
  /\ linked # {} => /\ head \in linked /\ prv[head] = NULL
                    /\ tail \in linked /\ nxt[tail] = NULL
  /\ \A n \in linked :
       /\ nxt[n] # NULL => nxt[n] \in linked /\ prv[nxt[n]] = n
       /\ prv[n] # NULL => prv[n] \in linked /\ nxt[prv[n]] = n
       /\ nxt[n] = NULL => n = tail
       /\ prv[n] = NULL => n = head

\* The count is off by exactly what was added at the tail, as an unsigned long,
\* and the nodes that listIndex reaches from either end are all of the list.
CountDrift ==
  LET size == Cardinality(linked)
  IN  /\ (len + uncounted - size - Cardinality(lost)) % ULong = 0
      /\ size > 0 => listIndex(size - 1) = tail /\ listIndex(-size) = head

\* An iterator returns every node once that was in the list and stays, while
\* nodes are inserted anywhere and others than its next one are deleted.
IterComplete == /\ iter.next = NULL => iter.left \cap linked = {}
                /\ iter.next \notin iter.seen
=============================================================================
