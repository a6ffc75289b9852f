----------------------------- MODULE ServerCron -----------------------------
(***************************************************************************)
(* The databases and the children of the cache server, src/src/cache.c:    *)
(* what serverCron does every tick, and beforeSleep between two ticks. The *)
(* parts of a tick follow each other by pc; children end, and clients      *)
(* change the databases and ask for children, in between.                  *)
(***************************************************************************)
EXTENDS Integers, FiniteSets

CONSTANTS dbnum,
          UInt,          \* the number of values of an unsigned int
          DBS_PER_CALL,  \* CACHE_DBCRON_DBS_PER_CALL
          CHECK_EVERY,   \* after how many databases the clock is read: 16
          REHASH_STEPS,  \* calls of dictRehashMilliseconds that a table takes
          MaxAsked       \* bound: how often clients ask for a child

\* dbnum is an int.
ASSUME CronAssumption == /\ dbnum \in Nat \ {0} /\ UInt \in Nat \ {0} /\ dbnum <= UInt
                         /\ DBS_PER_CALL \in Nat \ {0} /\ CHECK_EVERY \in Nat \ {0}
                         /\ REHASH_STEPS \in Nat \ {0} /\ MaxAsked \in Nat

VARIABLES
  pc,
  expires,          \* the volatile keys of each database: "empty", "dense", or
                    \* "sparse", fewer than one in a hundred slots
  rehash,           \* calls that the rehash of its table still takes
  age,              \* history: visits of others since that of each database
  current_db, time_limit_exit,
  fastDue,          \* the last fast cycle began two durations ago, or more
  resize_db, rehash_db,
  dict_can_resize,
  rdb, aof,         \* the children: "none", "running", "ended", or "gone" when
                    \* wait3 has returned it and its pid is still kept
  aof_rewrite_scheduled,
  isMaster,         \* masterhost is NULL
  asked

cycle  == <<current_db, time_limit_exit, fastDue, age>>
tables == <<expires, rehash, resize_db, rehash_db>>
family == <<rdb, aof, aof_rewrite_scheduled, dict_can_resize>>
cvars  == <<pc, cycle, tables, family, isMaster, asked>>

DBs == 0..dbnum - 1

After(n, k) == (n + k) % UInt

\* initServer and the static variables.
CronInit == /\ pc = "idle"
            /\ expires = [d \in DBs |-> "empty"] /\ rehash = [d \in DBs |-> 0]
            /\ age = [d \in DBs |-> 0]
            /\ current_db = 0 /\ time_limit_exit = FALSE /\ fastDue = TRUE
            /\ resize_db = 0 /\ rehash_db = 0
            /\ rdb = "none" /\ aof = "none" /\ aof_rewrite_scheduled = FALSE
            /\ dict_can_resize = TRUE
            /\ isMaster \in BOOLEAN /\ asked = 0

NoChild == rdb = "none" /\ aof = "none"

-----------------------------------------------------------------------------
(* activeExpireCycle.                                                      *)

\* The database of the i-th visit of a call.
Visited(i) == After(current_db, i - 1) % dbnum

\* The databases among the first k visits that the cycle works on: not those
\* without volatile keys, or with too few for their slots.
WorkedOn(k) == { i \in 1..k : expires[Visited(i)] = "dense" }

\* How many databases a call goes through.
DbsPerCall == IF DBS_PER_CALL > dbnum \/ time_limit_exit THEN dbnum ELSE DBS_PER_CALL

\* Mutant: the cursor goes on by what the call was to visit.
Cursor_Skips(k) == After(current_db, DbsPerCall)

Cursor(k) == After(current_db, k)

\* A call visits k databases. Each is worked on once, since no more keys can
\* expire of a sample than it has; the time limit is noticed only after every
\* CHECK_EVERY of them, counted within the call. (A database that the wrap brings
\* into a call twice counts twice.)
activeExpireCycle ==
  \E k \in 1..DbsPerCall, late \in BOOLEAN :
    /\ IF late THEN k \in WorkedOn(k) /\ Cardinality(WorkedOn(k)) % CHECK_EVERY = 0
               ELSE k = DbsPerCall
    /\ time_limit_exit' = late
    /\ current_db' = Cursor(k)
    /\ age' = [d \in DBs |-> LET visits == { i \in 1..k : Visited(i) = d }
                             IN  IF visits = {} THEN age[d] + k
                                 ELSE CHOOSE a \in 0..k : /\ k - a \in visits
                                                          /\ \A i \in visits : i <= k - a]
    /\ expires' \in { e \in [DBs -> {"empty", "sparse", "dense"}] :
                        \A d \in DBs : \/ e[d] = expires[d]
                                       \/ d \in { Visited(i) : i \in WorkedOn(k) } }

\* Before each sleep: the fast cycle, if the last one of any kind ran out of
\* time.
beforeSleep ==
  /\ pc = "idle" /\ isMaster /\ time_limit_exit /\ fastDue
  /\ activeExpireCycle /\ fastDue' = FALSE
  /\ UNCHANGED <<pc, rehash, resize_db, rehash_db, family, isMaster, asked>>

-----------------------------------------------------------------------------
(* serverCron.                                                             *)

\* databaseCron begins; a slave leaves the expiry to its master.
Expire ==
  /\ pc = "idle" /\ pc' = "resize"
  /\ IF isMaster THEN activeExpireCycle /\ UNCHANGED fastDue
                 ELSE UNCHANGED <<cycle, expires>>
  /\ UNCHANGED <<rehash, resize_db, rehash_db, family, isMaster, asked>>

\* tryResizeHashTables, of the one table that stands for both of a database:
\* dictResize starts a rehash to a smaller table; the slots
\* are those of both until it is over.
Shrunk(d, r) == IF expires[d] = "sparse" /\ dict_can_resize /\ r[d] = 0
                THEN [r EXCEPT ![d] = REHASH_STEPS] ELSE r

PerCall == IF DBS_PER_CALL > dbnum THEN dbnum ELSE DBS_PER_CALL

\* Mutant: the table of the first database is resized every time.
Tried_First == { 0 }

\* The databases whose tables a tick tries to resize.
Tried == { After(resize_db, j) % dbnum : j \in 0..PerCall - 1 }

Resize ==
  /\ pc = "resize"
  /\ IF NoChild
     THEN /\ rehash' = [d \in DBs |-> IF d \in Tried THEN Shrunk(d, rehash)[d] ELSE rehash[d]]
          /\ resize_db' = After(resize_db, PerCall) /\ pc' = "rehash"
     ELSE UNCHANGED <<rehash, resize_db>> /\ pc' = "rewrite"
  /\ UNCHANGED <<expires, rehash_db, cycle, family, isMaster, asked>>

\* incrmentallyRehash: the first database that is being rehashed ends the turn.
Rehash ==
  /\ pc = "rehash" /\ pc' = "rewrite"
  /\ LET at(j) == After(rehash_db, j - 1) % dbnum
         busy  == { j \in 1..PerCall : rehash[at(j)] > 0 }
     IN  IF busy = {} THEN /\ rehash_db' = After(rehash_db, PerCall)
                           /\ UNCHANGED <<rehash, expires>>
         ELSE LET j == CHOOSE j \in busy : \A i \in busy : j <= i
                  d == at(j)
              IN  /\ rehash_db' = After(rehash_db, j)
                  /\ rehash' = [rehash EXCEPT ![d] = @ - 1]
                  /\ expires' = IF rehash[d] = 1 /\ expires[d] = "sparse"
                                THEN [expires EXCEPT ![d] = "dense"] ELSE expires
  /\ UNCHANGED <<resize_db, cycle, family, isMaster, asked>>

\* rdbSaveBackground and rewriteAppendOnlyFileBackground: the fork may fail, and
\* a child that runs may be told to the tables at once, or not.
Fork(child) == /\ child' \in {"none", "running"}
               /\ dict_can_resize' \in (IF child' = "none" THEN {dict_can_resize}
                                        ELSE {dict_can_resize, FALSE})

ScheduledRewrite ==
  /\ pc = "rewrite" /\ pc' = "children"
  /\ IF NoChild /\ aof_rewrite_scheduled
     THEN Fork(aof) /\ aof_rewrite_scheduled' = (aof' = "none") /\ UNCHANGED rdb
     ELSE UNCHANGED family
  /\ UNCHANGED <<cycle, tables, isMaster, asked>>

updateDictResizePolicy(r, a) == dict_can_resize' = (r = "none" /\ a = "none")

\* pid is compared with what wait3 returns and never assigned: whichever child
\* has ended is taken for itself, or lost. Without one that runs or has ended,
\* wait3 returns -1, and a pid that happens to be -1 is that of the child there
\* is not; with one that runs it returns 0, and a pid of 0 that of nobody.
Reap ==
  /\ pc = "children" /\ ~NoChild /\ pc' = "idle"
  /\ \/ /\ rdb = "ended" /\ rdb' = "none" /\ UNCHANGED aof
        /\ updateDictResizePolicy("none", aof)
     \/ /\ aof = "ended" /\ aof' = "none" /\ UNCHANGED rdb
        /\ updateDictResizePolicy(rdb, "none")
     \/ /\ rdb = "ended" /\ rdb' = "gone" /\ UNCHANGED <<aof, dict_can_resize>>
     \/ /\ aof = "ended" /\ aof' = "gone" /\ UNCHANGED <<rdb, dict_can_resize>>
     \/ /\ "ended" \notin {rdb, aof}
        /\ UNCHANGED <<rdb, aof>>
        /\ updateDictResizePolicy(rdb, aof) \/ UNCHANGED dict_can_resize
  /\ UNCHANGED <<cycle, tables, aof_rewrite_scheduled, isMaster, asked>>

\* Whether a save is due is open: saveparams is a cursor that is never put back,
\* so that all ticks but the first compare with what is beyond the array.
Save ==
  /\ pc = "children" /\ NoChild /\ pc' = "growth"
  /\ Fork(rdb) /\ UNCHANGED <<aof, aof_rewrite_scheduled>>
  /\ UNCHANGED <<cycle, tables, isMaster, asked>>

\* Mutant: the children are not looked at again.
MayRewrite_Always == TRUE

MayRewrite == NoChild

\* The file has grown enough, or not.
Grown ==
  /\ pc = "growth" /\ pc' = "idle"
  /\ \/ UNCHANGED family
     \/ /\ MayRewrite /\ Fork(aof)
        /\ UNCHANGED <<rdb, aof_rewrite_scheduled>>
  /\ UNCHANGED <<cycle, tables, isMaster, asked>>

serverCron == Expire \/ Resize \/ Rehash \/ ScheduledRewrite \/ Reap \/ Save \/ Grown

-----------------------------------------------------------------------------
(* The rest of the server, between two ticks, and the children.            *)

\* A client changes the volatile keys of a database. Only deletions leave a
\* table with more slots than it needs.
Change ==
  /\ pc = "idle"
  /\ \E d \in DBs, e \in {"empty", "sparse", "dense"} :
       expires[d] # e /\ expires' = [expires EXCEPT ![d] = e]
  /\ UNCHANGED <<pc, rehash, resize_db, rehash_db, cycle, family, isMaster, asked>>

\* BGSAVE and BGREWRITEAOF: what asks for a child while there is one is refused,
\* or put off.
Ask ==
  /\ pc = "idle" /\ asked < MaxAsked /\ asked' = asked + 1
  /\ \/ NoChild /\ Fork(rdb) /\ UNCHANGED <<aof, aof_rewrite_scheduled>>
     \/ NoChild /\ Fork(aof) /\ UNCHANGED <<rdb, aof_rewrite_scheduled>>
     \/ ~NoChild /\ aof_rewrite_scheduled' = TRUE /\ UNCHANGED <<rdb, aof, dict_can_resize>>
  /\ UNCHANGED <<pc, cycle, tables, isMaster>>

\* SLAVEOF.
Turn == /\ pc = "idle" /\ asked < MaxAsked /\ asked' = asked + 1
        /\ isMaster' = ~isMaster
        /\ UNCHANGED <<pc, cycle, tables, family>>

TimePasses == /\ ~fastDue /\ fastDue' = TRUE
              /\ UNCHANGED <<pc, current_db, time_limit_exit, age, tables, family,
                             isMaster, asked>>

End(child, other) == /\ child = "running" /\ child' = "ended"
                     /\ UNCHANGED <<other, pc, cycle, tables, aof_rewrite_scheduled,
                                    dict_can_resize, isMaster, asked>>

ChildEnds == End(rdb, aof) \/ End(aof, rdb)

CronNext == serverCron \/ beforeSleep \/ Change \/ Ask \/ Turn \/ TimePasses \/ ChildEnds

\* The event loop calls serverCron every 1000 / hz milliseconds, and a process
\* that saves or rewrites a file comes to its end.
CronFairness == WF_cvars(serverCron) /\ WF_cvars(ChildEnds)

CronSpec == CronInit /\ [][CronNext]_cvars /\ CronFairness

-----------------------------------------------------------------------------
(* Properties.                                                             *)

\* No database waits for the expiry cycle longer than two rounds, although the
\* cursor wraps around where no round ends and calls stop on their time limit.
NoDbStarves == \A d \in DBs : age[d] <= 2 * dbnum - 2

\* There are never a child that saves and one that rewrites at once, of all the
\* places in a tick that start one.
OneChild == rdb = "none" \/ aof = "none"

Lost == "gone" \in {rdb, aof}

\* A table with too few keys for its slots, whose keys the expiry passes over, is
\* made smaller in the end: unless the server has lost the child it waited for,
\* and keeps its pid for good.
SparseRecovers == \A d \in DBs : expires[d] = "sparse" ~> expires[d] # "sparse" \/ Lost
=============================================================================
