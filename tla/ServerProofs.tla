---------------------------- MODULE ServerProofs ----------------------------
(***************************************************************************)
(* What holds of the cache server for every limit on open files and every  *)
(* number of databases: the clients it may have fit the files it may open, *)
(* no database waits longer than two rounds for its expiry, it never saves *)
(* and rewrites at once, no write passes the gates while the server may    *)
(* not change its data, and what commands propagate is fed once.           *)
(***************************************************************************)
EXTENDS Startup, ServerCron, Commands, Propagation, NaturalFacts, SequenceTheorems

-----------------------------------------------------------------------------
(* The start.                                                              *)

FileType == /\ maxclients \in Nat /\ soft \in Nat /\ hard \in Nat
            /\ bestlimit \in Nat /\ old_limit \in Nat /\ known \in BOOLEAN

SocketType == addrs \in Nat /\ bound \in Nat

\* Where initServer is still to adjust the limit.
Before == /\ boot \in {"limit", "raise", "raised"} => maxclients = MAXCLIENTS
          /\ boot = "limit" => ~known

\* The loop has not raised the limit yet, or bestlimit is what it was raised to,
\* or the server will be left with fewer files than it keeps for itself.
Raising == /\ boot = "raise" => old_limit = soft
           /\ boot = "raised" => \/ soft = bestlimit /\ bestlimit > old_limit
                                 \/ soft = old_limit /\ bestlimit <= old_limit
                                 \/ soft < RESERVED

Fit == boot \in {"listen", "unix", "events", "up"} /\ known /\ soft >= RESERVED
         => maxclients + RESERVED <= soft

Listening == boot \in {"events", "up"} => bound > 0 \/ sofd = "open"

BInv == FileType /\ SocketType /\ Before /\ Raising /\ Fit /\ Listening

LEMMA StartFacts == /\ RESERVED \in Nat /\ DECR_STEP \in Nat /\ MAXCLIENTS \in Nat
                    /\ UNKNOWN \in Nat /\ UINT \in Nat
                    /\ DECR_STEP <= RESERVED /\ RESERVED <= UNKNOWN
                    /\ Limits \subseteq Nat /\ BindAddrs \subseteq Nat
BY StartAssumption

LEMMA BootInitOK == ASSUME BootInit PROVE BInv
<1>1. FileType /\ SocketType
  BY StartFacts DEF BootInit, FileType, SocketType
<1> QED
  BY <1>1 DEF BootInit, BInv, Before, Raising, Fit, Listening

LEMMA GetLimitOK == ASSUME BInv, GetLimit PROVE BInv'
<1>1. /\ soft' = soft /\ hard' = hard /\ addrs' = addrs /\ bound' = bound /\ sofd' = sofd
      /\ boot = "limit" /\ maxclients = MAXCLIENTS /\ known = FALSE
  BY DEF GetLimit, At, BInv, Before, FileType, socks
<1>2. SocketType' /\ boot' \in {"listen", "raise"}
  BY <1>1 DEF GetLimit, At, BInv, SocketType
<1>3. FileType /\ maxfiles = MAXCLIENTS + RESERVED /\ maxfiles \in Nat
  BY StartFacts, SMT DEF BInv, maxfiles
<1>4. CASE /\ At("limit", "listen") /\ maxclients' = UNKNOWN - RESERVED
           /\ UNCHANGED <<known, bestlimit, old_limit>>
  <2>1. UNKNOWN - RESERVED \in Nat
    BY StartFacts, SMT
  <2>2. FileType' /\ boot' = "listen" /\ ~known'
    BY <1>1, <1>3, <1>4, <2>1 DEF FileType, At
  <2> QED
    BY <1>2, <2>2 DEF BInv, Before, Raising, Fit, Listening
<1>5. CASE /\ soft >= maxfiles /\ At("limit", "listen") /\ known' = TRUE
           /\ UNCHANGED <<maxclients, bestlimit, old_limit>>
  <2>1. FileType' /\ boot' = "listen"
    BY <1>1, <1>3, <1>5 DEF FileType, At
  <2>2. maxclients' + RESERVED <= soft'
    BY <1>1, <1>3, <1>5
  <2> QED
    BY <1>2, <2>1, <2>2 DEF BInv, Before, Raising, Fit, Listening
<1>6. CASE /\ soft < maxfiles /\ At("limit", "raise") /\ known' = TRUE
           /\ bestlimit' = maxfiles /\ old_limit' = soft /\ UNCHANGED maxclients
  <2>1. FileType' /\ boot' = "raise"
    BY <1>1, <1>3, <1>6 DEF FileType, At
  <2> QED
    BY <1>1, <1>2, <1>6, <2>1 DEF BInv, Before, Raising, Fit, Listening
<1> QED
  BY <1>4, <1>5, <1>6, Zenon DEF GetLimit

LEMMA RaiseOK == ASSUME BInv, Raise PROVE BInv'
<1>1. /\ maxclients' = maxclients /\ known' = known /\ old_limit' = old_limit
      /\ addrs' = addrs /\ bound' = bound /\ sofd' = sofd
      /\ boot = "raise" /\ maxclients = MAXCLIENTS /\ old_limit = soft
      /\ boot' \in {"raise", "raised"}
  BY DEF Raise, At, BInv, Before, Raising, socks
<1>2. FileType /\ DECR_STEP \in Nat /\ RESERVED \in Nat /\ DECR_STEP <= RESERVED
  BY StartFacts DEF BInv
<1>3. FileType' /\ Raising'
  <2>1. CASE /\ bestlimit > old_limit /\ bestlimit <= hard /\ At("raise", "raised")
             /\ soft' = bestlimit /\ hard' = bestlimit /\ UNCHANGED bestlimit
    BY <1>1, <1>2, <2>1 DEF FileType, Raising, At
  <2>2. CASE /\ bestlimit > old_limit /\ bestlimit < DECR_STEP
             /\ At("raise", "raised") /\ UNCHANGED <<bestlimit, soft, hard>>
    <3>1. soft < RESERVED
      BY <1>1, <1>2, <2>2, SMT DEF FileType
    <3> QED
      BY <1>1, <1>2, <2>2, <3>1 DEF FileType, Raising, At
  <2>3. CASE /\ ~(bestlimit < DECR_STEP) /\ boot' = boot
             /\ bestlimit' = bestlimit - DECR_STEP /\ UNCHANGED <<soft, hard>>
    <3>1. bestlimit' \in Nat
      BY <1>2, <2>3, SMT DEF FileType
    <3> QED
      BY <1>1, <1>2, <2>3, <3>1 DEF FileType, Raising
  <2>4. CASE /\ bestlimit <= old_limit /\ At("raise", "raised")
             /\ UNCHANGED <<bestlimit, soft, hard>>
    BY <1>1, <1>2, <2>4 DEF FileType, Raising, At
  <2> QED
    BY <2>1, <2>2, <2>3, <2>4, Zenon DEF Raise
<1> QED
  BY <1>1, <1>3 DEF BInv, SocketType, Before, Fit, Listening

LEMMA AdjustOK == ASSUME BInv, Adjust PROVE BInv'
<1> DEFINE b == IF bestlimit < old_limit THEN old_limit ELSE bestlimit
<1>1. /\ soft' = soft /\ hard' = hard /\ known' = known /\ bestlimit' = bestlimit
      /\ old_limit' = old_limit /\ addrs' = addrs /\ bound' = bound /\ sofd' = sofd
      /\ boot = "raised" /\ maxclients = MAXCLIENTS
      /\ maxclients' = (IF b < maxfiles THEN Reduced(b) ELSE maxclients)
      /\ boot' \in {"exit", "listen"}
  BY DEF Adjust, At, BInv, Before, socks
<1>2. FileType /\ RESERVED \in Nat /\ MAXCLIENTS \in Nat /\ RESERVED + MAXCLIENTS < UINT
      /\ UINT \in Nat
  BY StartAssumption DEF BInv
<1>3. b \in Nat /\ (soft >= RESERVED => b = soft)
  <2>1. \/ soft = bestlimit /\ bestlimit > old_limit
        \/ soft = old_limit /\ bestlimit <= old_limit
        \/ soft < RESERVED
    BY <1>1 DEF BInv, Raising
  <2> QED
    BY <1>2, <2>1, SMT DEF FileType
<1> HIDE DEF b
<1>4. /\ maxclients' \in Nat
      /\ soft >= RESERVED => maxclients' + RESERVED <= soft
  BY <1>1, <1>2, <1>3, SMT DEF Reduced, InUInt, maxfiles, FileType
<1>5. FileType'
  BY <1>1, <1>2, <1>4 DEF FileType
<1> QED
  BY <1>1, <1>4, <1>5 DEF BInv, SocketType, Before, Raising, Fit, Listening

LEMMA SocketsOK ==
  ASSUME BInv, listenToPort \/ NoPort \/ UnixSocket \/ Events
  PROVE  BInv'
<1>1. UNCHANGED files
  BY DEF listenToPort, NoPort, UnixSocket, Events, Exit
<1>2. FileType'
  BY <1>1 DEF files, BInv, FileType
<1>3. /\ boot \in {"listen", "unix", "events"}
      /\ boot' \in {"unix", "events", "up", "exit"}
  BY DEF listenToPort, NoPort, UnixSocket, Events, Exit, At
<1>4. Before' /\ Raising' /\ Fit'
  BY <1>1, <1>3 DEF files, BInv, Before, Raising, Fit
<1>5. SocketType' /\ Listening'
  BY SMT DEF listenToPort, NoPort, UnixSocket, Events, Exit, At, socks, BInv,
             SocketType, Listening
<1> QED
  BY <1>2, <1>4, <1>5 DEF BInv

\* Every step of initServer keeps the books of files and sockets.
THEOREM BootInductive == BInv /\ [BootNext]_bvars => BInv'
<1> SUFFICES ASSUME BInv, [BootNext]_bvars PROVE BInv'
  OBVIOUS
<1>1. CASE UNCHANGED bvars
  BY <1>1 DEF bvars, files, socks, BInv, FileType, SocketType, Before, Raising, Fit,
              Listening
<1> QED
  BY <1>1, GetLimitOK, RaiseOK, AdjustOK, SocketsOK DEF BootNext

\* Whatever the limits and however far the loop of adjustOpenFilesLimit came: a
\* server that is up listens, and has a file for every client it accepts.
THEOREM FilesFitAlways == BootSpec => []FilesFit
<1>1. BInv => FilesFit
  BY DEF BInv, Fit, Listening, FilesFit
<1> QED
  BY <1>1, BootInitOK, BootInductive, PTL DEF BootSpec

-----------------------------------------------------------------------------
(* The children.                                                           *)

LEMMA CycleKeeps ==
  ASSUME Expire \/ Resize \/ Rehash \/ beforeSleep \/ Change \/ Turn \/ TimePasses
  PROVE  UNCHANGED <<rdb, aof>>
BY DEF Expire, Resize, Rehash, beforeSleep, Change, Turn, TimePasses, family

\* Whatever starts a child does so only without one, also after the tick has
\* started another in between, and also when it has lost one.
THEOREM OneChildInductive == OneChild /\ [CronNext]_cvars => OneChild'
<1> SUFFICES ASSUME OneChild, [CronNext]_cvars PROVE OneChild'
  OBVIOUS
<1>1. CASE ScheduledRewrite
  BY <1>1 DEF ScheduledRewrite, NoChild, OneChild, family
<1>2. CASE Reap
  BY <1>2 DEF Reap, OneChild
<1>3. CASE Save
  BY <1>3 DEF Save, NoChild, OneChild
<1>4. CASE Grown
  BY <1>4 DEF Grown, MayRewrite, NoChild, OneChild, family
<1>5. CASE Ask
  BY <1>5 DEF Ask, NoChild, OneChild
<1>6. CASE ChildEnds
  BY <1>6 DEF ChildEnds, End, OneChild
<1>7. CASE UNCHANGED <<rdb, aof>>
  BY <1>7 DEF OneChild
<1>8. CASE UNCHANGED cvars
  BY <1>8 DEF cvars, family, OneChild
<1> QED
  BY <1>1, <1>2, <1>3, <1>4, <1>5, <1>6, <1>7, <1>8, CycleKeeps, Zenon
     DEF CronNext, serverCron

\* The cache server never has a child that saves and one that rewrites at once.
THEOREM OneChildAlways == CronSpec => []OneChild
<1>1. CronInit => OneChild
  BY DEF CronInit, OneChild
<1> QED
  BY <1>1, OneChildInductive, PTL DEF CronSpec

-----------------------------------------------------------------------------
(* The cursor of the expiry.                                               *)

\* The database of the visit that is j visits ahead of a cursor c.
Ahead(c, j) == ((c + j) % UInt) % dbnum

\* How long a database has waited, and will wait at most, does not exceed two
\* rounds.
Due(d) == /\ age[d] \in Nat
          /\ \E j \in Nat : age[d] + j <= 2 * dbnum - 2 /\ Ahead(current_db, j) = d

AllDue == current_db \in Nat /\ \A d \in DBs : Due(d)

LEMMA CursorTypes == /\ dbnum \in Nat \ {0} /\ UInt \in Nat \ {0} /\ dbnum <= UInt
                     /\ \A d \in DBs : d \in Nat /\ d < dbnum
BY CronAssumption DEF DBs

\* The wrap brings a database forward or back by less than a round.
LEMMA WithinTwoRounds ==
  ASSUME NEW x \in Nat, NEW d \in DBs
  PROVE  \E y \in Nat : x < y /\ y <= x + 2 * dbnum - 1 /\ (y % UInt) % dbnum = d
<1> DEFINE a == x % UInt
           q == x \div UInt
<1>1. /\ dbnum \in Nat \ {0} /\ UInt \in Nat \ {0} /\ dbnum <= UInt /\ d \in Nat /\ d < dbnum
      /\ x = q * UInt + a /\ q \in Int /\ a \in Nat /\ a < UInt
  BY CursorTypes, DivMod
<1> HIDE DEF a, q
<1>2. CASE a + dbnum < UInt
  <2> DEFINE r == (a + 1) % dbnum
             n == (a + 1) \div dbnum
             m == IF r <= d THEN n ELSE n + 1
             b == m * dbnum + d
  <2>1. a + 1 = n * dbnum + r /\ n \in Int /\ r \in Nat /\ r < dbnum
    BY <1>1, DivMod
  <2> HIDE DEF r, n
  <2>2. m \in Int /\ a < b /\ b <= a + dbnum
    <3>1. CASE r <= d
      BY <1>1, <2>1, <3>1
    <3>2. CASE ~(r <= d)
      <4>1. b = (n * dbnum + dbnum) + d
        BY <1>1, <2>1, <3>2
      <4> QED
        BY <1>1, <2>1, <3>2, <4>1
    <3> QED
      BY <3>1, <3>2
  <2>3. b % dbnum = d
    <3> HIDE DEF m
    <3> QED
      BY <1>1, <2>2, ModIs
  <2> HIDE DEF b
  <2>4. b \in Nat /\ b < UInt
    BY <1>1, <1>2, <2>1, <2>2 DEF b
  <2> DEFINE y == q * UInt + b
  <2>5. y % UInt = b
    BY <1>1, <2>4, ModIs
  <2>6. y \in Nat /\ x < y /\ y <= x + 2 * dbnum - 1
    <3>1. y = x + (b - a)
      BY <1>1, <2>4
    <3> QED
      BY <1>1, <2>2, <2>4, <3>1
  <2> HIDE DEF y
  <2> QED
    BY <2>3, <2>5, <2>6
<1>3. CASE UInt <= a + dbnum
  <2> DEFINE y == (q + 1) * UInt + d
  <2>1. y % UInt = d /\ d % dbnum = d
    BY <1>1, ModIs, ModSmall
  <2>2. y = x + (UInt - a) + d
    BY <1>1
  <2>3. y \in Nat /\ x < y /\ y <= x + 2 * dbnum - 1
    BY <1>1, <1>3, <2>2
  <2> HIDE DEF y
  <2> QED
    BY <2>1, <2>3
<1> QED
  BY <1>1, <1>2, <1>3

LEMMA CursorMoves ==
  ASSUME NEW c \in Nat, NEW k \in Nat, NEW j \in Nat
  PROVE  Ahead(After(c, k), j) = Ahead(c, k + j)
<1>1. (((c + k) % UInt) + j) % UInt = ((c + k) + j) % UInt
  <2>1. UInt \in Nat \ {0} /\ c + k \in Int /\ j \in Int
    BY CursorTypes
  <2> HIDE DEF After, Ahead
  <2> QED
    BY ONLY <2>1, ModSum
<1>2. (c + k) + j = c + (k + j)
  OBVIOUS
<1> QED
  BY <1>1, <1>2 DEF Ahead, After

\* Each call goes on where the last one stopped, after as many databases.
LEMMA ExpiryDue == AllDue /\ activeExpireCycle => AllDue'
<1> SUFFICES ASSUME AllDue, activeExpireCycle PROVE AllDue'
  OBVIOUS
<1>1. /\ dbnum \in Nat \ {0} /\ UInt \in Nat \ {0} /\ current_db \in Nat
  BY CursorTypes DEF AllDue
<1>2. PICK k \in 1..DbsPerCall :
        /\ current_db' = After(current_db, k)
        /\ age' = [d \in DBs |-> LET visits == { i \in 1..k : Visited(i) = d }
                                 IN  IF visits = {} THEN age[d] + k
                                     ELSE CHOOSE a \in 0..k :
                                            /\ k - a \in visits
                                            /\ \A i \in visits : i <= k - a]
  BY DEF activeExpireCycle, Cursor
<1>3. k \in Nat /\ k > 0
  BY CronAssumption DEF DbsPerCall
<1>4. current_db' \in Nat
  <2>1. current_db + k \in Int
    BY <1>1, <1>3
  <2> QED
    BY <1>1, <1>2, <2>1, DivMod DEF After
<1>5. ASSUME NEW d \in DBs PROVE Due(d)'
  <2> DEFINE visits == { i \in 1..k : Visited(i) = d }
  <2>1. \A j \in Nat : Ahead(current_db', j) = Ahead(current_db, k + j)
    BY <1>1, <1>2, <1>3, CursorMoves
  <2>2. \A i \in 1..k : Visited(i) = Ahead(current_db, i - 1)
    BY <1>1 DEF Visited, After, Ahead
  <2>3. age'[d] = IF visits = {} THEN age[d] + k
                  ELSE CHOOSE a \in 0..k : /\ k - a \in visits
                                           /\ \A i \in visits : i <= k - a
    BY <1>2
  <2>4. CASE visits = {}
    <3>1. PICK j \in Nat : age[d] + j <= 2 * dbnum - 2 /\ Ahead(current_db, j) = d
      BY DEF AllDue, Due
    <3>2. ~(j < k)
      <4>1. ASSUME j < k PROVE FALSE
        <5>1. j + 1 \in 1..k /\ (j + 1) - 1 = j
          BY <1>3, <4>1
        <5>2. Visited(j + 1) = d
          BY <2>2, <3>1, <5>1
        <5> QED
          BY <2>4, <5>1, <5>2
      <4> QED
        BY <4>1
    <3>3. j - k \in Nat /\ k + (j - k) = j
      BY <1>3, <3>2
    <3>4. age[d] \in Nat /\ age'[d] = age[d] + k
      BY <2>3, <2>4 DEF AllDue, Due
    <3>5. age'[d] \in Nat /\ age'[d] + (j - k) <= 2 * dbnum - 2
      BY <1>1, <1>3, <3>1, <3>3, <3>4
    <3>6. Ahead(current_db', j - k) = d
      BY <2>1, <3>1, <3>3
    <3> QED
      BY <3>3, <3>5, <3>6 DEF Due
  <2>5. CASE visits # {}
    <3> DEFINE S == { a \in 0..k : k - a \in visits }
    <3>1. S \in SUBSET Nat /\ S # {}
      <4>1. PICK i \in visits : TRUE
        BY <2>5
      <4>2. k - i \in 0..k /\ k - (k - i) = i
        <5>1. i \in 1..k
          BY <4>1
        <5> QED
          BY <1>3, <5>1
      <4>3. k - i \in S
        <5> HIDE DEF visits
        <5> QED
          BY <4>1, <4>2
      <4>4. \A a \in S : a \in Nat
        OBVIOUS
      <4> HIDE DEF S
      <4> QED
        BY <4>3, <4>4
    <3>2. PICK m \in S : \A n \in S : m <= n
      BY <3>1, Least
    <3>3. m \in 0..k /\ k - m \in visits /\ \A i \in visits : i <= k - m
      <4>1. ASSUME NEW i \in visits PROVE i <= k - m
        <5>1. k - i \in 0..k /\ k - (k - i) = i /\ i \in Int
          BY <1>3
        <5>2. m <= k - i
          BY <3>2, <5>1
        <5> QED
          BY <1>3, <3>2, <5>1, <5>2
      <4> QED
        BY <3>2, <4>1
    <3>4. PICK a \in 0..k : /\ a = age'[d] /\ k - a \in visits
                            /\ \A i \in visits : i <= k - a
      <4> HIDE DEF visits
      <4> QED
        BY <2>3, <2>5, <3>3
    <3>5. PICK y \in Nat : /\ current_db + ((k - a) - 1) < y
                           /\ y <= current_db + ((k - a) - 1) + 2 * dbnum - 1
                           /\ (y % UInt) % dbnum = d
      <4>1. current_db + ((k - a) - 1) \in Nat
        BY <1>1, <1>3, <3>4
      <4> QED
        BY <4>1, WithinTwoRounds
    <3> DEFINE p == y - current_db
    <3>6. /\ p \in Nat /\ (k - a) - 1 < p /\ p <= ((k - a) - 1) + 2 * dbnum - 1
          /\ Ahead(current_db, p) = d
      <4>1. current_db + p = y
        BY <1>1
      <4> QED
        BY <1>1, <1>3, <3>4, <3>5, <4>1 DEF Ahead
    <3> HIDE DEF p
    <3>7. ~(p < k)
      <4>1. ASSUME p < k PROVE FALSE
        <5>1. p + 1 \in 1..k /\ (p + 1) - 1 = p
          BY <1>3, <3>6, <4>1
        <5>2. p + 1 \in visits
          BY <2>2, <3>6, <5>1
        <5>3. p + 1 <= k - a
          BY <3>4, <5>2
        <5> QED
          BY <1>3, <3>4, <3>6, <5>3
      <4> QED
        BY <4>1
    <3>8. p - k \in Nat /\ k + (p - k) = p
      BY <1>3, <3>6, <3>7
    <3>9. Ahead(current_db', p - k) = d
      BY <2>1, <3>6, <3>8
    <3>10. age'[d] \in Nat /\ age'[d] + (p - k) <= 2 * dbnum - 2
      BY <1>1, <1>3, <3>4, <3>6
    <3> QED
      BY <3>8, <3>9, <3>10 DEF Due
  <2> QED
    BY <2>4, <2>5
<1> QED
  BY <1>4, <1>5 DEF AllDue

\* What does not expire leaves the waiting as it is.
LEMMA DueKept == AllDue /\ UNCHANGED <<age, current_db>> => AllDue'
BY DEF AllDue, Due, Ahead

LEMMA DueInit == CronInit => AllDue
<1> SUFFICES ASSUME CronInit PROVE current_db \in Nat /\ \A d \in DBs : Due(d)
  BY DEF AllDue
<1>0. current_db \in Nat
  BY DEF CronInit
<1> SUFFICES ASSUME NEW d \in DBs PROVE Due(d)
  BY <1>0
<1>1. /\ dbnum \in Nat \ {0} /\ UInt \in Nat \ {0} /\ dbnum <= UInt /\ d \in Nat /\ d < dbnum
  BY CursorTypes
<1>2. current_db = 0 /\ age[d] = 0
  BY DEF CronInit
<1>3. d % UInt = d /\ d % dbnum = d
  BY <1>1, ModSmall
<1>4. Ahead(current_db, d) = d
  BY <1>1, <1>2, <1>3 DEF Ahead
<1>5. age[d] + d <= 2 * dbnum - 2
  BY <1>1, <1>2
<1> QED
  BY <1>1, <1>2, <1>4, <1>5 DEF Due

LEMMA DueNext == AllDue /\ [CronNext]_cvars => AllDue'
<1> SUFFICES ASSUME AllDue, [CronNext]_cvars PROVE AllDue'
  OBVIOUS
<1>1. CASE beforeSleep
  BY <1>1, ExpiryDue DEF beforeSleep
<1>2. CASE Expire
  BY <1>2, ExpiryDue, DueKept DEF Expire, cycle
<1>3. CASE UNCHANGED <<age, current_db>>
  BY <1>3, DueKept
<1>4. ~beforeSleep /\ ~Expire => UNCHANGED <<age, current_db>>
  BY DEF CronNext, serverCron, Resize, Rehash, ScheduledRewrite, Reap, Save, Grown,
         Change, Ask, Turn, TimePasses, ChildEnds, End, cvars, cycle
<1> QED
  BY <1>1, <1>2, <1>3, <1>4

\* No database waits for the expiry cycle longer than two rounds, wherever the
\* time limit stops the calls and the cursor wraps.
THEOREM NoDbStarvesAlways == CronSpec => []NoDbStarves
<1>1. AllDue => NoDbStarves
  <2> SUFFICES ASSUME AllDue, NEW d \in DBs PROVE age[d] <= 2 * dbnum - 2
    BY DEF NoDbStarves
  <2>1. PICK j \in Nat : age[d] \in Nat /\ age[d] + j <= 2 * dbnum - 2
    BY DEF AllDue, Due
  <2> QED
    BY <2>1, CursorTypes
<1> QED
  BY <1>1, DueInit, DueNext, PTL DEF CronSpec

-----------------------------------------------------------------------------
(* The gates.                                                              *)

\* The two flags are bits that a row may have.
LEMMA BitNonempty ==
  0 \in Bits(CMD.WRITE) /\ 2 \in Bits(CMD.DENYOOM)
<1>1. 2^0 = 1 /\ 2^2 = 4
  BY SMT
<1>2. CMD.WRITE = 1 /\ CMD.DENYOOM = 4
  BY DEF CMD
<1>3. (1 \div 1) % 2 = 1 /\ (4 \div 4) % 2 = 1
  BY SMT
<1> QED
  BY <1>1, <1>2, <1>3 DEF Bits

\* What a letter of a row stands for is among the flags of its command.
LEMMA LettersTold ==
  ASSUME NEW c \in Command
  PROVE  /\ "w" \in Row[c] => Has(c, "WRITE")
         /\ "m" \in Row[c] => Has(c, "DENYOOM")
<1>1. Letter["w"] = CMD.WRITE /\ Letter["m"] = CMD.DENYOOM
  BY DEF Letter
<1>2. \A l \in Row[c] : Bits(Letter[l]) \subseteq populateCommandTable[c]
  BY DEF populateCommandTable
<1>3. "w" \in Row[c] => 0 \in populateCommandTable[c]
  BY <1>1, <1>2, BitNonempty
<1>4. "m" \in Row[c] => 2 \in populateCommandTable[c]
  BY <1>1, <1>2, BitNonempty
<1> QED
  BY <1>3, <1>4, BitNonempty DEF Has

\* What may be sent when nothing else may writes nothing.
LEMMA LetThroughReads ==
  \A c \in {"auth", "replconf", "shutdown", "script"} : "w" \notin Row[c]
BY SMT DEF Row

\* Let through means that no gate refuses.
LEMMA PassedIs ==
  ASSUME NEW c, NEW arg, Refusal(c, arg) = "passed"
  PROVE  \A i \in 1..10 : ~Gate(c, arg)[Order[i]]
<1> DEFINE closed == {i \in DOMAIN Order : Gate(c, arg)[Order[i]]}
<1>1. DOMAIN Order = 1..10
  BY DEF Order
<1>2. \A i \in 1..10 : Order[i] # "passed"
  BY SMT DEF Order
<1>3. closed \in SUBSET (1..10)
  BY <1>1
<1>4. closed = {}
  <2> SUFFICES ASSUME closed # {} PROVE FALSE
    OBVIOUS
  <2> HIDE DEF closed
  <2>1. \E i \in closed : \A j \in closed : i <= j
    <3>1. closed \in SUBSET Nat
      BY <1>3
    <3> QED
      BY <3>1, Least
  <2>2. (CHOOSE i \in closed : \A j \in closed : i <= j) \in 1..10
    BY <1>3, <2>1
  <2>3. Refusal(c, arg) = Order[CHOOSE i \in closed : \A j \in closed : i <= j]
    BY Zenon DEF Refusal, closed
  <2> QED
    BY <1>2, <2>2, <2>3
<1> QED
  BY <1>1, <1>4

\* CACHE_CMD_LOADING is one bit, and of the letters of rows that write only `F'
\* has it.
LEMMA LoadingBit ==
  /\ Bits(CMD.LOADING) \subseteq {9}
  /\ \A l \in {"w", "m", "s", "R", "k"} : 9 \notin Bits(Letter[l])
<1>1. /\ 2^0 = 1 /\ 2^1 = 2 /\ 2^2 = 4 /\ 2^3 = 8 /\ 2^4 = 16 /\ 2^5 = 32 /\ 2^6 = 64
      /\ 2^7 = 128 /\ 2^8 = 256 /\ 2^9 = 512
  BY SMT
<1>2. /\ 2^10 = 1024 /\ 2^11 = 2048 /\ 2^12 = 4096 /\ 2^13 = 8192
  BY SMT
<1>3. \A i \in 0..13 : (512 \div 2^i) % 2 = 1 => i = 9
  <2> SUFFICES ASSUME NEW i \in 0..13, i # 9 PROVE (512 \div 2^i) % 2 # 1
    OBVIOUS
  <2> DEFINE others == {1, 2, 4, 8, 16, 32, 64, 128, 256, 1024, 2048, 4096, 8192}
  <2>1. i \in {0, 1, 2, 3, 4, 5, 6, 7, 8, 10, 11, 12, 13}
    BY SMT
  <2> DEFINE power == [n \in 0..13 |-> 2^n]
  <2>2. power[i] \in others
    <3>1. /\ power[0] = 1 /\ power[1] = 2 /\ power[2] = 4 /\ power[3] = 8
          /\ power[4] = 16 /\ power[5] = 32 /\ power[6] = 64 /\ power[7] = 128
          /\ power[8] = 256 /\ power[10] = 1024 /\ power[11] = 2048
          /\ power[12] = 4096 /\ power[13] = 8192
      BY <1>1, <1>2, SMT
    <3> HIDE DEF power
    <3> QED
      BY <2>1, <3>1
  <2>3. \A n \in others : (512 \div n) % 2 # 1
    BY SMT
  <2>4. power[i] = 2^i
    OBVIOUS
  <2> HIDE DEF others, power
  <2>5. (512 \div power[i]) % 2 # 1
    BY <2>2, <2>3
  <2> QED
    BY <2>4, <2>5
<1>4. CMD.LOADING = 512
  BY DEF CMD
<1>5. Bits(CMD.LOADING) \subseteq {9}
  <2>1. Bits(CMD.LOADING) = {i \in 0..13 : (512 \div 2^i) % 2 = 1}
    BY <1>4, Zenon DEF Bits
  <2> QED
    BY <1>3, <2>1, Zenon
<1>6. /\ Letter["w"] = 1 /\ Letter["m"] = 4 /\ Letter["s"] = 64 /\ Letter["R"] = 128
      /\ Letter["k"] = 4096
  BY DEF Letter, CMD
<1>7. \A n \in {1, 4, 64, 128, 4096} : (n \div 512) % 2 # 1
  BY SMT
<1>8. \A n \in {1, 4, 64, 128, 4096} : 9 \notin Bits(n)
  BY <1>1, <1>7 DEF Bits
<1> QED
  BY <1>5, <1>6, <1>8

\* A row that writes has none but these letters.
LEMMA WriteLetters ==
  \A c \in Command : "w" \in Row[c] => Row[c] \subseteq {"w", "m", "s", "R", "k", "F"}
BY SMT DEF Command, Row

\* A row that writes has the bit of loading from its `F' only.
LEMMA WritesNotLoading ==
  ASSUME NEW c \in Command, "w" \in Row[c], Has(c, "LOADING")
  PROVE  "F" \in Row[c]
<1>1. 9 \in populateCommandTable[c]
  BY LoadingBit DEF Has
<1>2. c # "hscan"
  BY SMT DEF Row
<1>3. PICK l \in Row[c] : 9 \in Bits(Letter[l])
  BY <1>1, <1>2 DEF populateCommandTable
<1> QED
  BY <1>3, LoadingBit, WriteLetters

\* What no gate refuses is a write that the server may make.
LEMMA PassedWrite ==
  ASSUME NEW c \in Command, NEW arg, Refusal(c, arg) = "passed", "w" \in Row[c]
  PROVE  /\ "m" \in Row[c] => ~Holds("oom")
         /\ ~Holds("slave") => srv \cap {"bgsaveError", "aofError", "fewSlaves"} = {}
         /\ Holds("slave") /\ Holds("slaveReadOnly") => "MASTER" \in flags
         /\ Holds("loading") => "F" \in Row[c]
         /\ srv \cap {"noauth", "luaTimeout"} = {}
<1>1. Has(c, "WRITE") /\ Writes(c) /\ ("m" \in Row[c] => Has(c, "DENYOOM"))
  BY LettersTold DEF Writes
<1>2. c \notin {"auth", "replconf", "shutdown", "script"}
  BY LetThroughReads
<1>3. /\ Order[1] = "noauth" /\ Order[3] = "oom" /\ Order[4] = "misconf"
      /\ Order[5] = "noreplicas" /\ Order[6] = "roslave" /\ Order[9] = "loading"
      /\ Order[10] = "slowscript"
  BY DEF Order
<1>4. /\ ~Gate(c, arg)["noauth"] /\ ~Gate(c, arg)["oom"] /\ ~Gate(c, arg)["misconf"]
      /\ ~Gate(c, arg)["noreplicas"] /\ ~Gate(c, arg)["roslave"]
      /\ ~Gate(c, arg)["loading"] /\ ~Gate(c, arg)["slowscript"]
  BY <1>3, PassedIs
<1>5. ~Holds("noauth")
  BY <1>2, <1>4, Zenon DEF Gate
<1>6. "m" \in Row[c] => ~Holds("oom")
  BY <1>1, <1>4, Zenon DEF Gate
<1>7. ~Holds("slave") => ~Holds("bgsaveError") /\ ~Holds("aofError")
  BY <1>1, <1>4, Zenon DEF Gate
<1>8. ~Holds("slave") => ~Holds("fewSlaves")
  BY <1>1, <1>4, Zenon DEF Gate
<1>9. Holds("slave") /\ Holds("slaveReadOnly") => "MASTER" \in flags
  BY <1>1, <1>4, Zenon DEF Gate
<1>10. ~Holds("luaTimeout")
  BY <1>2, <1>4, Zenon DEF Gate, DuringScript
<1>11. Holds("loading") => "F" \in Row[c]
  <2>1. Holds("loading") => Has(c, "LOADING")
    BY <1>4, Zenon DEF Gate
  <2> QED
    BY <2>1, WritesNotLoading
<1> QED
  BY <1>5, <1>6, <1>7, <1>8, <1>9, <1>10, <1>11 DEF Holds

\* Of ten gates and their exceptions, no way through is left to a write that the
\* server must not make, in any order of conditions, transactions and commands.
THEOREM WritesHeldAlways == GatesSpec => []WritesHeld
<1>1. GatesInit => WritesHeld
  BY DEF GatesInit, WritesHeld
<1>2. WritesHeld /\ [GatesNext]_gvars => WritesHeld'
  <2> SUFFICES ASSUME WritesHeld, [GatesNext]_gvars PROVE WritesHeld'
    OBVIOUS
  <2>1. CASE \E c \in Command, arg \in Arg : processCommand(c, arg)
    <3>1. PICK c \in Command, arg \in Arg : processCommand(c, arg)
      BY <2>1
    <3>2. srv' = srv /\ ("MASTER" \in flags => "MASTER" \in flags')
      BY <3>1 DEF processCommand, Answer, flagTransaction
    <3>3. CASE Refusal(c, arg) = "passed"
      <4>1. let' = Row[c] \cap {"w", "m", "F"}
        BY <3>1, <3>3 DEF processCommand, Answer
      <4> QED
        BY <3>2, <3>3, <4>1, PassedWrite DEF WritesHeld, Holds
    <3>4. CASE Refusal(c, arg) # "passed"
      BY <3>1, <3>4 DEF processCommand, Answer, WritesHeld
    <3> QED
      BY <3>3, <3>4
  <2>2. CASE ProcessInvalid
    BY <2>2 DEF ProcessInvalid, Answer, WritesHeld
  <2>3. CASE ProcessQuit \/ ConditionChanges
    BY <2>3 DEF ProcessQuit, ConditionChanges, WritesHeld
  <2>4. CASE Transaction
    BY <2>4 DEF Transaction, WritesHeld, Holds
  <2>5. CASE Subscription
    BY <2>5 DEF Subscription, WritesHeld, Holds
  <2>6. CASE UNCHANGED gvars
    BY <2>6 DEF gvars, WritesHeld, Holds
  <2> QED
    BY <2>1, <2>2, <2>3, <2>4, <2>5, <2>6, Zenon DEF GatesNext
<1> QED
  BY <1>1, <1>2, PTL DEF GatesSpec

-----------------------------------------------------------------------------
(* What is fed.                                                            *)

\* k is how s is sifted, step by step.
Sifts(k, s, S) ==
  /\ Sifted(s, S) = k[Len(s)] /\ k[0] = <<>>
  /\ \A n \in 1..Len(s) : k[n] = IF s[n] \in S THEN Append(k[n - 1], s[n]) ELSE k[n - 1]
  /\ \A n \in 0..Len(s) : k[n] \in Seq(S)

LEMMA SiftedSteps ==
  ASSUME NEW A, NEW s \in Seq(A), NEW S
  PROVE  \E k : Sifts(k, s, S)
<1> DEFINE N == Len(s)
           G == [v \in Seq(S) \X Nat |-> IF s[v[2]] \in S THEN Append(v[1], s[v[2]]) ELSE v[1]]
           sifted[n \in 0..N] == IF n = 0 THEN <<>>
                                 ELSE IF s[n] \in S THEN Append(sifted[n - 1], s[n])
                                 ELSE sifted[n - 1]
<1>1. N \in Nat
  BY LenProperties
<1>2. <<>> \in Seq(S) /\ G \in [Seq(S) \X Nat -> Seq(S)]
  <2>1. \A v \in Seq(S) \X Nat : v[1] \in Seq(S)
    OBVIOUS
  <2>2. \A q \in Seq(S), e \in S : Append(q, e) \in Seq(S)
    BY AppendProperties
  <2> QED
    BY <2>1, <2>2, EmptySeq
<1>3. PICK f \in [0..N -> Seq(S)] : Recursive(f, N, <<>>, G)
  <2> HIDE DEF G, N
  <2> QED
    BY <1>1, <1>2, RecursionExists
<1>4. \A n \in 0..N : f[n] = IF n = 0 THEN <<>>
                             ELSE IF s[n] \in S THEN Append(f[n - 1], s[n]) ELSE f[n - 1]
  <2>1. ASSUME NEW n \in 0..N, n # 0
        PROVE  f[n] = IF s[n] \in S THEN Append(f[n - 1], s[n]) ELSE f[n - 1]
    <3>1. n \in 1..N /\ n \in Nat /\ n - 1 \in 0..N
      BY <1>1, <2>1
    <3>2. f[n - 1] \in Seq(S) /\ f[n] = G[<<f[n - 1], n>>]
      BY <1>3, <3>1 DEF Recursive
    <3> HIDE DEF N
    <3> QED
      BY <3>1, <3>2
  <2> HIDE DEF G, N
  <2> QED
    BY <1>3, <2>1 DEF Recursive
<1>5. f = [n \in 0..N |-> IF n = 0 THEN <<>>
                          ELSE IF s[n] \in S THEN Append(f[n - 1], s[n]) ELSE f[n - 1]]
  <2> HIDE DEF G, N
  <2>1. f = [n \in 0..N |-> f[n]]
    OBVIOUS
  <2> QED
    BY <1>4, <2>1
<1>6. sifted = [n \in 0..N |-> IF n = 0 THEN <<>>
                               ELSE IF s[n] \in S THEN Append(sifted[n - 1], s[n])
                               ELSE sifted[n - 1]]
  <2> HIDE DEF G, N
  <2> QED
    BY <1>5
<1>7. Sifted(s, S) = sifted[Len(s)]
  BY DEF Sifted
<1> HIDE DEF G, sifted
<1>8. sifted[0] = <<>> /\ \A n \in 1..N : sifted[n] = IF s[n] \in S THEN Append(sifted[n - 1], s[n])
                                                   ELSE sifted[n - 1]
  <2>1. 0 \in 0..N /\ \A n \in 1..N : n \in 0..N /\ n # 0
    BY <1>1
  <2> HIDE DEF N
  <2> QED
    BY <1>6, <2>1
<1>9. \A n \in 0..N : sifted[n] \in Seq(S)
  <2> HIDE DEF N
  <2>1. ASSUME NEW n \in 1..N, sifted[n - 1] \in Seq(S) PROVE sifted[n] \in Seq(S)
    <3>1. CASE s[n] \in S
      <4>1. sifted[n] = Append(sifted[n - 1], s[n])
        BY <1>8, <3>1
      <4> QED
        BY <2>1, <3>1, <4>1, AppendProperties
    <3>2. CASE s[n] \notin S
      BY <1>8, <2>1, <3>2
    <3> QED
      BY <3>1, <3>2
  <2>2. sifted[0] \in Seq(S)
    BY <1>2, <1>8
  <2> QED
    BY <1>1, <2>1, <2>2, RecursionStays, Zenon
<1>10. Sifts(sifted, s, S)
  BY <1>7, <1>8, <1>9 DEF Sifts
<1> QED
  BY <1>10

LEMMA SiftedNone == ASSUME NEW S PROVE Sifted(<<>>, S) = <<>>
<1>1. <<>> \in Seq({})
  BY EmptySeq
<1>2. PICK k : Sifts(k, <<>>, S)
  BY <1>1, SiftedSteps, Zenon
<1> QED
  BY <1>2, EmptySeq DEF Sifts

\* One element more.
LEMMA SiftedAppend ==
  \A A, S : \A s \in Seq(A), x \in A :
    /\ Sifted(s, S) \in Seq(S)
    /\ Sifted(Append(s, x), S) = IF x \in S THEN Append(Sifted(s, S), x) ELSE Sifted(s, S)
<1> SUFFICES ASSUME NEW A, NEW S, NEW s \in Seq(A), NEW x \in A
             PROVE  /\ Sifted(s, S) \in Seq(S)
                    /\ Sifted(Append(s, x), S) = IF x \in S THEN Append(Sifted(s, S), x)
                                                            ELSE Sifted(s, S)
  OBVIOUS
<1> DEFINE u == Append(s, x)
           N == Len(s)
<1>1. /\ u \in Seq(A) /\ Len(u) = N + 1 /\ N \in Nat /\ u[N + 1] = x
      /\ \A n \in 1..N : u[n] = s[n]
  BY AppendProperties, LenProperties
<1> HIDE DEF u
<1>2. PICK k : Sifts(k, s, S)
  BY SiftedSteps, Zenon
<1>3. PICK l : Sifts(l, u, S)
  BY <1>1, SiftedSteps, Zenon
<1>4. \A n \in 0..N : l[n] = k[n]
  <2> DEFINE T == { n \in 0..N : l[n] = k[n] }
  <2>1. 0 \in T
    BY <1>1, <1>2, <1>3 DEF Sifts
  <2>2. ASSUME NEW n \in 0..N - 1, n \in T PROVE n + 1 \in T
    <3>1. n + 1 \in 1..N /\ n + 1 \in 1..N + 1 /\ (n + 1) - 1 = n /\ n + 1 \in 0..N
      BY <1>1
    <3> HIDE DEF N
    <3>2. k[n + 1] = IF s[n + 1] \in S THEN Append(k[n], s[n + 1]) ELSE k[n]
      BY <1>2, <3>1 DEF N, Sifts
    <3>3. l[n + 1] = IF u[n + 1] \in S THEN Append(l[n], u[n + 1]) ELSE l[n]
      BY <1>1, <1>3, <3>1 DEF Sifts
    <3>4. u[n + 1] = s[n + 1]
      BY <1>1, <3>1
    <3> QED
      BY <2>2, <3>1, <3>2, <3>3, <3>4
  <2> HIDE DEF T, N
  <2>3. 0..N \subseteq T
    BY <1>1, <2>1, <2>2, InductTo
  <2> QED
    BY <2>3 DEF T
<1>5. l[N + 1] = IF x \in S THEN Append(l[N], x) ELSE l[N]
  <2>1. N + 1 \in 1..N + 1 /\ (N + 1) - 1 = N
    BY <1>1
  <2> HIDE DEF N
  <2> QED
    BY <1>1, <1>3, <2>1 DEF Sifts
<1>6. l[N] = k[N]
  BY <1>1, <1>4
<1>7. Sifted(u, S) = IF x \in S THEN Append(Sifted(s, S), x) ELSE Sifted(s, S)
  BY <1>1, <1>2, <1>3, <1>5, <1>6 DEF Sifts
<1>8. Sifted(s, S) \in Seq(S)
  BY <1>1, <1>2 DEF Sifts
<1> QED
  BY <1>7, <1>8 DEF u

Op == [id : 1..MaxOps, target : SUBSET Target]

For(t) == [id : 1..MaxOps, target : {T \in SUBSET Target : t \in T}]

Ids(q) == [i \in DOMAIN q |-> q[i].id]

Feeds == [Target -> Seq(Nat)]

Off(t) == t = "AOF" /\ ~aof_on

FeedType == /\ also \in Seq(Op) /\ fed \in Feeds /\ made \in Feeds /\ given \in 0..MaxOps

LEMMA OperationsAppend ==
  ASSUME NEW s \in Seq(Nat), NEW n \in Nat
  PROVE  /\ Operations(s) \in Seq(Nat)
         /\ Operations(<<>>) = <<>>
         /\ Operations(Append(s, n)) = IF n \in 1..MaxOps THEN Append(Operations(s), n)
                                                           ELSE Operations(s)
<1> DEFINE S == 1..MaxOps
<1>1. /\ Sifted(s, S) \in Seq(S)
      /\ Sifted(Append(s, n), S) = IF n \in S THEN Append(Sifted(s, S), n) ELSE Sifted(s, S)
  <2> DEFINE A == Nat
  <2>1. s \in Seq(A) /\ n \in A
    OBVIOUS
  <2> HIDE DEF S, A
  <2> QED
    BY <2>1, SiftedAppend
<1>2. 1..MaxOps \subseteq Nat
  BY PropagationAssumption
<1>3. Sifted(s, 1..MaxOps) \in Seq(Nat)
  BY <1>1, <1>2, SeqMonotonic
<1>4. Operations(<<>>) = <<>>
  BY SiftedNone DEF Operations
<1> QED
  BY <1>1, <1>3, <1>4 DEF Operations

LEMMA WaitingIs ==
  ASSUME NEW t
  PROVE  /\ Waiting(t) = Ids(Sifted(also, For(t))) /\ (also = <<>> => Waiting(t) = <<>>)
         /\ (Waiting(t) = Ids(Sifted(also, For(t))))' /\ (also' = <<>> => Waiting(t)' = <<>>)
<1>1. Waiting(t) = Ids(Sifted(also, For(t)))
  BY DEF Waiting, Ids, For
<1>2. Waiting(t)' = Ids(Sifted(also', For(t)))
  BY DEF Waiting, Ids, For
<1>3. Ids(<<>>) = <<>> /\ Sifted(<<>>, For(t)) = <<>>
  BY SiftedNone DEF Ids
<1> QED
  BY <1>1, <1>2, <1>3

LEMMA ConcatAppend ==
  ASSUME NEW s \in Seq(Nat), NEW u \in Seq(Nat), NEW x \in Nat
  PROVE  Append(s \o u, x) = s \o Append(u, x)
<1> DEFINE y == <<x>>
<1>1. s \o u \in Seq(Nat) /\ y \in Seq(Nat)
  BY ConcatProperties
<1>2. Append(s \o u, x) = (s \o u) \o y /\ Append(u, x) = u \o y
  BY <1>1, AppendIsConcat
<1> HIDE DEF y
<1>3. (s \o u) \o y = s \o (u \o y)
  <2> DEFINE A == Nat
  <2>1. s \in Seq(A) /\ u \in Seq(A) /\ y \in Seq(A)
    BY <1>1
  <2> HIDE DEF A
  <2> QED
    BY ONLY <2>1, ConcatAssociative
<1> QED
  BY <1>2, <1>3

LEMMA IdsAppend ==
  ASSUME NEW q \in Seq(Op), NEW x \in Op
  PROVE  /\ Ids(q) \in Seq(Nat) /\ Ids(<<>>) = <<>>
         /\ Ids(Append(q, x)) = Append(Ids(q), x.id)
<1>1. /\ Len(q) \in Nat /\ DOMAIN q = 1..Len(q) /\ \A i \in 1..Len(q) : q[i] \in Op
  BY LenProperties, ElementOfSeq
<1>2. /\ Append(q, x) \in Seq(Op) /\ Len(Append(q, x)) = Len(q) + 1
      /\ \A i \in 1..Len(q) : Append(q, x)[i] = q[i]
      /\ Append(q, x)[Len(q) + 1] = x
  BY AppendProperties
<1>3. DOMAIN Append(q, x) = 1..Len(q) + 1
  BY <1>2, LenProperties
<1>4. \A y \in Op : y.id \in Nat
  BY PropagationAssumption DEF Op
<1>5. Ids(q) \in [1..Len(q) -> Nat]
  BY <1>1, <1>4 DEF Ids
<1>6. Ids(q) \in Seq(Nat) /\ Len(Ids(q)) = Len(q)
  BY <1>1, <1>5
<1>7. Ids(<<>>) = <<>>
  BY DEF Ids
<1>8. /\ Append(Ids(q), x.id) \in Seq(Nat) /\ Len(Append(Ids(q), x.id)) = Len(q) + 1
      /\ \A i \in 1..Len(q) : Append(Ids(q), x.id)[i] = Ids(q)[i]
      /\ Append(Ids(q), x.id)[Len(q) + 1] = x.id
  BY <1>4, <1>6, AppendProperties
<1>9. Ids(Append(q, x)) = Append(Ids(q), x.id)
  <2>1. \A i \in 1..Len(q) + 1 : Ids(Append(q, x))[i] = Append(Ids(q), x.id)[i]
    <3>1. ASSUME NEW i \in 1..Len(q) PROVE Ids(Append(q, x))[i] = Append(Ids(q), x.id)[i]
      BY <1>1, <1>2, <1>3, <1>8 DEF Ids
    <3>2. Ids(Append(q, x))[Len(q) + 1] = Append(Ids(q), x.id)[Len(q) + 1]
      BY <1>1, <1>2, <1>3, <1>8 DEF Ids
    <3>3. \A i \in 1..Len(q) + 1 : i \in 1..Len(q) \/ i = Len(q) + 1
      BY <1>1
    <3> QED
      BY <3>1, <3>2, <3>3, Zenon
  <2>2. Ids(Append(q, x)) = [i \in 1..Len(q) + 1 |-> Ids(Append(q, x))[i]]
    BY <1>3 DEF Ids
  <2>3. Append(Ids(q), x.id) = [i \in 1..Len(q) + 1 |-> Append(Ids(q), x.id)[i]]
    BY <1>8, LenProperties
  <2> QED
    BY <2>1, <2>2, <2>3
<1> QED
  BY <1>6, <1>7, <1>9

LEMMA PropagateType ==
  ASSUME NEW f \in Feeds, NEW op, op.id \in Nat
  PROVE  /\ propagate(f, op) \in Feeds
         /\ \A t \in Target : propagate(f, op)[t] = IF t \in op.target /\ ~Off(t)
                                                      THEN Append(f[t], op.id) ELSE f[t]
<1>1. \A t \in Target : f[t] \in Seq(Nat) /\ Append(f[t], op.id) \in Seq(Nat)
  BY AppendProperties DEF Feeds
<1> QED
  BY <1>1 DEF propagate, Feeds, Off

\* Of its own command a target is fed what is no operation.
LEMMA OwnIsNone ==
  ASSUME NEW f \in Feeds, NEW op, op.id = 0, NEW t \in Target
  PROVE  /\ Operations(propagate(f, op)[t]) = Operations(f[t])
         /\ Off(t) => propagate(f, op)[t] = f[t]
<1>1. f[t] \in Seq(Nat) /\ 0 \in Nat /\ 0 \notin 1..MaxOps
  BY DEF Feeds
<1>2. Operations(Append(f[t], 0)) = Operations(f[t])
  BY <1>1, OperationsAppend
<1> QED
  BY <1>1, <1>2, PropagateType

\* The loop of call feeds every target what waited for it.
LEMMA AllFed ==
  ASSUME FeedType, NEW f \in Feeds
  PROVE  /\ propagateAll(f) \in Feeds
         /\ \A t \in Target :
              /\ Off(t) => propagateAll(f)[t] = f[t]
              /\ ~Off(t) => Operations(propagateAll(f)[t]) = Operations(f[t]) \o Waiting(t)
<1> DEFINE N == Len(also)
           G == [v \in Feeds \X Nat |-> IF v[2] \in 1..N THEN propagate(v[1], also[v[2]])
                                                         ELSE v[1]]
           after[n \in 0..N] == IF n = 0 THEN f ELSE propagate(after[n - 1], also[n])
<1>1. N \in Nat /\ \A n \in 1..N : also[n] \in Op /\ also[n].id \in Nat
  <2>1. N \in Nat /\ \A n \in 1..N : also[n] \in Op
    BY LenProperties, ElementOfSeq DEF FeedType
  <2> QED
    BY <2>1, PropagationAssumption DEF Op
<1>2. G \in [Feeds \X Nat -> Feeds]
  <2>1. \A v \in Feeds \X Nat : v[1] \in Feeds
    OBVIOUS
  <2>2. \A g \in Feeds, n \in 1..N : propagate(g, also[n]) \in Feeds
    BY <1>1, PropagateType
  <2> QED
    BY <2>1, <2>2
<1>3. PICK g \in [0..N -> Feeds] : Recursive(g, N, f, G)
  <2> HIDE DEF G, N
  <2> QED
    BY <1>1, <1>2, RecursionExists
<1>4. \A n \in 0..N : g[n] = IF n = 0 THEN f ELSE propagate(g[n - 1], also[n])
  <2>1. ASSUME NEW n \in 0..N, n # 0 PROVE g[n] = propagate(g[n - 1], also[n])
    <3>1. n \in 1..N /\ n \in Nat /\ n - 1 \in 0..N
      BY <1>1, <2>1
    <3>2. g[n - 1] \in Feeds /\ g[n] = G[<<g[n - 1], n>>]
      BY <1>3, <3>1 DEF Recursive
    <3> HIDE DEF N
    <3> QED
      BY <3>1, <3>2
  <2> HIDE DEF G, N
  <2> QED
    BY <1>3, <2>1 DEF Recursive
<1>5. g = [n \in 0..N |-> IF n = 0 THEN f ELSE propagate(g[n - 1], also[n])]
  <2> HIDE DEF G, N
  <2>1. g = [n \in 0..N |-> g[n]]
    OBVIOUS
  <2> QED
    BY <1>4, <2>1
<1>6. after = [n \in 0..N |-> IF n = 0 THEN f ELSE propagate(after[n - 1], also[n])]
  <2> HIDE DEF G, N
  <2> QED
    BY <1>5
<1>7. propagateAll(f) = after[N]
  BY DEF propagateAll
<1> HIDE DEF G, after
<1>8. after[0] = f /\ \A n \in 1..N : after[n] = propagate(after[n - 1], also[n])
  <2>1. 0 \in 0..N /\ \A n \in 1..N : n \in 0..N /\ n # 0
    BY <1>1
  <2> HIDE DEF N
  <2> QED
    BY <1>6, <2>1
<1> HIDE DEF N
<1>9. \A n \in 0..N : after[n] \in Feeds
  <2>1. \A n \in 1..N : after[n - 1] \in Feeds => after[n] \in Feeds
    BY <1>1, <1>8, PropagateType
  <2> QED
    BY <1>1, <1>8, <2>1, RecursionStays, Zenon
<1>10. propagateAll(f) \in Feeds
  BY <1>1, <1>7, <1>9
<1>11. ASSUME NEW t \in Target, Off(t) PROVE propagateAll(f)[t] = f[t]
  <2> DEFINE T == { n \in 0..N : after[n][t] = f[t] }
  <2>1. 0 \in T
    BY <1>1, <1>8
  <2>2. ASSUME NEW n \in 0..N - 1, n \in T PROVE n + 1 \in T
    <3>1. n + 1 \in 1..N /\ (n + 1) - 1 = n /\ n + 1 \in 0..N /\ n \in 0..N
      BY <1>1
    <3>2. after[n + 1] = propagate(after[n], also[n + 1]) /\ after[n] \in Feeds
      BY <1>8, <1>9, <3>1
    <3>3. after[n + 1][t] = after[n][t]
      BY <1>1, <1>11, <3>1, <3>2, PropagateType
    <3> QED
      BY <2>2, <3>1, <3>3
  <2> HIDE DEF T
  <2>3. 0..N \subseteq T
    BY <1>1, <2>1, <2>2, InductTo
  <2>4. N \in T
    BY <1>1, <2>3
  <2> QED
    BY <1>7, <2>4 DEF T
<1>12. ASSUME NEW t \in Target, ~Off(t)
       PROVE  Operations(propagateAll(f)[t]) = Operations(f[t]) \o Waiting(t)
  <2> DEFINE base == Operations(f[t])
  <2>1. PICK k : Sifts(k, also, For(t))
    BY SiftedSteps, Zenon DEF FeedType
  <2>2. /\ Sifted(also, For(t)) = k[N] /\ k[0] = <<>>
        /\ \A n \in 1..N : k[n] = IF also[n] \in For(t) THEN Append(k[n - 1], also[n])
                                                        ELSE k[n - 1]
        /\ \A n \in 0..N : k[n] \in Seq(For(t))
    BY <2>1 DEF Sifts, N
  <2>3. \A q \in Seq(For(t)) : q \in Seq(Op)
    <3>1. For(t) \subseteq Op
      BY DEF For, Op
    <3> QED
      BY <3>1, SeqMonotonic
  <2>4. f[t] \in Seq(Nat) /\ base \in Seq(Nat)
    <3>1. f[t] \in Seq(Nat)
      BY DEF Feeds
    <3> QED
      BY <3>1, OperationsAppend
  <2> HIDE DEF base
  <2> DEFINE T == { n \in 0..N : Operations(after[n][t]) = base \o Ids(k[n]) }
  <2>5. 0 \in T
    <3>1. Ids(k[0]) = <<>>
      BY <2>2 DEF Ids
    <3>2. base \o <<>> = base
      BY <2>4, ConcatEmptySeq
    <3>3. after[0] = f /\ 0 \in 0..N
      BY <1>1, <1>8
    <3>4. Operations(after[0][t]) = base
      BY <3>3 DEF base
    <3> QED
      BY <3>1, <3>2, <3>3, <3>4
  <2>6. ASSUME NEW n \in 0..N - 1, n \in T PROVE n + 1 \in T
    <3>1. n + 1 \in 1..N /\ (n + 1) - 1 = n /\ n + 1 \in 0..N /\ n \in 0..N
      BY <1>1
    <3> DEFINE op == also[n + 1]
    <3>2. /\ after[n + 1] = propagate(after[n], op) /\ after[n] \in Feeds
          /\ op \in Op /\ op.id \in Nat /\ k[n] \in Seq(Op)
      BY <1>1, <1>8, <1>9, <2>2, <2>3, <3>1
    <3>3. k[n + 1] = IF op \in For(t) THEN Append(k[n], op) ELSE k[n]
      BY <2>2, <3>1
    <3>4. op \in For(t) <=> t \in op.target
      BY <3>2 DEF For, Op
    <3> HIDE DEF op
    <3>5. after[n + 1][t] = IF t \in op.target THEN Append(after[n][t], op.id) ELSE after[n][t]
      BY <1>12, <3>2, PropagateType
    <3>6. CASE t \in op.target
      <4>1. op.id \in 1..MaxOps /\ after[n][t] \in Seq(Nat)
        BY <3>2 DEF Op, Feeds
      <4>2. Operations(after[n + 1][t]) = Append(Operations(after[n][t]), op.id)
        BY <3>2, <3>5, <3>6, <4>1, OperationsAppend
      <4>3. Ids(k[n + 1]) = Append(Ids(k[n]), op.id) /\ Ids(k[n]) \in Seq(Nat)
        BY <3>2, <3>3, <3>4, <3>6, IdsAppend
      <4>4. Append(base \o Ids(k[n]), op.id) = base \o Append(Ids(k[n]), op.id)
        <5> DEFINE ids == Ids(k[n])
                   x == op.id
        <5>1. base \in Seq(Nat) /\ ids \in Seq(Nat) /\ x \in Nat
          BY <2>4, <3>2, <4>3
        <5> HIDE DEF ids, x
        <5>2. Append(base \o ids, x) = base \o Append(ids, x)
          BY <5>1, ConcatAppend, Zenon
        <5> QED
          BY <5>2 DEF ids, x
      <4> QED
        BY <2>6, <3>1, <4>2, <4>3, <4>4
    <3>7. CASE t \notin op.target
      BY <2>6, <3>1, <3>3, <3>4, <3>5, <3>7
    <3> QED
      BY <3>6, <3>7
  <2> HIDE DEF T
  <2>7. 0..N \subseteq T
    BY <1>1, <2>5, <2>6, InductTo
  <2>8. N \in T
    BY <1>1, <2>7
  <2>9. Waiting(t) = Ids(k[N])
    BY <2>2, WaitingIs
  <2> QED
    BY <1>7, <2>8, <2>9 DEF T, base
<1> QED
  BY <1>10, <1>11, <1>12

FeedInv == FeedType /\ FedOnce

LEMMA FeedInit == PropagationInit => FeedInv
<1> SUFFICES ASSUME PropagationInit PROVE FeedInv
  OBVIOUS
<1>1. /\ also = <<>> /\ fed = Unfed /\ made = Unfed /\ given = 0
  BY DEF PropagationInit
<1>2. Unfed \in Feeds /\ \A t \in Target : Unfed[t] = <<>>
  BY EmptySeq DEF Unfed, Feeds
<1>3. also \in Seq(Op) /\ given \in 0..MaxOps
  BY <1>1, EmptySeq, PropagationAssumption
<1>4. FeedType
  BY <1>1, <1>2, <1>3 DEF FeedType
<1>5. ASSUME NEW t \in Target PROVE Operations(fed[t]) \o Waiting(t) = made[t]
  <2>1. Operations(<<>>) = <<>>
    BY EmptySeq, OperationsAppend
  <2>2. Waiting(t) = <<>>
    BY <1>1, WaitingIs
  <2> QED
    BY <1>1, <1>2, <2>1, <2>2
<1>6. FedOnce
  BY <1>1, <1>2, <1>5 DEF FedOnce
<1> QED
  BY <1>4, <1>6 DEF FeedInv

\* What is given to alsoPropagate waits for each of its targets.
LEMMA GivenOK ==
  ASSUME FeedInv, NEW target \in SUBSET Target, alsoPropagate(target)
  PROVE  FeedInv'
<1> DEFINE op == [id |-> given + 1, target |-> target]
<1>1. /\ given < MaxOps /\ given' = given + 1 /\ also' = Append(also, op)
      /\ made' = [t \in Target |-> IF t \in target THEN Append(made[t], given + 1) ELSE made[t]]
      /\ fed' = fed /\ aof_on' = aof_on
  BY DEF alsoPropagate
<1>2. FeedType
  BY DEF FeedInv
<1>3. given + 1 \in 1..MaxOps /\ given + 1 \in Nat /\ op \in Op
  BY <1>1, <1>2, PropagationAssumption DEF FeedType, Op
<1>4. FeedType'
  <2>1. also' \in Seq(Op)
    BY <1>1, <1>2, <1>3, AppendProperties DEF FeedType
  <2>2. \A t \in Target : made'[t] \in Seq(Nat)
    <3>1. \A t \in Target : made[t] \in Seq(Nat)
      BY <1>2 DEF FeedType, Feeds
    <3> QED
      BY <1>1, <1>3, <3>1, AppendProperties
  <2> QED
    BY <1>1, <1>2, <1>3, <2>1, <2>2 DEF FeedType, Feeds
<1>5. ASSUME NEW t \in Target, ~Off(t)
      PROVE  Operations(fed[t]) \o Waiting(t)' = made'[t]
  <2> DEFINE mine == Sifted(also, For(t))
  <2>1. /\ mine \in Seq(For(t))
        /\ Sifted(also', For(t)) = IF op \in For(t) THEN Append(mine, op) ELSE mine
    <3> DEFINE S == For(t)
               A == Op
    <3>1. also \in Seq(A) /\ op \in A /\ also' = Append(also, op)
      BY <1>1, <1>2, <1>3 DEF FeedType
    <3> HIDE DEF op, S, A
    <3>2. /\ Sifted(also, S) \in Seq(S)
          /\ Sifted(also', S) = IF op \in S THEN Append(Sifted(also, S), op) ELSE Sifted(also, S)
      BY <3>1, SiftedAppend
    <3> QED
      BY <3>2 DEF S
  <2>2. mine \in Seq(Op)
    <3>1. For(t) \subseteq Op
      BY DEF For, Op
    <3> QED
      BY <2>1, <3>1, SeqMonotonic
  <2>3. op \in For(t) <=> t \in target
    BY <1>3 DEF For
  <2> HIDE DEF mine, op
  <2>4. Waiting(t) = Ids(mine)
    BY WaitingIs DEF mine
  <2>5. Waiting(t)' = Ids(Sifted(also', For(t)))
    BY WaitingIs
  <2>6. Operations(fed[t]) \o Waiting(t) = made[t]
    BY <1>5 DEF FeedInv, FedOnce, Off
  <2>7. CASE t \in target
    <3>1. op.id = given + 1
      BY DEF op
    <3>2. Ids(mine) \in Seq(Nat) /\ Waiting(t)' = Append(Ids(mine), given + 1)
      BY <1>3, <2>1, <2>2, <2>3, <2>5, <2>7, <3>1, IdsAppend
    <3>3. Operations(fed[t]) \in Seq(Nat)
      <4>1. fed[t] \in Seq(Nat)
        BY <1>2 DEF FeedType, Feeds
      <4> QED
        BY <1>3, <4>1, OperationsAppend
    <3>4. Append(Operations(fed[t]) \o Ids(mine), given + 1)
            = Operations(fed[t]) \o Append(Ids(mine), given + 1)
      <4> DEFINE b == Operations(fed[t])
                 ids == Ids(mine)
                 x == given + 1
      <4>1. b \in Seq(Nat) /\ ids \in Seq(Nat) /\ x \in Nat
        BY <1>3, <3>2, <3>3
      <4> HIDE DEF b, ids, x
      <4>2. Append(b \o ids, x) = b \o Append(ids, x)
        BY <4>1, ConcatAppend, Zenon
      <4> QED
        BY <4>2 DEF b, ids, x
    <3> QED
      BY <1>1, <2>4, <2>6, <2>7, <3>2, <3>4
  <2>8. CASE t \notin target
    BY <1>1, <2>1, <2>3, <2>4, <2>5, <2>6, <2>8
  <2> QED
    BY <2>7, <2>8
<1>6. ASSUME NEW t \in Target, Off(t) PROVE fed[t] = <<>>
  BY <1>6 DEF FeedInv, FedOnce, Off
<1>7. FedOnce'
  BY <1>1, <1>5, <1>6 DEF FedOnce, Off
<1> QED
  BY <1>4, <1>7 DEF FeedInv

\* A call feeds what waits, and leaves nothing to wait.
LEMMA CallOK ==
  ASSUME FeedInv, NEW c \in Client, NEW propagating \in BOOLEAN, call(c, propagating)
  PROVE  FeedInv'
<1>1. PICK own : own.id = 0 /\ fed' = propagateAll(propagate(fed, own))
  <2>1. PICK dirty \in BOOLEAN :
          fed' = propagateAll(propagate(fed, [id |-> 0, target |-> IF propagating
                                                THEN OwnTarget(c, dirty) ELSE {}]))
    BY DEF call
  <2> QED
    BY <2>1
<1>2. also' = <<>> /\ made' = made /\ aof_on' = aof_on /\ given' = given
  BY DEF call, Drained
<1>3. FeedType
  BY DEF FeedInv
<1> DEFINE f == propagate(fed, own)
<1>4. f \in Feeds
  BY <1>1, <1>3, PropagateType DEF FeedType
<1>5. /\ fed' \in Feeds
      /\ \A t \in Target : /\ Off(t) => fed'[t] = f[t]
                           /\ ~Off(t) => Operations(fed'[t]) = Operations(f[t]) \o Waiting(t)
  <2> HIDE DEF f
  <2>1. fed' = propagateAll(f)
    BY <1>1 DEF f
  <2> QED
    BY <1>3, <1>4, <2>1, AllFed
<1>6. \A t \in Target : /\ Operations(f[t]) = Operations(fed[t])
                        /\ Off(t) => f[t] = fed[t]
  BY <1>1, <1>3, OwnIsNone DEF FeedType
<1> HIDE DEF f
<1>7. FeedType'
  BY <1>2, <1>3, <1>5, EmptySeq DEF FeedType
<1>8. ASSUME NEW t \in Target PROVE Waiting(t)' = <<>>
  BY <1>2, WaitingIs
<1>9. ASSUME NEW t \in Target, ~Off(t)
      PROVE  Operations(fed'[t]) \o Waiting(t)' = made[t]
  <2>1. Operations(fed'[t]) = made[t]
    <3>1. Operations(fed[t]) \o Waiting(t) = made[t]
      BY <1>9 DEF FeedInv, FedOnce, Off
    <3> QED
      BY <1>5, <1>6, <1>9, <3>1
  <2>2. made[t] \in Seq(Nat)
    BY <1>3 DEF FeedType, Feeds
  <2> QED
    BY <1>8, <2>1, <2>2, ConcatEmptySeq
<1>10. ASSUME NEW t \in Target, Off(t) PROVE fed'[t] = <<>>
  <2>1. fed[t] = <<>>
    BY <1>10 DEF FeedInv, FedOnce, Off
  <2> QED
    BY <1>5, <1>6, <1>10, <2>1
<1>11. FedOnce'
  BY <1>2, <1>9, <1>10 DEF FedOnce, Off
<1> QED
  BY <1>7, <1>11 DEF FeedInv

LEMMA FeedNext == FeedInv /\ [PropagationNext]_pvars => FeedInv'
<1> SUFFICES ASSUME FeedInv, [PropagationNext]_pvars PROVE FeedInv'
  OBVIOUS
<1>1. ASSUME NEW target \in {{"AOF"}, {"REPL"}, Target}, alsoPropagate(target) PROVE FeedInv'
  <2>1. target \in SUBSET Target
    BY DEF Target
  <2> QED
    BY <1>1, <2>1, GivenOK
<1>2. ASSUME NEW c \in Client, NEW propagating \in BOOLEAN, call(c, propagating) PROVE FeedInv'
  BY <1>2, CallOK
<1>3. ASSUME UNCHANGED <<also, fed, made, given, aof_on>> PROVE FeedInv'
  BY <1>3 DEF FeedInv, FeedType, FedOnce, Waiting
<1>4. ASSUME NEW c \in Client, NEW target, forceCommandPropagation(c, target)
      PROVE  UNCHANGED <<also, fed, made, given, aof_on>>
  BY <1>4 DEF forceCommandPropagation
<1>5. Script \/ UNCHANGED pvars => UNCHANGED <<also, fed, made, given, aof_on>>
  BY DEF Script, pvars
<1> QED
  BY <1>1, <1>2, <1>3, <1>4, <1>5 DEF PropagationNext

\* However calls, scripts and forced propagation interleave, each operation that
\* alsoPropagate is given reaches each of its targets once and in order, or
\* still waits for the end of a call; a file that is off gets nothing.
THEOREM FedOnceAlways == PropagationSpec => []FedOnce
<1>1. FeedInv => FedOnce
  BY DEF FeedInv
<1> QED
  BY <1>1, FeedInit, FeedNext, PTL DEF PropagationSpec
=============================================================================
