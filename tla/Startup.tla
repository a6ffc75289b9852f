------------------------------ MODULE Startup ------------------------------
(***************************************************************************)
(* initServer of src/src/cache.c, up to the event loop: how many files and *)
(* so how many clients the process may have, what it listens to, and every *)
(* way to exit. The calls of the system and of anet.h and ae.h may fail.   *)
(***************************************************************************)
EXTENDS Integers

CONSTANTS UINT,       \* the number of values of an unsigned int
          RESERVED,   \* CACHE_MIN_RESERVED_FDS
          DECR_STEP,  \* 16 in the code, half of RESERVED
          MAXCLIENTS, \* CACHE_MAX_CLIENTS
          UNKNOWN,    \* 1024, the files taken for granted
          BindAddrs,  \* how many addresses the server may be bound to
          Limits      \* the limits on open files that a process may meet

ASSUME StartAssumption == /\ {RESERVED, DECR_STEP, MAXCLIENTS, UNKNOWN, UINT} \subseteq Nat
                          /\ DECR_STEP <= RESERVED /\ RESERVED <= UNKNOWN
                          /\ RESERVED + MAXCLIENTS < UINT
                          /\ Limits \subseteq Nat /\ BindAddrs \subseteq Nat

VARIABLES boot,        \* where initServer is; "up" and "exit" at last
          maxclients,
          soft, hard,  \* RLIMIT_NOFILE
          known,       \* getrlimit has answered
          bestlimit, old_limit,
          addrs, bound,  \* the addresses to listen to, and the sockets for them
          sofd           \* the Unix socket: "unset", "wanted", "open"

files  == <<maxclients, soft, hard, known, bestlimit, old_limit>>
socks  == <<addrs, bound, sofd>>
bvars  == <<boot, files, socks>>

InUInt(x) == IF x < 0 THEN x + UINT ELSE x

maxfiles == MAXCLIENTS + RESERVED

BootInit == /\ boot = "limit" /\ maxclients = MAXCLIENTS
            /\ soft \in Limits /\ hard \in { h \in Limits : h >= soft }
            /\ known = FALSE /\ bestlimit = 0 /\ old_limit = 0
            /\ addrs \in BindAddrs /\ bound = 0 /\ sofd \in {"unset", "wanted"}

At(here, next) == boot = here /\ boot' = next

Exit(here) == At(here, "exit") /\ UNCHANGED <<files, socks>>

-----------------------------------------------------------------------------
(* adjustOpenFilesLimit.                                                   *)

GetLimit ==
  /\ \/ /\ At("limit", "listen")
        /\ maxclients' = UNKNOWN - RESERVED
        /\ UNCHANGED <<known, bestlimit, old_limit>>
     \/ /\ soft >= maxfiles /\ At("limit", "listen")
        /\ known' = TRUE
        /\ UNCHANGED <<maxclients, bestlimit, old_limit>>
     \/ /\ soft < maxfiles /\ At("limit", "raise")
        /\ known' = TRUE /\ bestlimit' = maxfiles /\ old_limit' = soft
        /\ UNCHANGED maxclients
  /\ UNCHANGED <<soft, hard, socks>>

\* setrlimit is given bestlimit for both limits; what is above the hard one is
\* refused, and less is asked for.
Raise ==
  /\ \/ /\ bestlimit > old_limit /\ bestlimit <= hard
        /\ At("raise", "raised")
        /\ soft' = bestlimit /\ hard' = bestlimit
        /\ UNCHANGED bestlimit
     \/ /\ bestlimit > old_limit /\ bestlimit > hard
        /\ IF bestlimit < DECR_STEP
           THEN At("raise", "raised") /\ UNCHANGED bestlimit
           ELSE boot = "raise" /\ UNCHANGED boot /\ bestlimit' = bestlimit - DECR_STEP
        /\ UNCHANGED <<soft, hard>>
     \/ /\ bestlimit <= old_limit /\ At("raise", "raised")
        /\ UNCHANGED <<bestlimit, soft, hard>>
  /\ UNCHANGED <<maxclients, known, old_limit, socks>>

\* Mutant: the files that the server keeps for itself are left to clients.
Reduced_All(b) == InUInt(b)

\* maxclients is unsigned, and a limit below RESERVED is not noticed.
Reduced(b) == InUInt(b - RESERVED)

Adjust ==
  LET b == IF bestlimit < old_limit THEN old_limit ELSE bestlimit
  IN  /\ maxclients' = IF b < maxfiles THEN Reduced(b) ELSE maxclients
      /\ IF maxclients' < 1 THEN At("raised", "exit") ELSE At("raised", "listen")
      /\ UNCHANGED <<soft, hard, known, bestlimit, old_limit, socks>>

-----------------------------------------------------------------------------
(* listenToPort and the rest of initServer.                                *)

\* Without an address one of two sockets is enough, with some each must open.
listenToPort ==
  \/ /\ addrs = 0 /\ At("listen", "unix")
     /\ bound' \in {1, 2} /\ UNCHANGED <<files, addrs, sofd>>
  \/ /\ addrs > 0 /\ At("listen", "unix")
     /\ bound' = addrs /\ UNCHANGED <<files, addrs, sofd>>
  \/ Exit("listen")

\* server.port is 0.
NoPort == At("listen", "unix") /\ UNCHANGED <<files, socks>>

UnixSocket ==
  \/ /\ sofd = "wanted" /\ At("unix", "events")
     /\ sofd' = "open" /\ UNCHANGED <<files, addrs, bound>>
  \/ /\ sofd = "unset" /\ bound > 0 /\ At("unix", "events")
     /\ UNCHANGED <<files, socks>>
  \/ (sofd = "wanted" \/ bound = 0) /\ Exit("unix")

\* The databases; the time event, a file event for each socket, and the
\* append-only file, if there is one: any of them may fail.
Events == \/ At("events", "up") /\ UNCHANGED <<files, socks>>
          \/ Exit("events")

BootNext == GetLimit \/ Raise \/ Adjust \/ listenToPort \/ NoPort \/ UnixSocket \/ Events

BootSpec == BootInit /\ [][BootNext]_bvars

-----------------------------------------------------------------------------
(* Properties.                                                             *)

\* A server that has come up listens, and can open a file for every client it
\* accepts and those it keeps for itself: whatever the system granted on the way,
\* if it told its limit and that is not below what the server keeps for itself.
FilesFit == boot = "up" =>
              /\ bound > 0 \/ sofd = "open"
              /\ known /\ soft >= RESERVED => maxclients + RESERVED <= soft

\* What the message before the exit in adjustOpenFilesLimit says, "Your current
\* 'ulimit -n' of %llu is not enough for Cache to start. Please increase your open
\* file limit to at least %llu. Exiting.": a server that has no file for a client
\* does not come up. It does when the limit is below what it keeps for itself,
\* since maxclients is unsigned and wraps, and so is not less than 1.
EnoughFiles == boot = "up" /\ known => soft > RESERVED
=============================================================================
