------------------------------ MODULE Commands ------------------------------
(***************************************************************************)
(* The commands of the cache server, src/src/cache.c: the table, the flags *)
(* that populateCommandTable gives its rows, and the gates of              *)
(* processCommand, in their order. A client sends commands while the       *)
(* server's condition and the client's own change. processCommand ends     *)
(* after the last gate: it neither queues nor runs the command.            *)
(***************************************************************************)
EXTENDS Integers, FiniteSets

CONSTANTS MaxTrouble   \* bound: how many conditions hold at the same time

ASSUME TroubleAssumption == MaxTrouble \in Nat

VARIABLES srv,      \* the conditions of the server that gates look at
          flags,    \* the flags of the client
          let       \* history: the last command was let through, with these
                    \* letters, of w, m and F

gvars == <<srv, flags, let>>

-----------------------------------------------------------------------------
(* The table. A row stands for all rows with the same letters and key      *)
(* positions; its letters are those of sflags.                             *)

Row ==
  [set |-> {"w", "m"}, setnx |-> {"w", "m", "F"}, del |-> {"w"}, rpop |-> {"w", "F"},
   get |-> {"r", "F"}, getrange |-> {"r"}, spop |-> {"w", "R", "s", "F"},
   brpop |-> {"w", "s"}, brpoplpush |-> {"w", "m", "s"}, sinter |-> {"r", "S"},
   srandmember |-> {"r", "R"}, hscan |-> {"r", "R"}, watch |-> {"r", "s", "F"},
   restoreAsking |-> {"w", "m", "k"}, eval |-> {"s"}, zunionstore |-> {"w", "m"},
   flushdb |-> {"w"}, bitop |-> {"w", "m"}, keys |-> {"r", "S"},
   randomkey |-> {"r", "R"}, time |-> {"r", "R", "F"}, select |-> {"r", "l", "F"},
   dbsize |-> {"r", "F"}, asking |-> {"r"}, auth |-> {"r", "s", "l", "t", "F"},
   ping |-> {"r", "t", "F"}, multi |-> {"r", "s", "F"}, exec |-> {"s", "M"},
   save |-> {"a", "r", "s"}, bgsave |-> {"a", "r"}, shutdown |-> {"a", "r", "l", "t"},
   replconf |-> {"a", "r", "s", "l", "t"}, config |-> {"a", "r", "t"},
   debug |-> {"a", "s"}, slaveof |-> {"a", "s", "t"}, role |-> {"l", "s", "t"},
   info |-> {"r", "l", "t"}, subscribe |-> {"r", "p", "s", "l", "t"},
   publish |-> {"p", "l", "t", "r", "F"}, pubsub |-> {"p", "l", "t", "r", "R"},
   script |-> {"r", "s"}]

Command == DOMAIN Row

\* firstkey is not 0, or getkeys_proc is not NULL.
Keyed == {"set", "setnx", "del", "rpop", "get", "getrange", "spop", "brpop", "brpoplpush",
          "sinter", "srandmember", "hscan", "watch", "restoreAsking", "eval", "zunionstore"}

Quiet == {"subscribe", "ping"}   \* what a client that subscribed may send

\* The bits of a flag. CACHE_CMD_FAST is 9192, not 8192, and so has those of
\* CACHE_CMD_LOADING and of four other flags, too.
Bits(n) == {i \in 0..13 : (n \div 2^i) % 2 = 1}

CMD == [WRITE |-> 1, READONLY |-> 2, DENYOOM |-> 4, ADMIN |-> 16, PUBSUB |-> 32,
        NOSCRIPT |-> 64, RANDOM |-> 128, SORT_FOR_SCRIPT |-> 256, LOADING |-> 512,
        STALE |-> 1024, SKIP_MONITOR |-> 2048, ASKING |-> 4096, FAST |-> 9192]

\* The switch of populateCommandTable; CACHE_CMD_SORT_LOADING, which is defined
\* nowhere, is taken to be CACHE_CMD_LOADING.
Letter == [w |-> CMD.WRITE, r |-> CMD.READONLY, m |-> CMD.DENYOOM, a |-> CMD.ADMIN,
           p |-> CMD.PUBSUB, s |-> CMD.NOSCRIPT, R |-> CMD.RANDOM,
           S |-> CMD.SORT_FOR_SCRIPT, l |-> CMD.LOADING, t |-> CMD.STALE,
           M |-> CMD.SKIP_MONITOR, k |-> CMD.ASKING, F |-> CMD.FAST]

\* Mutant: the letter `w' of rows that have an `m' is not translated.
populateCommandTable_First ==
  [c \in Command |-> UNION {Bits(Letter[l]) : l \in Row[c] \ (IF "m" \in Row[c] THEN {"w"} ELSE {})}]

\* flags are or-ed into those of the row: 0, but for hscan, whose row has -3.
populateCommandTable ==
  [c \in Command |-> UNION {Bits(Letter[l]) : l \in Row[c]}
                       \cup (IF c = "hscan" THEN 0..13 \ {1} ELSE {})]

Has(c, flag) == Bits(CMD[flag]) \cap populateCommandTable[c] # {}

-----------------------------------------------------------------------------
(* What the gates look at.                                                 *)

Condition ==
  {"noauth",        \* requirepass is set and the client has not authenticated
   "clusterDown", "elsewhere",   \* cluster_enabled; the keys are another node's
   "oom",           \* maxmemory is set and freeMemoryIfNeeded fails
   "bgsaveError", "aofError",    \* stop_writes_on_bgsave_err; aof_last_write_status
   "fewSlaves",     \* fewer good slaves than repl_min_slaves_to_write
   "slave",         \* masterhost is set
   "slaveReadOnly", "stale",     \* repl_slave_ro; no link, no repl_serve_stale_data
   "loading",
   "luaTimeout"}

Holds(cond) == cond \in srv

\* The argument of SHUTDOWN and SCRIPT: one that begins with \n, with k or K
\* (SCRIPT KILL), with n or N (SHUTDOWN NOSAVE), or none.
Arg == {"newline", "k", "n", "none"}

\* Sent during a script that runs for too long, these are let through.
DuringScript(c, arg) == \/ c \in {"auth", "replconf"}
                        \/ c = "shutdown" /\ arg = "newline"
                        \/ c = "script" /\ arg = "k"

Writes(c) == Has(c, "WRITE")

\* Each gate: whether it refuses the command c with argument arg.
Gate(c, arg) ==
  LET master == "MASTER" \in flags IN
  [noauth      |-> Holds("noauth") /\ c # "auth",
   cluster     |-> /\ Holds("clusterDown") \/ Holds("elsewhere")
                   /\ ~master /\ ~({"LUA_CLIENT", "MASTER_CALLER"} \subseteq flags)
                   /\ c \in Keyed,
   oom         |-> Holds("oom") /\ Has(c, "DENYOOM"),
   misconf     |-> /\ Holds("bgsaveError") \/ Holds("aofError")
                   /\ ~Holds("slave")
                   /\ Writes(c) \/ c = "ping",
   noreplicas  |-> ~Holds("slave") /\ Holds("fewSlaves") /\ Writes(c),
   roslave     |-> /\ Holds("slave") /\ Holds("slaveReadOnly")
                   /\ ~master /\ Writes(c),
   pubsub      |-> "PUBSUB" \in flags /\ c \notin Quiet,
   masterdown  |-> Holds("slave") /\ Holds("stale") /\ ~Has(c, "STALE"),
   loading     |-> Holds("loading") /\ ~Has(c, "LOADING"),
   slowscript  |-> Holds("luaTimeout") /\ ~DuringScript(c, arg)]

Order == <<"noauth", "cluster", "oom", "misconf", "noreplicas", "roslave", "pubsub",
           "masterdown", "loading", "slowscript">>

\* The refusals that call flagTransaction.
Flagging == {"unknown", "arity", "noauth", "cluster", "oom", "misconf", "noreplicas",
             "masterdown", "slowscript"}

\* flagTransaction (multi.c, not in the repository).
flagTransaction(f) == IF "MULTI" \in f THEN f \cup {"DIRTY_EXEC"} ELSE f

\* The first gate that refuses.
Refusal(c, arg) ==
  LET gate   == Gate(c, arg)
      closed == {i \in DOMAIN Order : gate[Order[i]]}
  IN IF closed = {} THEN "passed"
     ELSE Order[CHOOSE i \in closed : \A j \in closed : i <= j]

Answer(c, outcome) ==
  /\ let' = IF outcome = "passed" THEN Row[c] \cap {"w", "m", "F"} ELSE {}
  /\ flags' = IF outcome \in Flagging THEN flagTransaction(flags) ELSE flags
  /\ UNCHANGED srv

processCommand(c, arg) == Answer(c, Refusal(c, arg))

\* No such command, or the wrong number of arguments.
ProcessInvalid == \E reason \in {"unknown", "arity"} : Answer("none", reason)

ProcessQuit == /\ flags' = flags \cup {"CLOSE_AFTER_REPLY"}
               /\ let' = {}
               /\ UNCHANGED srv

-----------------------------------------------------------------------------
(* What is not in the repository: the clients, and what changes the        *)
(* server's condition.                                                     *)

\* MULTI begins a transaction, EXEC or DISCARD ends it.
Transaction == /\ flags' = IF "MULTI" \in flags THEN flags \ {"MULTI", "DIRTY_EXEC"}
                                                ELSE flags \cup {"MULTI"}
               /\ UNCHANGED <<srv, let>>

Subscription == /\ flags' = IF "PUBSUB" \in flags THEN flags \ {"PUBSUB"}
                                                  ELSE flags \cup {"PUBSUB"}
                /\ UNCHANGED <<srv, let>>

ConditionChanges == \E cond \in Condition :
  /\ srv' = IF cond \in srv THEN srv \ {cond} ELSE srv \cup {cond}
  /\ Cardinality(srv') <= MaxTrouble
  /\ let' = {}
  /\ UNCHANGED flags

\* An ordinary client, the link to the master, or the client of a script, whose
\* lua_caller may be that link.
GatesInit == /\ srv = {} /\ let = {}
             /\ flags \in {{}, {"MASTER"}, {"LUA_CLIENT"}, {"LUA_CLIENT", "MASTER_CALLER"}}

\* A client that is to be closed sends no more.
GatesNext == \/ /\ "CLOSE_AFTER_REPLY" \notin flags
                /\ \/ \E c \in Command, arg \in Arg :
                        (arg # "none" => c \in {"shutdown", "script"}) /\ processCommand(c, arg)
                   \/ ProcessInvalid \/ ProcessQuit \/ Transaction \/ Subscription
             \/ ConditionChanges

GatesSpec == GatesInit /\ [][GatesNext]_gvars

-----------------------------------------------------------------------------
\* No command whose row says `w' gets past processCommand while the server may
\* not change its data: out of memory for it, without disk or slaves as a
\* master, or read-only as a slave, whose own master alone may write. While the
\* data is loaded, too, but for rows with `F': the number of CACHE_CMD_FAST has
\* the bit of CACHE_CMD_LOADING, and so the gate lets them through.
WritesHeld ==
  "w" \in let =>
    /\ "m" \in let => ~Holds("oom")
    /\ ~Holds("slave") => srv \cap {"bgsaveError", "aofError", "fewSlaves"} = {}
    /\ Holds("slave") /\ Holds("slaveReadOnly") => "MASTER" \in flags
    /\ Holds("loading") => "F" \in let
    /\ srv \cap {"noauth", "luaTimeout"} = {}
=============================================================================
