----------------------------- MODULE Propagation -----------------------------
(***************************************************************************)
(* How changes reach the append-only file and the slaves, src/src/cache.c: *)
(* propagate, alsoPropagate, forceCommandPropagation and call, for a       *)
(* client and for the client of a script that it runs.                     *)
(***************************************************************************)
EXTENDS Integers, Sequences

CONSTANTS MaxOps,      \* bound: how many operations alsoPropagate is given
          MaxCalls     \* bound: how many calls there are

ASSUME PropagationAssumption == MaxOps \in Nat /\ MaxCalls \in Nat

VARIABLES force,         \* the CACHE_FORCE flags of the two clients
          scripted,      \* a script runs: lua_caller is set
          also,          \* server.also_propagate: operations and their targets
          ops,           \* its memory: "null", "held" or "freed"
          aof_on,        \* aof_state is not CACHE_AOF_OFF
          fed,           \* what the file and the slaves were fed, in order
          calls, given, made,   \* bounds; history: the operations, by target
          broken         \* undefined behaviour has ended the program

pvars == <<force, scripted, also, ops, aof_on, fed, calls, given, made, broken>>

Target == {"AOF", "REPL"}      \* CACHE_PROPAGATE_AOF, CACHE_PROPAGATE_REPL
Client == {"client", "lua"}

Unfed == [t \in Target |-> <<>>]

\* propagate: whom an operation is fed to.
propagate(f, op) ==
  [t \in Target |-> IF t \in op.target /\ (t = "AOF" => aof_on) THEN Append(f[t], op.id)
                                                               ELSE f[t]]

\* The loop of call over also_propagate.
propagateAll(f) ==
  LET after[n \in 0..Len(also)] == IF n = 0 THEN f ELSE propagate(after[n - 1], also[n])
  IN  after[Len(also)]

alsoPropagate(target) ==
  /\ given < MaxOps /\ given' = given + 1
  \* cacheOpArrayAppend reallocates what ops points to, freed or not.
  /\ broken' \in (IF ops = "freed" THEN BOOLEAN ELSE {FALSE})
  /\ ops' = "held"
  /\ also' = Append(also, [id |-> given + 1, target |-> target])
  /\ made' = [t \in Target |-> IF t \in target THEN Append(made[t], given + 1) ELSE made[t]]
  /\ UNCHANGED <<force, scripted, aof_on, fed, calls>>

forceCommandPropagation(c, target) ==
  /\ c = "lua" => scripted
  /\ force' = [force EXCEPT ![c] = @ \cup target]
  /\ UNCHANGED <<scripted, also, ops, aof_on, fed, calls, given, made, broken>>

\* Mutant: the array keeps its operations.
Drained_Not(a) == a

\* cacheOpArrayFree counts num_ops down to 0. It reads the arguments through op,
\* which it never sets, and leaves ops with the address that it frees.
Drained(a) == <<>>

\* What the command itself goes to. The forced file is lost: its flag is or-ed
\* as CACHE_FORCE_AOF, a bit that propagate does not look at.
OwnTarget(c, dirty) == (force[c] \cap {"REPL"}) \cup (IF dirty THEN Target ELSE {})

\* call. It does not run the command: dirty is never assigned, and the flags of
\* the client end as they were. A script's client hands its flags up first.
call(c, propagating) ==
  /\ calls < MaxCalls /\ calls' = calls + 1
  /\ c = "lua" => scripted
  /\ force' = IF c = "lua" THEN [force EXCEPT !["client"] = @ \cup force["lua"]] ELSE force
  /\ \E dirty \in BOOLEAN :
       LET own == [id |-> 0, target |-> IF propagating THEN OwnTarget(c, dirty) ELSE {}]
       IN  fed' = propagateAll(propagate(fed, own))
  /\ IF also = <<>> THEN UNCHANGED <<also, ops, broken>>
                    ELSE /\ also' = Drained(also) /\ ops' = "freed" /\ broken' \in BOOLEAN
  /\ UNCHANGED <<scripted, aof_on, given, made>>

-----------------------------------------------------------------------------
(* Scripts (scripting.c, not in the repository).                           *)

\* A script begins, with no flags, or ends.
Script == /\ scripted' = ~scripted
          /\ force' = [force EXCEPT !["lua"] = {}]
          /\ UNCHANGED <<also, ops, aof_on, fed, calls, given, made, broken>>

PropagationInit ==
  /\ force = [c \in Client |-> {}] /\ scripted = FALSE
  /\ also = <<>> /\ ops = "null" /\ aof_on \in BOOLEAN
  /\ fed = Unfed /\ made = Unfed /\ calls = 0 /\ given = 0 /\ broken = FALSE

PropagationNext ==
  /\ ~broken
  /\ \/ \E target \in {{"AOF"}, {"REPL"}, Target} :
          \/ alsoPropagate(target)
          \/ \E c \in Client : forceCommandPropagation(c, target)
     \/ \E c \in Client, propagating \in BOOLEAN : call(c, propagating)
     \/ Script

PropagationSpec == PropagationInit /\ [][PropagationNext]_pvars

-----------------------------------------------------------------------------
\* The elements of s that are in S, in order.
Sifted(s, S) ==
  LET sifted[n \in 0..Len(s)] == IF n = 0 THEN <<>>
                                 ELSE IF s[n] \in S THEN Append(sifted[n - 1], s[n])
                                 ELSE sifted[n - 1]
  IN  sifted[Len(s)]

\* The operations that a target was fed, without the commands' own, and those
\* that wait for it.
Operations(s) == Sifted(s, 1..MaxOps)
Waiting(t)    == LET mine == Sifted(also, [id : 1..MaxOps, target : {T \in SUBSET Target : t \in T}])
                 IN  [i \in DOMAIN mine |-> mine[i].id]

\* What alsoPropagate was given is fed once to each of its targets, in order, or
\* still waits for the end of a call; the file gets nothing while it is off.
FedOnce == \A t \in Target :
  IF t = "AOF" /\ ~aof_on THEN fed[t] = <<>>
                          ELSE Operations(fed[t]) \o Waiting(t) = made[t]
=============================================================================
