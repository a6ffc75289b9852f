----------------------------- MODULE ClientsCron -----------------------------
(***************************************************************************)
(* clientsCron of src/src/cache.c: every tick of serverCron looks at some  *)
(* of the clients, which take turns by rotating their list, and closes     *)
(* those that are idle, wakes those that have waited for long enough and   *)
(* shrinks query buffers.                                                  *)
(***************************************************************************)
EXTENDS Integers, Sequences, SequencesExt

CONSTANTS Clients,
          cluster_enabled,
          PER_TICK,    \* hz * 10
          MIN_ITER     \* 50

ASSUME ClientsAssumption == /\ cluster_enabled \in BOOLEAN
                            /\ PER_TICK \in Nat \ {0} /\ MIN_ITER \in Nat \ {0}

VARIABLES clients,     \* server.clients, the head first
          kind,        \* of each client: "normal", "blocked", or "exempt" for a
                       \* master, a slave or a subscriber
          deadline,    \* bpop.timeout of a blocked one: "ahead" or "passed"; 0 is
                       \* a timeout that stays ahead
          idle,        \* those whose last interaction is over maxidletime ago
          wasteful,    \* those whose query buffer is too large
          iterations   \* left in this tick

kvars == <<clients, kind, deadline, idle, wasteful, iterations>>

Here == ToSet(clients)

ClientsInit ==
  /\ clients = <<>> /\ idle = {} /\ wasteful = {} /\ iterations = 0
  /\ kind = [c \in Clients |-> "normal"] /\ deadline = [c \in Clients |-> "none"]

-----------------------------------------------------------------------------
(* The cron.                                                               *)

Iterations(n) == LET i == n \div PER_TICK
                 IN  IF i >= MIN_ITER THEN i ELSE IF n < MIN_ITER THEN n ELSE MIN_ITER

Begin == /\ iterations = 0 /\ clients # <<>>
         /\ iterations' = Iterations(Len(clients))
         /\ UNCHANGED <<clients, kind, deadline, idle, wasteful>>

\* Mutant: the list is not rotated.
Rotated_Not(s) == s

\* listRotate
Rotated(s) == IF Len(s) > 1 THEN <<Last(s)>> \o Front(s) ELSE s

\* What was known of a client that is gone is forgotten.
Gone(c) == /\ idle' = idle \ {c} /\ wasteful' = wasteful \ {c}
           /\ kind' = [kind EXCEPT ![c] = "normal"]
           /\ deadline' = [deadline EXCEPT ![c] = "none"]

\* freeClient (networking.c, not in the repository).
Close(c) == /\ clients' = SelectSeq(Rotated(clients), LAMBDA d : d # c)
            /\ Gone(c)

\* clientsCronHandleTimeout, without closing, then clientsCronResizeQueryBuffer.
Keep(c) ==
  /\ clients' = Rotated(clients)
  /\ \/ kind[c] = "blocked" /\ (deadline[c] = "passed" \/ cluster_enabled)
        /\ kind' = [kind EXCEPT ![c] = "normal"]
        /\ deadline' = [deadline EXCEPT ![c] = "none"]
     \/ ~(kind[c] = "blocked" /\ deadline[c] = "passed") /\ UNCHANGED <<kind, deadline>>
  /\ wasteful' = wasteful \ {c}
  /\ UNCHANGED idle

Look ==
  /\ iterations > 0
  /\ LET c == Head(Rotated(clients))
     IN  IF kind[c] = "normal" /\ c \in idle THEN Close(c) ELSE Keep(c)
  /\ iterations' = IF clients' = <<>> THEN 0 ELSE iterations - 1

clientsCron == Begin \/ Look

-----------------------------------------------------------------------------
(* The clients, between two ticks. A new one is taken to join at the head, *)
(* with listAddNodeHead: one at the tail would not be counted (AdList).    *)

Connect(c) ==
  /\ c \notin Here
  /\ clients' = <<c>> \o clients
  /\ UNCHANGED <<kind, deadline, idle, wasteful>>

Disconnect(c) ==
  /\ clients' = SelectSeq(clients, LAMBDA d : d # c)
  /\ Gone(c)

\* It sends something, and may then be blocked, or an exempt one.
Interact(c) ==
  /\ idle' = idle \ {c} /\ wasteful' \in {wasteful, wasteful \cup {c}}
  /\ kind[c] # "blocked"
  /\ \/ kind' = [kind EXCEPT ![c] = "exempt"] /\ UNCHANGED deadline
     \/ /\ kind' = [kind EXCEPT ![c] = "blocked"]
        /\ deadline' = [deadline EXCEPT ![c] = "ahead"]
     \/ UNCHANGED <<kind, deadline>>
  /\ UNCHANGED clients

\* What a blocked client waits for arrives.
Served(c) ==
  /\ kind[c] = "blocked"
  /\ kind' = [kind EXCEPT ![c] = "normal"] /\ deadline' = [deadline EXCEPT ![c] = "none"]
  /\ UNCHANGED <<clients, idle, wasteful>>

Waits(c) ==
  /\ \/ idle' = idle \cup {c} /\ UNCHANGED deadline
     \/ /\ deadline[c] = "ahead" /\ deadline' = [deadline EXCEPT ![c] = "passed"]
        /\ UNCHANGED idle
  /\ UNCHANGED <<clients, kind, wasteful>>

Elsewhere ==
  /\ iterations = 0
  /\ \/ \E c \in Clients : Connect(c)
     \/ \E c \in Here : Disconnect(c) \/ Interact(c) \/ Served(c) \/ Waits(c)
  /\ UNCHANGED iterations

ClientsNext == clientsCron \/ Elsewhere

-----------------------------------------------------------------------------
(* Properties.                                                             *)

\* What the cron is for: an ordinary client that stays idle, or one that waits
\* beyond its timeout.
Due(c) == /\ c \in Here
          /\ \/ kind[c] = "normal" /\ c \in idle
             \/ kind[c] = "blocked" /\ deadline[c] = "passed"

\* Every client has its turn in the end, however many connect, leave or keep the
\* cron busy meanwhile: the idle one is closed, the one that waits is answered.
EveryClientsTurn == \A c \in Clients : Due(c) ~> ~Due(c)
=============================================================================
