------------------------------ MODULE MCServer ------------------------------
(***************************************************************************)
(* The server from initServer on. However it came up, its databases, its   *)
(* children and its clients do the same; they are followed from one of its *)
(* starts. A tick of serverCron looks at the clients first and at the rest *)
(* after that; neither depends on the other, and a run follows one.        *)
(***************************************************************************)
EXTENDS Startup, ServerCron, ClientsCron

Up == /\ boot = "up" /\ known /\ soft >= maxfiles /\ old_limit = 0
      /\ addrs = 0 /\ bound = 1 /\ sofd = "unset"
      /\ \A h \in Limits : h <= soft

NoClients == clients = <<>>

CronUnused == /\ pc = "idle" /\ asked = 0 /\ isMaster /\ fastDue /\ NoChild
              /\ current_db + resize_db + rehash_db = 0
              /\ \A d \in DBs : expires[d] = "empty" /\ age[d] + rehash[d] = 0

Init == BootInit /\ CronInit /\ ClientsInit

Next == \/ BootNext /\ UNCHANGED <<cvars, kvars>>
        \/ Up /\ NoClients /\ CronNext /\ UNCHANGED <<bvars, kvars>>
        \/ Up /\ CronUnused /\ ClientsNext /\ UNCHANGED <<bvars, cvars>>

allvars == <<bvars, cvars, kvars>>

ServerSpec ==
  /\ Init /\ [][Next]_allvars
  /\ WF_allvars(Up /\ NoClients /\ serverCron /\ UNCHANGED <<bvars, kvars>>)
  /\ WF_allvars(Up /\ NoClients /\ ChildEnds /\ UNCHANGED <<bvars, kvars>>)
  /\ WF_allvars(Up /\ CronUnused /\ clientsCron /\ UNCHANGED <<bvars, cvars>>)
=============================================================================
