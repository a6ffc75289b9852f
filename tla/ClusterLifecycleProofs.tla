----------------------- MODULE ClusterLifecycleProofs -----------------------
(***************************************************************************)
(* The safety of ClusterLifecycle for every bound: what create_fn leaves   *)
(* behind and reports, that a rejected spec leaves nothing, and that       *)
(* update_size applies the size it is given when no call fails.            *)
(***************************************************************************)
EXTENDS ClusterLifecycle, TLAPS

-----------------------------------------------------------------------------
(* The inductive invariant.                                                *)

\* TypeOK, and the timer counts no more pods than there can be.
Types == TypeOK /\ t.count \in Size

\* The types of h, of t and of what set_status leaves.
Timers == [pc : {"idle", "count", "recount", "ONLINE", "PENDING"}, want : Size, count : Size]
Handlers == [pc : Places, res : Resource \cup {"end"}, size : Size]
Statuses == [status : {Unset, "PENDING", "ONLINE"}, onlineInstances : {Unset} \cup Size]

\* What create_fn takes before r.
Earlier(r) ==
  IF r = "config" THEN {}
  ELSE IF r \in Volume \cup {"sts"} THEN {"config"}
  ELSE IF r = "nginx" THEN {"config", "sts"}
  ELSE IF r = "svc" THEN {"config", "sts", "nginx"}
  ELSE Core

EarlierVolumes(r) ==
  IF r \in {"config", "config_pvc"} THEN {}
  ELSE IF r = "data_pvc" THEN {"config_pvc"}
  ELSE Volume

InLoop == {"look", "make"}
PastLoop == {"announce", "pending", "created"}

\* No handler runs for a cluster that is gone, and no volume is dropped before
\* it is deleted.
Phases == /\ phase = "gone" => h.pc = "idle"
          /\ phase = "live" => dropping = {}
          /\ h.pc = "drop" => phase = "deleting" /\ h.res \in Volume

\* A rejected spec keeps the handlers where they create nothing.
Barren == ~valid => /\ have = {} /\ sending = {} /\ ~created
                    /\ h.pc \in {"idle", "validate", "invalid", "enter", "raised",
                                "drop", "deleted"}

\* create_fn leaves nothing out unless it reports it.
Loop == /\ h.pc = "validate" => h.res = first
        /\ h.pc \in InLoop => h.res \in Resource /\ Earlier(h.res) \subseteq have
        /\ h.pc \in PastLoop => Core \subseteq have \/ "CreateResourceFailed" \in events

\* Without a failed call it leaves nothing out, so that what comes after it
\* finds the StatefulSet and sizes it.
Clean ==
  faults = 0 =>
    /\ h.pc # "report" /\ h.pc # "size"
    /\ h.pc = "make" => h.res \notin have \cap Core
    /\ h.pc \in PastLoop => Core \subseteq have
    /\ created /\ phase # "gone" => Core \subseteq have
    /\ h.pc = "invalid" \/ tried => ~valid \/ created
    /\ h.pc \in {"enter", "find", "patch"} => ~valid \/ "sts" \in have
    /\ h.pc \in {"mark", "resized"} => replicas = h.size

\* Without a restart either, the volumes it made are there or on their way.
Sent ==
  faults = 0 /\ restarts = 0 /\ phase = "live" =>
    /\ h.pc \in InLoop => storage \cap EarlierVolumes(h.res) \subseteq have \cup sending
    /\ h.pc \in PastLoop \/ created => storage \subseteq have \cup sending

Rest == Phases /\ Barren /\ Loop /\ MissingIsReported /\ Clean /\ Sent

Inv == Types /\ Rest
-----------------------------------------------------------------------------
LEMMA AfterEarlier ==
  ASSUME NEW r \in Resource
  PROVE  /\ after[r] \in Resource \cup {"end"}
         /\ Earlier(after[r]) = Earlier(r) \cup ({r} \cap Core)
         /\ EarlierVolumes(after[r]) = EarlierVolumes(r) \cup ({r} \cap Volume)
<1>1. CASE r = "config"
  BY <1>1 DEF after, Resource, Core, Volume, Earlier, EarlierVolumes
<1>2. CASE r = "config_pvc"
  BY <1>2 DEF after, Resource, Core, Volume, Earlier, EarlierVolumes
<1>3. CASE r = "data_pvc"
  BY <1>3 DEF after, Resource, Core, Volume, Earlier, EarlierVolumes
<1>4. CASE r = "sts"
  BY <1>4 DEF after, Resource, Core, Volume, Earlier, EarlierVolumes
<1>5. CASE r = "nginx"
  BY <1>5 DEF after, Resource, Core, Volume, Earlier, EarlierVolumes
<1>6. CASE r = "svc"
  BY <1>6 DEF after, Resource, Core, Volume, Earlier, EarlierVolumes
<1> QED BY <1>1, <1>2, <1>3, <1>4, <1>5, <1>6 DEF Resource, Core, Volume

LEMMA MergeProbe ==
  ASSUME NEW state, NEW n
  PROVE  Store!Merge(status, Probe(state, n)) = Probe(state, n)
BY DEF Store!Merge, Probe, Field

LEMMA StatusSet ==
  ASSUME NEW state \in {"PENDING", "ONLINE"}, NEW n \in Size, SetStatus(state, n)
  PROVE  status' \in Statuses
<1>1. status' = Probe(state, n)
  BY MergeProbe DEF SetStatus
<1> QED BY <1>1 DEF Probe, Statuses

LEMMA PlaceSet ==
  /\ {"idle", "created", "resized", "deleted", "raised", "validate", "invalid", "look", "make",
      "report", "announce", "pending", "enter", "find", "patch", "size", "mark", "drop"}
       \subseteq Places
  /\ Idle \in Handlers /\ Idle.pc = "idle"
BY LifecycleAssumption
   DEF Places, Creating, Resizing, Deleting, Idle, Handlers, Resource, Core, first, Size

LEMMA GotoSet ==
  ASSUME h \in Handlers, NEW place \in Places, Goto(place)
  PROVE  h' \in Handlers /\ h'.pc = place /\ h'.res = h.res /\ h'.size = h.size
BY DEF Goto, Handlers

\* Where create_fn goes after a resource.
LEMMA StepSet ==
  ASSUME h \in Handlers, NEW r \in Resource, Step(r)
  PROVE  /\ h' \in Handlers /\ h'.res = after[r]
         /\ \/ h'.pc = "look" /\ h'.res \in Resource
            \/ h'.pc = "announce" /\ h'.res = "end"
<1>1. {"look", "announce"} \subseteq Places
  BY PlaceSet
<1> QED BY <1>1, AfterEarlier DEF Step, Handlers

LEMMA FaultSet ==
  ASSUME Types, Fault
  PROVE  /\ faults' \in Nat /\ faults' # 0 /\ faults' = faults + 1
         /\ restarts' = restarts /\ restarts' \in Nat
         /\ edits' = edits /\ edits' \in 0 .. MaxEdits
         /\ faults' + restarts' <= MaxTrouble
BY LifecycleAssumption DEF Types, TypeOK, Fault

LEMMA InitInv == Init => Inv
<1> SUFFICES ASSUME Init PROVE Inv
  OBVIOUS
<1>1. status \in Statuses
  BY DEF Init, Field, Statuses
<1>2. Idle \in Handlers
  BY PlaceSet
<1>3. Quiet \in Timers
  BY LifecycleAssumption DEF Quiet, Timers, Size
<1>4. storage \subseteq Volume
  BY LifecycleAssumption DEF Init, Volume
<1>5. /\ MaxSize \in Nat /\ MaxEdits \in Nat /\ MaxTrouble \in Nat
      /\ 0 \in Size
  BY LifecycleAssumption DEF Size
<1>6. Types
  <2>1. h \in [pc : Places, res : Resource \cup {"end"}, size : Size]
    BY <1>2 DEF Init, Handlers
  <2>2. t.count \in Size /\ t \in [pc : {"idle", "count", "recount", "ONLINE", "PENDING"},
                                  want : Size, count : Nat]
    BY <1>3 DEF Init, Timers, Size
  <2>3. /\ spec \in Size /\ valid \in BOOLEAN
        /\ created \in BOOLEAN /\ tried \in BOOLEAN /\ mutex \in BOOLEAN
    BY DEF Init
  <2>4. /\ phase \in {"live", "deleting", "gone"} /\ handled \in Size \cup {NotYet}
        /\ sending \subseteq Volume /\ dropping \subseteq Volume /\ have \subseteq Resource
        /\ events \subseteq {"InvalidArgument", "CreateResourceFailed", "ResourcesCreated"}
    BY DEF Init
  <2>5. /\ replicas \in 0 .. MaxSize /\ running \in 0 .. MaxSize
        /\ edits \in 0 .. MaxEdits /\ faults \in Nat /\ restarts \in Nat
        /\ faults + restarts <= MaxTrouble
    BY <1>5 DEF Init
  <2> QED BY <1>1, <1>4, <2>1, <2>2, <2>3, <2>4, <2>5 DEF Types, TypeOK, Statuses
<1>7. Rest
  BY DEF Init, Rest, Phases, Barren, Loop, MissingIsReported, Clean, Sent, Idle, InLoop,
     PastLoop
<1> QED BY <1>6, <1>7 DEF Inv

\* Rest speaks of none of the variables that the timer, the pods and an edit
\* change.
LEMMA Elsewhere ==
  ASSUME Types, Rest, faults' \in {faults, faults + 1},
         UNCHANGED <<storage, valid, phase, created, tried, h, pool, have, replicas, events,
                     restarts>>
  PROVE  Rest'
BY DEF Types, TypeOK, Rest, Phases, Barren, Loop, MissingIsReported, Clean, Sent, pool, InLoop,
       PastLoop

LEMMA CreateStep ==
  ASSUME Inv,
         StartCreate \/ Validate \/ RejectSpec \/ Report \/ Announce \/ SetPending
  PROVE  Inv'
<1> USE DEF Inv, user, progress, pool, cluster, used
<1>1. h \in Handlers /\ status \in Statuses
  BY DEF Types, TypeOK, Handlers, Statuses
<1>2. CASE StartCreate
  <2>1. h' \in Handlers /\ h'.pc = "validate" /\ h'.res = first
    BY <1>2, PlaceSet DEF StartCreate, Idle, Handlers
  <2>2. Types'
    BY <1>2, <2>1 DEF StartCreate, Types, TypeOK, Handlers
  <2>3. Rest'
    BY <1>2, <2>1 DEF StartCreate, Types, TypeOK, Rest, Phases, Barren, Loop, MissingIsReported,
       Clean, Sent, InLoop, PastLoop
  <2> QED BY <2>2, <2>3
<1>3. CASE Validate
  <2>1. /\ h' \in Handlers /\ h'.res = h.res
        /\ h'.pc = IF valid THEN "look" ELSE "invalid"
    BY <1>1, <1>3, PlaceSet, GotoSet DEF Validate
  <2>2. status' \in Statuses
    BY <1>1, <1>3, StatusSet, LifecycleAssumption DEF Validate, Size
  <2>3. Types'
    BY <1>3, <2>1, <2>2 DEF Validate, Types, TypeOK, Handlers, Statuses
  <2>4. Rest'
    BY <1>3, <2>1 DEF Validate, Types, TypeOK, Rest, Phases, Barren, Loop, MissingIsReported,
       Clean, Sent, InLoop, PastLoop, Earlier, EarlierVolumes, first, Resource, Core
  <2> QED BY <2>3, <2>4
<1>4. CASE RejectSpec
  <2>1. h' \in Handlers /\ h'.pc = "raised"
    BY <1>1, <1>4, PlaceSet, GotoSet DEF RejectSpec
  <2>2. Types'
    BY <1>4, <2>1 DEF RejectSpec, Types, TypeOK, Handlers
  <2>3. Rest'
    BY <1>4, <2>1 DEF RejectSpec, Types, TypeOK, Rest, Phases, Barren, Loop, MissingIsReported,
       Clean, Sent, InLoop, PastLoop
  <2> QED BY <2>2, <2>3
<1>5. CASE Report
  <2>1. h' \in Handlers /\ h'.pc = "announce"
    BY <1>1, <1>5, PlaceSet, GotoSet DEF Report
  <2>2. Types'
    BY <1>5, <2>1 DEF Report, Reported, Types, TypeOK, Handlers
  <2>3. Rest'
    BY <1>5, <2>1 DEF Report, Reported, Types, TypeOK, Rest, Phases, Barren, Loop,
       MissingIsReported, Clean, Sent, InLoop, PastLoop
  <2> QED BY <2>2, <2>3
<1>6. CASE Announce
  <2>1. h' \in Handlers /\ h'.pc = "pending"
    BY <1>1, <1>6, PlaceSet, GotoSet DEF Announce
  <2>2. Types'
    BY <1>6, <2>1 DEF Announce, Types, TypeOK, Handlers
  <2>3. Rest'
    BY <1>6, <2>1 DEF Announce, Types, TypeOK, Rest, Phases, Barren, Loop, MissingIsReported,
       Clean, Sent, InLoop, PastLoop
  <2> QED BY <2>2, <2>3
<1>7. CASE SetPending
  <2>1. h' \in Handlers /\ h'.pc = "created"
    BY <1>1, <1>7, PlaceSet, GotoSet DEF SetPending
  <2>2. status' \in Statuses
    BY <1>7, StatusSet, LifecycleAssumption DEF SetPending, Size
  <2>3. Types'
    BY <1>7, <2>1, <2>2 DEF SetPending, Types, TypeOK, Handlers, Statuses
  <2>4. Rest'
    BY <1>7, <2>1 DEF SetPending, Types, TypeOK, Rest, Phases, Barren, Loop, MissingIsReported,
       Clean, Sent, InLoop, PastLoop
  <2> QED BY <2>3, <2>4
<1> QED BY <1>2, <1>3, <1>4, <1>5, <1>6, <1>7

\* One resource done with: it exists, it is on its way, it is not asked for.
LEMMA StepKeeps ==
  ASSUME Inv, h.pc \in InLoop, Step(h.res),
         UNCHANGED <<user, phase, progress, dropping, events, restarts>>,
         faults' \in {faults, faults + 1},
         have \subseteq have', sending \subseteq sending', Types',
         {h.res} \cap Core \subseteq have',
         storage \cap {h.res} \cap Volume \subseteq have' \cup sending'
  PROVE  Inv'
<1> USE DEF Inv, user, progress
<1>1. h \in Handlers /\ h.res \in Resource /\ (faults' = 0 => faults = 0)
  BY DEF Types, TypeOK, Handlers, Rest, Loop
<1>2. /\ h'.res = after[h.res]
      /\ \/ h'.pc = "look" /\ h'.res \in Resource
         \/ h'.pc = "announce" /\ h'.res = "end"
  BY <1>1, StepSet
<1>3. /\ Earlier(h.res) \subseteq have
      /\ Earlier(h'.res) = Earlier(h.res) \cup ({h.res} \cap Core)
      /\ EarlierVolumes(h'.res) = EarlierVolumes(h.res) \cup ({h.res} \cap Volume)
  BY <1>1, <1>2, AfterEarlier DEF Rest, Loop
<1>4. Earlier("end") = Core /\ EarlierVolumes("end") = Volume
  BY DEF Earlier, EarlierVolumes, Core, Volume
<1>5. Phases' /\ Barren'
  BY <1>2 DEF Rest, Phases, Barren, InLoop
<1>6. Loop' /\ MissingIsReported'
  BY <1>2, <1>3, <1>4 DEF Rest, Loop, MissingIsReported, InLoop, PastLoop
<1>7. Clean'
  BY <1>1, <1>2, <1>3, <1>4 DEF Rest, Clean, InLoop, PastLoop
<1>8. Sent'
  <2>1. SUFFICES ASSUME (faults = 0 /\ restarts = 0 /\ phase = "live")'
                 PROVE  /\ storage \cap EarlierVolumes(h'.res) \subseteq have' \cup sending'
                        /\ h'.pc = "announce" \/ created => storage \subseteq have' \cup sending'
    BY <1>2 DEF Sent, InLoop, PastLoop
  <2>2. /\ storage \cap EarlierVolumes(h.res) \subseteq have \cup sending
        /\ created => storage \subseteq have \cup sending
    BY <1>1, <2>1 DEF Rest, Sent
  <2>3. storage \cap EarlierVolumes(h'.res) \subseteq have' \cup sending'
    BY <1>3, <2>2
  <2>4. storage \subseteq Volume
    BY DEF Types, TypeOK
  <2> QED BY <1>2, <1>4, <2>2, <2>3, <2>4
<1> QED BY <1>5, <1>6, <1>7, <1>8 DEF Rest

LEMMA LoopStep ==
  ASSUME Inv,
         Look \/ LookFails \/ MakeVolume \/ MakeCore \/ MakeFails
  PROVE  Inv'
<1> USE DEF Inv, user, progress, pool, cluster, used
<1>1. h \in Handlers /\ h.pc \in InLoop /\ h.res \in Resource
  BY DEF Types, TypeOK, Handlers, Rest, Loop, InLoop, Look, LookFails, MakeVolume, MakeCore,
     MakeFails
<1>2. ASSUME Step(h.res)
      PROVE  h' \in Handlers
  BY <1>1, <1>2, StepSet
<1>3. ASSUME NEW place \in {"make", "report"}, Goto(place)
      PROVE  h' \in Handlers /\ h'.pc = place /\ h'.res = h.res
  BY <1>1, <1>3, PlaceSet, GotoSet
<1>4. CASE Look
  <2>1. CASE PassedOver(h.res)
    <3>1. Step(h.res)
      BY <1>4, <2>1 DEF Look
    <3>2. Types'
      BY <1>2, <1>4, <3>1 DEF Look, Types, TypeOK, Handlers
    <3> QED BY <1>1, <1>4, <2>1, <3>1, <3>2, StepKeeps DEF Look, PassedOver, Types, TypeOK,
               Core, Volume
  <2>2. CASE ~ PassedOver(h.res)
    <3>1. h' \in Handlers /\ h'.pc = "make" /\ h'.res = h.res
      BY <1>3, <1>4, <2>2 DEF Look
    <3>2. Types'
      BY <1>4, <3>1 DEF Look, Types, TypeOK, Handlers
    <3>3. Rest'
      BY <1>1, <1>4, <2>2, <3>1 DEF Look, PassedOver, Rest, Phases, Barren, Loop,
         MissingIsReported, Clean, Sent, InLoop, PastLoop
    <3> QED BY <3>2, <3>3
  <2> QED BY <2>1, <2>2
<1>5. CASE LookFails
  <2>1. Fault
    BY <1>5 DEF LookFails
  <2>2. CASE h.res \in Volume \ storage /\ Step(h.res)
    <3>1. Types'
      BY <1>2, <1>5, <2>1, <2>2, FaultSet DEF LookFails, Types, TypeOK, Handlers
    <3> QED BY <1>1, <1>5, <2>1, <2>2, <3>1, FaultSet, StepKeeps
           DEF LookFails, Core, Volume
  <2>3. CASE \E place \in {"make", "report"} : Goto(place)
    <3>1. h' \in Handlers /\ h'.pc \in {"make", "report"} /\ h'.res = h.res
      BY <1>3, <2>3
    <3>2. Types'
      BY <1>5, <2>1, <3>1, FaultSet DEF LookFails, Types, TypeOK, Handlers
    <3>3. Rest'
      BY <1>1, <1>5, <2>1, <3>1, FaultSet DEF LookFails, Rest, Phases, Barren, Loop,
         MissingIsReported, Clean, Sent, InLoop, PastLoop
    <3> QED BY <3>2, <3>3
  <2> QED BY <1>5, <2>2, <2>3 DEF LookFails
<1>6. CASE MakeVolume
  <2>1. Types'
    BY <1>2, <1>6 DEF MakeVolume, Types, TypeOK, Handlers
  <2> QED BY <1>1, <1>6, <2>1, StepKeeps DEF MakeVolume, Core, Volume
<1>7. CASE MakeCore
  <2>1. CASE h.res \in have
    <3>1. h' \in Handlers /\ h'.pc = "report" /\ h'.res = h.res
      BY <1>3, <1>7, <2>1 DEF MakeCore
    <3>2. Types'
      BY <1>7, <2>1, <3>1 DEF MakeCore, Types, TypeOK, Handlers
    <3>3. Rest'
      BY <1>1, <1>7, <2>1, <3>1 DEF MakeCore, Rest, Phases, Barren, Loop, MissingIsReported,
         Clean, Sent, InLoop, PastLoop
    <3> QED BY <3>2, <3>3
  <2>2. CASE h.res \notin have
    <3>1. Step(h.res) /\ Make(h.res)
      BY <1>7, <2>2 DEF MakeCore
    <3>2. Types'
      BY <1>1, <1>2, <1>7, <3>1, LifecycleAssumption
         DEF MakeCore, Make, DefaultInstances, Types, TypeOK, Handlers
    <3> QED BY <1>1, <1>7, <3>1, <3>2, StepKeeps DEF MakeCore, Make, Core, Volume
  <2> QED BY <2>1, <2>2
<1>8. CASE MakeFails
  <2>1. h' \in Handlers /\ h'.pc = "report" /\ h'.res = h.res
    BY <1>3, <1>8 DEF MakeFails
  <2>2. /\ have \subseteq have' /\ have' \subseteq have \cup {h.res}
        /\ replicas' \in {replicas, 1} /\ running' = running
    BY <1>8 DEF MakeFails, Make, DefaultInstances
  <2>3. Types'
    BY <1>1, <1>8, <2>1, <2>2, FaultSet, LifecycleAssumption
       DEF MakeFails, Types, TypeOK, Handlers
  <2>4. Rest'
    BY <1>1, <1>8, <2>1, <2>2, FaultSet DEF MakeFails, Rest, Phases, Barren, Loop,
       MissingIsReported, Clean, Sent, InLoop, PastLoop
  <2> QED BY <2>3, <2>4
<1> QED BY <1>4, <1>5, <1>6, <1>7, <1>8

LEMMA CreateRaisesStep ==
  ASSUME Inv, CreateRaises
  PROVE  Inv'
<1> USE DEF Inv, user, progress, pool, cluster, used
<1>1. h \in Handlers /\ status \in Statuses
  BY DEF Types, TypeOK, Handlers, Statuses
<1>2. h' \in Handlers /\ h'.pc = "raised"
  BY <1>1, PlaceSet, GotoSet DEF CreateRaises
<1>3. status' \in Statuses
  BY <1>1, StatusSet, LifecycleAssumption DEF CreateRaises, Size
<1>4. Types'
  BY <1>2, <1>3, FaultSet DEF CreateRaises, Types, TypeOK, Handlers, Statuses
<1>5. Rest'
  BY <1>2, FaultSet DEF CreateRaises, Rest, Phases, Barren, Loop,
     MissingIsReported, Clean, Sent, InLoop, PastLoop
<1> QED BY <1>4, <1>5

LEMMA ResizeStep ==
  ASSUME Inv,
         \/ StartResize \/ Enter \/ Find \/ FindFails \/ PatchSize \/ MakeSized
         \/ MakeSizedExists \/ MarkPending \/ ResizeRaises
  PROVE  Inv'
<1> USE DEF Inv, user, progress, pool, cluster, used
<1>1. h \in Handlers /\ status \in Statuses
  BY DEF Types, TypeOK, Handlers, Statuses
<1>2. CASE StartResize
  <2>1. /\ h' \in Handlers /\ h'.pc = "enter"
        /\ h'.res = first /\ h'.size = spec
    BY <1>1, <1>2, PlaceSet DEF StartResize, Idle, Handlers, Types, TypeOK
  <2>2. Types'
    BY <1>1, <1>2, <2>1
       DEF StartResize, Types, TypeOK, Handlers, Statuses
  <2>3. Rest'
    BY <1>1, <1>2, <2>1
       DEF StartResize, AfterCreate, Core, Types, TypeOK, Rest, Phases, Barren, Loop,
       MissingIsReported, Clean, Sent, InLoop, PastLoop
  <2> QED BY <2>2, <2>3
<1>3. CASE Enter
  <2>1. /\ h' \in Handlers /\ h'.pc = (IF ~ mutex /\ valid THEN "find" ELSE "raised")
        /\ h'.res = h.res /\ h'.size = h.size /\ mutex' \in BOOLEAN
    BY <1>1, <1>3, PlaceSet, GotoSet DEF Enter, Accepted, Types, TypeOK
  <2>2. Types'
    BY <1>1, <1>3, <2>1
       DEF Enter, Types, TypeOK, Handlers, Statuses
  <2>3. Rest'
    BY <1>1, <1>3, <2>1
       DEF Enter, Types, TypeOK, Rest, Phases, Barren, Loop,
       MissingIsReported, Clean, Sent, InLoop, PastLoop
  <2> QED BY <2>2, <2>3
<1>4. CASE Find
  <2>1. /\ h' \in Handlers /\ h'.pc = (IF "sts" \in have THEN "patch" ELSE "size")
        /\ h'.res = h.res /\ h'.size = h.size
    BY <1>1, <1>4, PlaceSet, GotoSet DEF Find
  <2>2. Types'
    BY <1>1, <1>4, <2>1
       DEF Find, Types, TypeOK, Handlers, Statuses
  <2>3. Rest'
    BY <1>1, <1>4, <2>1
       DEF Find, Types, TypeOK, Rest, Phases, Barren, Loop,
       MissingIsReported, Clean, Sent, InLoop, PastLoop
  <2> QED BY <2>2, <2>3
<1>5. CASE FindFails
  <2>1. h' \in Handlers /\ h'.pc = "size" /\ h'.res = h.res /\ h'.size = h.size
    BY <1>1, <1>5, PlaceSet, GotoSet DEF FindFails
  <2>2. Types'
    BY <1>1, <1>5, <2>1, FaultSet
       DEF FindFails, Types, TypeOK, Handlers, Statuses
  <2>3. Rest'
    BY <1>1, <1>5, <2>1, FaultSet
       DEF FindFails, Types, TypeOK, Rest, Phases, Barren, Loop,
       MissingIsReported, Clean, Sent, InLoop, PastLoop
  <2> QED BY <2>2, <2>3
<1>6. CASE PatchSize
  <2>1. h' \in Handlers /\ h'.pc = "mark" /\ h'.res = h.res /\ h'.size = h.size
    BY <1>1, <1>6, PlaceSet, GotoSet DEF PatchSize
  <2>2. replicas' = h.size /\ h.size \in Size
    BY <1>1, <1>6 DEF PatchSize, NewSize, Handlers
  <2>3. Types'
    BY <1>1, <1>6, <2>1, <2>2
       DEF PatchSize, Size, Types, TypeOK, Handlers, Statuses
  <2>4. Rest'
    BY <1>1, <1>6, <2>1, <2>2
       DEF PatchSize, Types, TypeOK, Rest, Phases, Barren, Loop,
       MissingIsReported, Clean, Sent, InLoop, PastLoop
  <2> QED BY <2>3, <2>4
<1>7. CASE MakeSized
  <2>1. h' \in Handlers /\ h'.pc = "mark" /\ h'.res = h.res /\ h'.size = h.size
    BY <1>1, <1>7, PlaceSet, GotoSet DEF MakeSized
  <2>2. have' = have \cup {"sts"} /\ replicas' = 1 /\ running' = running
    BY <1>7 DEF MakeSized, Make, DefaultInstances
  <2>3. Types'
    BY <1>1, <1>7, <2>1, <2>2, LifecycleAssumption
       DEF MakeSized, Resource, Core, Types, TypeOK, Handlers, Statuses
  <2>4. Rest'
    BY <1>1, <1>7, <2>1, <2>2
       DEF MakeSized, Types, TypeOK, Rest, Phases, Barren, Loop,
       MissingIsReported, Clean, Sent, InLoop, PastLoop
  <2> QED BY <2>3, <2>4
<1>8. CASE MakeSizedExists
  <2>1. h' \in Handlers /\ h'.pc = "raised" /\ h'.res = h.res /\ h'.size = h.size
    BY <1>1, <1>8, PlaceSet, GotoSet DEF MakeSizedExists
  <2>2. Types'
    BY <1>1, <1>8, <2>1
       DEF MakeSizedExists, Types, TypeOK, Handlers, Statuses
  <2>3. Rest'
    BY <1>1, <1>8, <2>1
       DEF MakeSizedExists, Types, TypeOK, Rest, Phases, Barren, Loop,
       MissingIsReported, Clean, Sent, InLoop, PastLoop
  <2> QED BY <2>2, <2>3
<1>9. CASE MarkPending
  <2>1. h' \in Handlers /\ h'.pc = "resized" /\ h'.res = h.res /\ h'.size = h.size
    BY <1>1, <1>9, PlaceSet, GotoSet DEF MarkPending
  <2>2. status' \in Statuses
    BY <1>1, <1>9, StatusSet DEF MarkPending, Handlers
  <2>3. Types'
    BY <1>1, <1>9, <2>1, <2>2
       DEF MarkPending, Types, TypeOK, Handlers, Statuses
  <2>4. Rest'
    BY <1>1, <1>9, <2>1, <2>2
       DEF MarkPending, Types, TypeOK, Rest, Phases, Barren, Loop,
       MissingIsReported, Clean, Sent, InLoop, PastLoop
  <2> QED BY <2>3, <2>4
<1>10. CASE ResizeRaises
  <2>1. h' \in Handlers /\ h'.pc = "raised" /\ h'.res = h.res /\ h'.size = h.size
    BY <1>1, <1>10, PlaceSet, GotoSet DEF ResizeRaises
  <2>2. /\ status' \in Statuses /\ have' \in {have, have \cup {"sts"}}
        /\ replicas' \in {replicas, h.size, 1} /\ running' = running
    BY <1>1, <1>10, StatusSet DEF ResizeRaises, Make, DefaultInstances, NewSize, Handlers
  <2>3. /\ have' \subseteq Resource
        /\ replicas' \in 0 .. MaxSize /\ running' \in 0 .. MaxSize
    BY <1>1, <2>2, LifecycleAssumption DEF Types, TypeOK, Handlers, Size, Resource, Core
  <2>4. Types'
    BY <1>10, <2>1, <2>2, <2>3, FaultSet DEF ResizeRaises, Types, TypeOK, Handlers, Statuses
  <2>5. Rest'
    BY <1>1, <1>10, <2>1, <2>2, FaultSet
       DEF ResizeRaises, Core, Types, TypeOK, Rest, Phases, Barren, Loop,
       MissingIsReported, Clean, Sent, InLoop, PastLoop
  <2> QED BY <2>4, <2>5
<1> QED BY <1>2, <1>3, <1>4, <1>5, <1>6, <1>7, <1>8, <1>9, <1>10

LEMMA DeleteStep ==
  ASSUME Inv,
         \/ StartDelete \/ Drop \/ DropFails \/ Record \/ Finalize \/ Retry \/ Delete
  PROVE  Inv'
<1> USE DEF Inv, user, progress, pool, cluster, used
<1>1. h \in Handlers /\ status \in Statuses
  BY DEF Types, TypeOK, Handlers, Statuses
<1>2. CASE StartDelete
  <2>1. h' \in Handlers /\ h'.pc = "drop" /\ h'.res \in Volume
    BY <1>1, <1>2, PlaceSet DEF StartDelete, Idle, Handlers, Resource, Volume
  <2>2. Types'
    BY <1>1, <1>2, <2>1
       DEF StartDelete, Types, TypeOK, Handlers, Statuses
  <2>3. Rest'
    BY <1>1, <1>2, <2>1
       DEF StartDelete, Types, TypeOK, Rest, Phases, Barren, Loop,
       MissingIsReported, Clean, Sent, InLoop, PastLoop
  <2> QED BY <2>2, <2>3
<1>3. CASE Drop
  <2>1. /\ h' \in Handlers /\ h'.pc \in {"drop", "deleted"}
        /\ h'.pc = "drop" => h'.res \in Volume
    BY <1>1, <1>3, PlaceSet, GotoSet DEF Drop, NextVolume, Handlers, Resource, Volume
  <2>2. {h.res} \cap have \subseteq Volume /\ phase # "live"
    BY <1>3 DEF Drop, Rest, Phases
  <2>3. Types'
    BY <1>1, <1>3, <2>1, <2>2
       DEF Drop, Types, TypeOK, Handlers, Statuses
  <2>4. Rest'
    BY <1>1, <1>3, <2>1, <2>2
       DEF Drop, Types, TypeOK, Rest, Phases, Barren, Loop,
       MissingIsReported, Clean, Sent, InLoop, PastLoop
  <2> QED BY <2>3, <2>4
<1>4. CASE DropFails
  <2>1. /\ h' \in Handlers /\ h'.pc \in {"drop", "deleted", "raised"}
        /\ h'.pc = "drop" => h'.res \in Volume
    BY <1>1, <1>4, PlaceSet, GotoSet DEF DropFails, NextVolume, Handlers, Resource, Volume
  <2>2. Types'
    BY <1>1, <1>4, <2>1, FaultSet
       DEF DropFails, Types, TypeOK, Handlers, Statuses
  <2>3. Rest'
    BY <1>1, <1>4, <2>1, FaultSet
       DEF DropFails, Types, TypeOK, Rest, Phases, Barren, Loop,
       MissingIsReported, Clean, Sent, InLoop, PastLoop
  <2> QED BY <2>2, <2>3
<1>5. CASE Record
  <2>1. h' \in Handlers /\ h'.pc = "idle"
    BY <1>1, <1>5, PlaceSet DEF Record
  <2>2. created' \in BOOLEAN /\ handled' \in Size \cup {NotYet}
    BY <1>1, <1>5 DEF Record, Types, TypeOK, Handlers
  <2>3. Types'
    BY <1>1, <1>5, <2>1, <2>2
       DEF Record, Types, TypeOK, Handlers, Statuses
  <2>4. Rest'
    BY <1>1, <1>5, <2>1, <2>2
       DEF Record, Types, TypeOK, Rest, Phases, Barren, Loop,
       MissingIsReported, Clean, Sent, InLoop, PastLoop
  <2> QED BY <2>3, <2>4
<1>6. CASE Finalize
  <2>1. h' \in Handlers /\ h'.pc = "idle"
    BY <1>1, <1>6, PlaceSet DEF Finalize
  <2>2. status' \in Statuses
    BY <1>6 DEF Finalize, Statuses, Field
  <2>3. Types'
    BY <1>1, <1>6, <2>1, <2>2
       DEF Finalize, Types, TypeOK, Handlers, Statuses
  <2>4. Rest'
    BY <1>1, <1>6, <2>1, <2>2
       DEF Finalize, Types, TypeOK, Rest, Phases, Barren, Loop,
       MissingIsReported, Clean, Sent, InLoop, PastLoop
  <2> QED BY <2>3, <2>4
<1>7. CASE Retry
  <2>1. h' \in Handlers /\ h'.pc = "idle"
    BY <1>1, <1>7, PlaceSet DEF Retry
  <2>2. Types'
    BY <1>1, <1>7, <2>1
       DEF Retry, Types, TypeOK, Handlers, Statuses
  <2>3. Rest'
    BY <1>1, <1>7, <2>1
       DEF Retry, Types, TypeOK, Rest, Phases, Barren, Loop,
       MissingIsReported, Clean, Sent, InLoop, PastLoop
  <2> QED BY <2>2, <2>3
<1>8. CASE Delete
  <2>1. h' \in Handlers
    BY <1>1, <1>8 DEF Delete
  <2>2. Types'
    BY <1>1, <1>8, <2>1
       DEF Delete, Types, TypeOK, Handlers, Statuses
  <2>3. Rest'
    BY <1>1, <1>8, <2>1
       DEF Delete, Types, TypeOK, Rest, Phases, Barren, Loop,
       MissingIsReported, Clean, Sent, InLoop, PastLoop
  <2> QED BY <2>2, <2>3
<1> QED BY <1>2, <1>3, <1>4, <1>5, <1>6, <1>7, <1>8

LEMMA TimerStep ==
  ASSUME Inv,
         \/ TimerStarts \/ TimerCounts \/ TimerWrites
         \/ TimerCountFails \/ TimerWriteFails
  PROVE  Inv'
<1> USE DEF Inv, user, progress, pool, cluster, used
<1>1. /\ t \in Timers /\ status \in Statuses /\ running \in Size
      /\ Quiet \in Timers /\ 0 \in Size
  BY LifecycleAssumption DEF Types, TypeOK, Timers, Statuses, Quiet, Size
<1>2. ASSUME NEW n \in Size
      PROVE  Counted(n) \in Timers
  BY <1>1 DEF Counted, Timers
<1>3. t' \in Timers
  <2>1. CASE TimerStarts
    BY <1>1, <2>1 DEF TimerStarts, Types, TypeOK, Quiet, Timers
  <2>2. CASE TimerCounts
    BY <1>1, <1>2, <2>2 DEF TimerCounts
  <2>3. CASE TimerCountFails
    BY <1>1, <1>2, <2>3 DEF TimerCountFails
  <2>4. CASE TimerWrites \/ TimerWriteFails
    BY <1>1, <2>4 DEF TimerWrites, TimerWriteFails
  <2> QED BY <2>1, <2>2, <2>3, <2>4
<1>4. status' \in Statuses
  <2>1. CASE TimerWrites
    <3>1. t.pc \in {"ONLINE", "PENDING"} /\ t.count \in Size /\ SetStatus(t.pc, t.count)
      BY <1>1, <2>1 DEF TimerWrites, OnlineInstances, Timers
    <3> QED BY <3>1, StatusSet
  <2>2. CASE ~ TimerWrites
    BY <1>1, <2>2 DEF TimerStarts, TimerCounts, TimerCountFails, TimerWriteFails
  <2> QED BY <2>1, <2>2
<1>5. /\ UNCHANGED <<user, phase, progress, h, mutex, pool, cluster, events>>
      /\ UNCHANGED used \/ Fault
  BY DEF TimerStarts, TimerCounts, TimerWrites, TimerCountFails, TimerWriteFails
<1>6. Types'
  BY <1>3, <1>4, <1>5, FaultSet DEF Types, TypeOK, Timers, Statuses, Size
<1>7. Rest'
  BY <1>5, FaultSet, Elsewhere
<1> QED BY <1>6, <1>7

LEMMA WorldStep ==
  ASSUME Inv,
         PodStarts \/ PodStops \/ PodFails \/ \E n \in Size : Edit(n)
  PROVE  Inv'
<1> USE DEF Inv, user, progress, pool, cluster, used
<1>1. MaxSize \in Nat /\ MaxEdits \in Nat
  BY LifecycleAssumption
<1>2. CASE PodStarts
  BY <1>1, <1>2, Elsewhere DEF PodStarts, Types, TypeOK
<1>3. CASE PodStops
  BY <1>1, <1>3, Elsewhere DEF PodStops, Types, TypeOK
<1>4. CASE PodFails
  <2>1. Types'
    BY <1>1, <1>4, FaultSet DEF PodFails, Types, TypeOK
  <2>2. Rest'
    BY <1>4, FaultSet, Elsewhere DEF PodFails
  <2> QED BY <2>1, <2>2
<1>5. CASE \E n \in Size : Edit(n)
  <2>1. Types'
    BY <1>1, <1>5 DEF Edit, Types, TypeOK
  <2>2. Rest'
    BY <1>5, Elsewhere DEF Edit
  <2> QED BY <2>1, <2>2
<1> QED BY <1>2, <1>3, <1>4, <1>5

LEMMA VolumeStep ==
  ASSUME Inv, NEW r \in Volume,
         VolumeMade(r) \/ VolumeDropped(r) \/ PoolFails(r)
  PROVE  Inv'
<1> USE DEF Inv, user, progress, pool, cluster, used
<1>1. r \in Resource /\ r \notin Core
  BY DEF Resource, Core, Volume
<1>2. \A q \in Resource \cup {"end"} : Earlier(q) \subseteq Core
  BY DEF Earlier, Core
<1>3. h \in Handlers
  BY DEF Types, TypeOK, Handlers
<1>4. CASE VolumeMade(r)
  <2>1. Types'
    BY <1>1, <1>4 DEF VolumeMade, Types, TypeOK
  <2>2. Rest'
    BY <1>1, <1>4 DEF VolumeMade, Rest, Phases, Barren, Loop,
       MissingIsReported, Clean, Sent, InLoop, PastLoop
  <2> QED BY <2>1, <2>2
<1>5. CASE VolumeDropped(r)
  <2>1. Types'
    BY <1>5 DEF VolumeDropped, Types, TypeOK
  <2>2. /\ phase # "live" /\ have' \cap Core = have \cap Core
        /\ "sts" \in have => "sts" \in have'
    BY <1>1, <1>5 DEF VolumeDropped, Rest, Phases, Core
  <2>3. Rest'
    BY <1>2, <1>3, <1>5, <2>2 DEF VolumeDropped, Handlers, Rest, Phases, Barren, Loop,
       MissingIsReported, Clean, Sent, InLoop, PastLoop
  <2> QED BY <2>1, <2>3
<1>6. CASE PoolFails(r)
  <2>1. Types'
    BY <1>6, FaultSet DEF PoolFails, Types, TypeOK
  <2>2. Rest'
    BY <1>6, FaultSet DEF PoolFails, Rest, Phases, Barren, Loop,
       MissingIsReported, Clean, Sent, InLoop, PastLoop
  <2> QED BY <2>1, <2>2
<1> QED BY <1>4, <1>5, <1>6

LEMMA CollectStep ==
  ASSUME Inv, Collect
  PROVE  Inv'
<1> USE DEF Inv, user, progress, pool, cluster, used
<1>1. Types'
  BY LifecycleAssumption DEF Collect, Types, TypeOK
<1>2. Rest'
  BY DEF Collect, Adopted, Rest, Phases, Barren, Loop,
       MissingIsReported, Clean, Sent, InLoop, PastLoop
<1> QED BY <1>1, <1>2

LEMMA RestartStep ==
  ASSUME Inv, Restart
  PROVE  Inv'
<1> USE DEF Inv, user, progress, pool, cluster, used
<1>1. Quiet \in Timers
  BY LifecycleAssumption DEF Timers, Quiet, Size
<1>2. have \subseteq have' /\ have' \subseteq have \cup sending
  BY DEF Restart
<1>3. /\ restarts' = restarts + 1 /\ restarts' \in Nat /\ faults' = faults
      /\ faults' + restarts' <= MaxTrouble
  BY LifecycleAssumption DEF Restart, Types, TypeOK
<1>4. Types'
  <2>1. /\ h' \in Handlers
        /\ t' \in Timers
        /\ have' \subseteq Resource
    BY <1>1, <1>2, PlaceSet DEF Restart, Types, TypeOK, Resource
  <2>2. t'.count \in Size /\ t' \in [pc : {"idle", "count", "recount", "ONLINE", "PENDING"},
                                  want : Size, count : Nat]
    BY <2>1 DEF Timers, Size
  <2> QED BY <1>3, <2>1, <2>2 DEF Restart, Types, TypeOK, Handlers
<1>5. Rest'
  BY <1>2, <1>3, PlaceSet DEF Restart, Types, TypeOK, Rest, Phases, Barren, Loop,
       MissingIsReported, Clean, Sent, InLoop, PastLoop
<1> QED BY <1>4, <1>5

LEMMA NextInv == Inv /\ [Next]_vars => Inv'
<1> SUFFICES ASSUME Inv, [Next]_vars PROVE Inv'
  OBVIOUS
<1>1. CASE Next
  <2>1. CASE Start
    BY <2>1, CreateStep, ResizeStep, DeleteStep DEF Start
  <2>2. CASE Handler
    BY <2>2, CreateStep, LoopStep, ResizeStep, DeleteStep DEF Handler
  <2>3. CASE Timer
    BY <2>3, TimerStep DEF Timer
  <2>4. CASE Kubernetes
    BY <2>4, WorldStep, VolumeStep, CollectStep DEF Kubernetes
  <2>5. CASE \/ LookFails \/ MakeFails \/ CreateRaises \/ FindFails \/ ResizeRaises
             \/ DropFails \/ TimerCountFails \/ TimerWriteFails \/ PodFails
             \/ \E r \in Volume : PoolFails(r)
    BY <2>5, LoopStep, CreateRaisesStep, ResizeStep, DeleteStep, TimerStep, WorldStep, VolumeStep
  <2>6. CASE (\E n \in Size : Edit(n)) \/ Delete \/ Restart
    BY <2>6, WorldStep, DeleteStep, RestartStep
  <2> QED BY <1>1, <2>1, <2>2, <2>3, <2>4, <2>5, <2>6 DEF Next
<1>2. CASE UNCHANGED vars
  BY <1>2 DEF vars, user, progress, pool, cluster, used, Inv, Types, TypeOK, Rest, Phases,
       Barren, Loop, MissingIsReported, Clean, Sent, InLoop, PastLoop
<1> QED BY <1>1, <1>2

-----------------------------------------------------------------------------
\* The inductive invariant holds of every behaviour.
THEOREM Invariance == Spec => []Inv
BY InitInv, NextInv, PTL DEF Spec

\* The variables keep their types, and the bounds theirs.
THEOREM TypeCorrect == Spec => []TypeOK
<1>1. Inv => TypeOK
  BY DEF Inv, Types
<1> QED BY <1>1, Invariance, PTL

\* Neither create_fn nor update_size creates anything for a spec that validate
\* rejects, whatever fails and however often the operator restarts.
THEOREM NothingForInvalid == Spec => []InvalidCreatesNothing
<1>1. Inv => InvalidCreatesNothing
  BY DEF Inv, Rest, Barren, InvalidCreatesNothing
<1> QED BY <1>1, Invariance, PTL

\* What create_fn left out of a live cluster, other than a volume, has an event.
THEOREM NothingMissedSilently == Spec => []MissingIsReported
<1>1. Inv => MissingIsReported
  BY DEF Inv, Rest
<1> QED BY <1>1, Invariance, PTL

\* Without a failed call create_fn returns with every resource there, and
\* without a restart with the volumes of the spec there or on their way.
THEOREM CreatesWhole == Spec => []CreatedMeansWhole
<1>1. Inv => CreatedMeansWhole
  BY DEF Inv, Rest, Clean, Sent, CreatedMeansWhole
<1> QED BY <1>1, Invariance, PTL

\* Without a failed call update_size returns with the StatefulSet sized as the
\* edit asked, restarts or none: it never has to create it.
THEOREM SizesCleanly == Spec => []SizeAppliedCleanly
<1>1. Inv => SizeAppliedCleanly
  BY DEF Inv, Rest, Clean, SizeAppliedCleanly, SizeApplied
<1> QED BY <1>1, Invariance, PTL
=============================================================================
