-------------------------- MODULE ClusterLifecycle --------------------------
(***************************************************************************)
(* The life of one cluster under src/start.py: create_fn makes its         *)
(* dependency resources one after the other, the spec.instances handler    *)
(* sizes the StatefulSet, the timer probes the pods and the delete handler *)
(* drops the volumes, while API calls fail, the operator restarts, users   *)
(* edit the spec and Kubernetes starts and stops pods.                     *)
(*                                                                         *)
(* set_status is taken for the atomic merge that StatusPatch shows it to   *)
(* be, or for an exception.  create_fn and the timer are coroutines that   *)
(* never await, so neither runs inside the other; the instances handler is *)
(* a thread and the timer may run inside it.  kopf runs the change         *)
(* handlers of one object one at a time, create_fn first, and calls again  *)
(* those that raised.                                                      *)
(***************************************************************************)
EXTENDS Naturals

CONSTANTS MaxSize,     \* largest spec.instances (20 in deploy/yaml/crd/crd.yaml)
          MaxEdits,    \* edits of spec.instances (bound)
          MaxTrouble,  \* API calls and pods that fail, restarts (bound)
          Storages,    \* sets of volumes a spec may ask for
          NotYet,      \* no value of spec.instances has been handled
          Unset        \* a status field never written

ASSUME LifecycleAssumption ==
  /\ {MaxSize, MaxEdits, MaxTrouble} \subseteq Nat
  /\ MaxSize > 0
  /\ Storages \subseteq SUBSET {"config_pvc", "data_pvc"}
  /\ NotYet \notin Nat
  /\ Unset \notin Nat \cup {"PENDING", "ONLINE"}

VARIABLES spec,      \* spec.instances
          storage,   \* the volumes the spec asks for
          valid,     \* the name of the cluster passes validate
          phase,     \* "live", "deleting" or "gone"
          created,   \* create_fn has returned, kept by kopf
          tried,     \* create_fn has raised, kept by kopf
          handled,   \* spec.instances when its handler last returned
          h,         \* the running change handler: place, resource, size
          t,         \* the timer: place, spec.instances of its body, count
          mutex,     \* ClusterMutex is held
          sending,   \* volumes whose creation is in the client's thread pool
          dropping,  \* volumes whose deletion is there
          have,      \* resources that exist
          replicas,  \* spec.replicas of the StatefulSet, 0 without it
          running,   \* pods of the StatefulSet in phase Running
          status,    \* status.cluster
          events,    \* reasons of the events posted
          edits, faults, restarts \* how much of each bound is used

user     == <<spec, storage, valid>>
progress == <<created, tried, handled>>
pool     == <<sending, dropping>>
cluster  == <<have, replicas, running>>
used     == <<edits, faults, restarts>>
vars     == <<user, phase, progress, h, t, mutex, pool, cluster, status, events, used>>

Size   == 0 .. MaxSize
Volume == {"config_pvc", "data_pvc"}
Core   == {"config", "sts", "nginx", "svc"}
Resource == Core \cup Volume

\* The order in which create_fn takes them.
first == "config"
after == [config |-> "config_pvc", config_pvc |-> "data_pvc", data_pvc |-> "sts",
          sts |-> "nginx", nginx |-> "svc", svc |-> "end"]

\* The replicas prepare_stateful_set asks for: JmeterClusterSpec.load never
\* reads spec.instances, so the class attribute stands.
DefaultInstances == 1

Creating == {"validate", "invalid", "look", "make", "report", "announce", "pending"}
Resizing == {"enter", "find", "patch", "size", "mark"}
Deleting == {"drop"}
Places   == {"idle", "created", "resized", "deleted", "raised"}
            \cup Creating \cup Resizing \cup Deleting

Field  == {"status", "onlineInstances"}
Value  == {Unset, "PENDING", "ONLINE"} \cup Size
Probe(state, n) == [status |-> state, onlineInstances |-> n]
Update == { Probe(state, n) : state \in {"PENDING", "ONLINE"}, n \in Size }

Store == INSTANCE StatusStore
SetStatus(state, n) == status' = Store!Merge(status, Probe(state, n))

Idle  == [pc |-> "idle", res |-> first, size |-> 0]
Quiet == [pc |-> "idle", want |-> 0, count |-> 0]

Init == /\ spec \in Size /\ storage \in Storages /\ valid \in BOOLEAN
        /\ phase = "live"
        /\ created = FALSE /\ tried = FALSE /\ handled = NotYet
        /\ h = Idle /\ t = Quiet /\ mutex = FALSE
        /\ sending = {} /\ dropping = {}
        /\ have = {} /\ replicas = 0 /\ running = 0
        /\ status = [f \in Field |-> Unset]
        /\ events = {}
        /\ edits = 0 /\ faults = 0 /\ restarts = 0

-----------------------------------------------------------------------------
Goto(place) == h' = [h EXCEPT !.pc = place]
Fault == /\ faults + restarts < MaxTrouble
         /\ faults' = faults + 1
         /\ UNCHANGED <<edits, restarts>>

\* What exists after resource r was created; a StatefulSet comes with the
\* default size.
Make(r) ==
  /\ have' = have \cup {r}
  /\ replicas' = IF r = "sts" THEN DefaultInstances ELSE replicas
  /\ UNCHANGED running

(* create_fn.                                                              *)

StartCreate ==
  /\ h.pc = "idle" /\ phase = "live" /\ ~created
  /\ t.pc = "idle"
  /\ h' = [Idle EXCEPT !.pc = "validate"]
  /\ UNCHANGED <<user, phase, progress, t, mutex, pool, cluster, status, events, used>>

\* A spec that validate rejects: the status is set, an event posted, and
\* TemporaryError sends kopf back for another try.
Validate ==
  /\ h.pc = "validate"
  /\ IF valid THEN Goto("look") /\ UNCHANGED status
              ELSE Goto("invalid") /\ SetStatus("PENDING", 0)
  /\ UNCHANGED <<user, phase, progress, t, mutex, pool, cluster, events, used>>

RejectSpec ==
  /\ h.pc = "invalid"
  /\ events' = events \cup {"InvalidArgument"}
  /\ Goto("raised") /\ tried' = TRUE
  /\ UNCHANGED <<user, phase, created, handled, t, mutex, pool, cluster, status, used>>

Step(r) == h' = [h EXCEPT !.res = after[r],
                          !.pc = IF after[r] = "end" THEN "announce" ELSE "look"]

\* Mutant: with the config map there, the rest is taken to be there too.
PassedOver_Once(r) == "config" \in have \/ r \in Volume \ storage

\* What create_fn does not create: a resource that its getter finds, a volume
\* that the spec does not ask for.
PassedOver(r) == r \in have \/ r \in Volume \ storage

Look ==
  /\ h.pc = "look"
  /\ IF PassedOver(h.res) THEN Step(h.res) ELSE Goto("make")
  /\ UNCHANGED <<user, phase, progress, t, mutex, pool, cluster, status, events, used>>

\* The getters return None for every ApiException, and what else is raised
\* ends in the `except' of create_fn.
LookFails ==
  /\ h.pc = "look" /\ Fault
  /\ \/ h.res \in Volume \ storage /\ Step(h.res)
     \/ h.res \notin Volume \ storage /\ Goto("make")
     \/ Goto("report")
  /\ UNCHANGED <<user, phase, progress, t, mutex, pool, cluster, status, events>>

\* A volume is created with async_req: the call returns at once and nobody
\* looks at what becomes of it.
MakeVolume ==
  /\ h.pc = "make" /\ h.res \in Volume
  /\ sending' = sending \cup {h.res}
  /\ Step(h.res)
  /\ UNCHANGED <<user, phase, progress, t, mutex, dropping, cluster, status, events, used>>

\* Creating what a getter failed to find raises AlreadyExists.
MakeCore ==
  /\ h.pc = "make" /\ h.res \in Core
  /\ IF h.res \in have THEN Goto("report") /\ UNCHANGED cluster
                       ELSE Step(h.res) /\ Make(h.res)
  /\ UNCHANGED <<user, phase, progress, t, mutex, pool, status, events, used>>

\* The call raises, having created the resource or not.
MakeFails ==
  /\ h.pc = "make" /\ h.res \in Core /\ Fault
  /\ \/ UNCHANGED cluster
     \/ h.res \notin have /\ Make(h.res)
  /\ Goto("report")
  /\ UNCHANGED <<user, phase, progress, t, mutex, pool, status, events>>

\* Mutant: the exception is only logged.
Reported_Logged == {}

Reported == {"CreateResourceFailed"}

\* The `except': an event, and on with what follows the block.
Report ==
  /\ h.pc = "report"
  /\ events' = events \cup Reported
  /\ Goto("announce")
  /\ UNCHANGED <<user, phase, progress, t, mutex, pool, cluster, status, used>>

Announce ==
  /\ h.pc = "announce"
  /\ events' = events \cup {"ResourcesCreated"}
  /\ Goto("pending")
  /\ UNCHANGED <<user, phase, progress, t, mutex, pool, cluster, status, used>>

SetPending ==
  /\ h.pc = "pending"
  /\ SetStatus("PENDING", 0)
  /\ Goto("created")
  /\ UNCHANGED <<user, phase, progress, t, mutex, pool, cluster, events, used>>

\* An event or a status that cannot be written, outside the block or in its
\* `except', leaves create_fn as an exception.
CreateRaises ==
  /\ h.pc \in {"validate", "invalid", "report", "announce", "pending"}
  /\ h.pc = "validate" => ~valid
  /\ Fault
  /\ \/ UNCHANGED status
     \/ h.pc \in {"validate", "pending"} /\ SetStatus("PENDING", 0)
  /\ Goto("raised") /\ tried' = TRUE
  /\ UNCHANGED <<user, phase, created, handled, t, mutex, pool, cluster, events>>

-----------------------------------------------------------------------------
(* The spec.instances handler and update_size.                             *)

\* kopf calls the handlers that were called least often first, and create_fn is
\* registered before the field handlers.
AfterCreate == created \/ tried

\* kopf starts it in a thread when the field differs from what was handled.
StartResize ==
  /\ h.pc = "idle" /\ phase = "live"
  /\ AfterCreate
  /\ spec # handled
  /\ t.pc = "idle"
  /\ h' = [Idle EXCEPT !.pc = "enter", !.size = spec]
  /\ UNCHANGED <<user, phase, progress, t, mutex, pool, cluster, status, events, used>>

\* Mutant: the spec is not validated.
Accepted_Always == TRUE

\* parsed_spec.validate returns.
Accepted == valid

\* ClusterMutex.__enter__ and validate; ApiSpecError releases the mutex.
Enter ==
  /\ h.pc = "enter"
  /\ \/ mutex /\ Goto("raised") /\ UNCHANGED mutex
     \/ ~mutex /\ Accepted /\ Goto("find") /\ mutex' = TRUE
     \/ ~mutex /\ ~Accepted /\ Goto("raised") /\ mutex' = FALSE
  /\ UNCHANGED <<user, phase, progress, t, pool, cluster, status, events, used>>

Find ==
  /\ h.pc = "find"
  /\ Goto(IF "sts" \in have THEN "patch" ELSE "size")
  /\ UNCHANGED <<user, phase, progress, t, mutex, pool, cluster, status, events, used>>

\* Mutant: a cluster only ever grows.
NewSize_Grows == IF h.size > replicas THEN h.size ELSE replicas

NewSize == h.size

PatchSize ==
  /\ h.pc = "patch"
  /\ replicas' = NewSize
  /\ Goto("mark")
  /\ UNCHANGED <<user, phase, progress, t, mutex, pool, have, running, status, events, used>>

\* Mutant: update_size does nothing when it finds no StatefulSet.
MakeSized_Nothing ==
  /\ h.pc = "size" /\ "sts" \notin have
  /\ Goto("mark")
  /\ UNCHANGED <<user, phase, progress, t, mutex, pool, cluster, status, events, used>>

\* No StatefulSet was found: prepare_stateful_set and create.
MakeSized ==
  /\ h.pc = "size" /\ "sts" \notin have
  /\ Make("sts")
  /\ Goto("mark")
  /\ UNCHANGED <<user, phase, progress, t, mutex, pool, status, events, used>>

MakeSizedExists ==
  /\ h.pc = "size" /\ "sts" \in have
  /\ mutex' = FALSE /\ Goto("raised")
  /\ UNCHANGED <<user, phase, progress, t, pool, cluster, status, events, used>>

\* The status counts the instances asked for as online, leaving the mutex.
MarkPending ==
  /\ h.pc = "mark"
  /\ SetStatus("PENDING", h.size)
  /\ mutex' = FALSE /\ Goto("resized")
  /\ UNCHANGED <<user, phase, progress, t, pool, cluster, events, used>>

\* The getter gives None for an ApiException.
FindFails ==
  /\ h.pc = "find" /\ Fault
  /\ Goto("size")
  /\ UNCHANGED <<user, phase, progress, t, mutex, pool, cluster, status, events>>

\* Any other call raises, having been applied or not: the mutex is released.
ResizeRaises ==
  /\ h.pc \in {"find", "patch", "size", "mark"} /\ Fault
  /\ \/ UNCHANGED <<cluster, status>>
     \/ h.pc = "patch" /\ replicas' = NewSize /\ UNCHANGED <<have, running, status>>
     \/ h.pc = "size" /\ "sts" \notin have /\ Make("sts") /\ UNCHANGED status
     \/ h.pc = "mark" /\ SetStatus("PENDING", h.size) /\ UNCHANGED cluster
  /\ mutex' = FALSE /\ Goto("raised")
  /\ UNCHANGED <<user, phase, progress, t, pool, events>>

-----------------------------------------------------------------------------
(* The delete handler.                                                     *)

StartDelete ==
  /\ h.pc = "idle" /\ phase = "deleting"
  /\ t.pc = "idle"
  /\ h' = [Idle EXCEPT !.pc = "drop", !.res = "config_pvc"]
  /\ UNCHANGED <<user, phase, progress, t, mutex, pool, cluster, status, events, used>>

NextVolume ==
  IF h.res = "config_pvc" THEN h' = [h EXCEPT !.res = "data_pvc"] ELSE Goto("deleted")

\* delete_storage_by_name, with async_req, of each volume that is there.
Drop ==
  /\ h.pc = "drop"
  /\ dropping' = dropping \cup ({h.res} \cap have)
  /\ NextVolume
  /\ UNCHANGED <<user, phase, progress, t, mutex, sending, cluster, status, events, used>>

DropFails ==
  /\ h.pc = "drop" /\ Fault
  /\ NextVolume \/ Goto("raised")
  /\ UNCHANGED <<user, phase, progress, t, mutex, pool, cluster, status, events>>

-----------------------------------------------------------------------------
(* kopf: what the outcome of a handler leaves in the object.               *)

Record ==
  /\ h.pc \in {"created", "resized"}
  /\ created' = (created \/ h.pc = "created")
  /\ handled' = IF h.pc = "resized" THEN h.size ELSE handled
  /\ h' = Idle
  /\ UNCHANGED <<user, phase, tried, t, mutex, pool, cluster, status, events, used>>

\* The finalizer goes, and the object with what was kept in it.
Finalize ==
  /\ h.pc = "deleted"
  /\ phase' = "gone"
  /\ created' = FALSE /\ tried' = FALSE /\ handled' = NotYet
  /\ status' = [f \in Field |-> Unset]
  /\ h' = Idle
  /\ UNCHANGED <<user, t, mutex, pool, cluster, events, used>>

Retry ==
  /\ h.pc = "raised"
  /\ h' = Idle
  /\ UNCHANGED <<user, phase, progress, t, mutex, pool, cluster, status, events, used>>

-----------------------------------------------------------------------------
(* on_timer.                                                               *)

TimerStarts ==
  /\ t.pc = "idle" /\ phase = "live" /\ h.pc \notin Creating
  /\ t' = [Quiet EXCEPT !.pc = "count", !.want = spec]
  /\ UNCHANGED <<user, phase, progress, h, mutex, pool, cluster, status, events, used>>

\* cluser_pod_running_num: all the pods asked for are running, or they are
\* counted once more for the status.
Counted(n) == [t EXCEPT !.count = n,
                        !.pc = CASE t.pc = "recount" -> "PENDING"
                                 [] n = t.want -> "ONLINE"
                                 [] OTHER -> "recount"]

TimerCounts ==
  /\ t.pc \in {"count", "recount"}
  /\ t' = Counted(running)
  /\ UNCHANGED <<user, phase, progress, h, mutex, pool, cluster, status, events, used>>

\* A list that fails counts as no pods, or raises.
TimerCountFails ==
  /\ t.pc \in {"count", "recount"} /\ Fault
  /\ t' \in {Counted(0), Quiet}
  /\ UNCHANGED <<user, phase, progress, h, mutex, pool, cluster, status, events>>

\* Mutant: the status keeps the number of instances asked for.
OnlineInstances_Asked == t.want

OnlineInstances == t.count

TimerWrites ==
  /\ t.pc \in {"ONLINE", "PENDING"}
  /\ SetStatus(t.pc, OnlineInstances)
  /\ t' = Quiet
  /\ UNCHANGED <<user, phase, progress, h, mutex, pool, cluster, events, used>>

TimerWriteFails ==
  /\ t.pc \in {"ONLINE", "PENDING"} /\ Fault
  /\ t' = Quiet
  /\ UNCHANGED <<user, phase, progress, h, mutex, pool, cluster, status, events>>

-----------------------------------------------------------------------------
(* Users, Kubernetes, the client's thread pool and the operator's process. *)

Edit(n) ==
  /\ phase = "live" /\ n # spec
  /\ edits < MaxEdits /\ edits' = edits + 1
  /\ spec' = n
  /\ UNCHANGED <<storage, valid, phase, progress, h, t, mutex, pool, cluster, status, events,
                 faults, restarts>>

Delete ==
  /\ phase = "live"
  /\ phase' = "deleting"
  /\ UNCHANGED <<user, progress, h, t, mutex, pool, cluster, status, events, used>>

\* The controller of the StatefulSet; its pods mount both volumes, whether or
\* not the spec asks for them.
PodStarts ==
  /\ running < replicas /\ Volume \subseteq have
  /\ running' = running + 1
  /\ UNCHANGED <<user, phase, progress, h, t, mutex, pool, have, replicas, status, events, used>>

PodStops ==
  /\ running > replicas
  /\ running' = running - 1
  /\ UNCHANGED <<user, phase, progress, h, t, mutex, pool, have, replicas, status, events, used>>

PodFails ==
  /\ running > 0 /\ Fault
  /\ running' = running - 1
  /\ UNCHANGED <<user, phase, progress, h, t, mutex, pool, have, replicas, status, events>>

VolumeMade(r) ==
  /\ r \in sending
  /\ sending' = sending \ {r}
  /\ have' = have \cup {r}
  /\ UNCHANGED <<user, phase, progress, h, t, mutex, dropping, replicas, running, status,
                 events, used>>

VolumeDropped(r) ==
  /\ r \in dropping
  /\ dropping' = dropping \ {r}
  /\ have' = have \ {r}
  /\ UNCHANGED <<user, phase, progress, h, t, mutex, sending, replicas, running, status,
                 events, used>>

\* A request in the pool fails, and no one sees it.
PoolFails(r) ==
  /\ Fault
  /\ r \in sending \cup dropping
  /\ sending' = sending \ {r} /\ dropping' = dropping \ {r}
  /\ UNCHANGED <<user, phase, progress, h, t, mutex, cluster, status, events>>

\* Mutant: the volumes are not adopted.
Adopted_NotVolumes == Core

\* kopf.adopt makes the cluster the owner of what create_fn creates, so that
\* Kubernetes collects it when the cluster is gone.
Adopted == Resource

Collect ==
  /\ phase = "gone"
  /\ have \cap Adopted # {}
  /\ have' = have \ Adopted
  /\ replicas' = 0
  /\ UNCHANGED <<user, phase, progress, h, t, mutex, pool, running, status, events, used>>

\* The operator dies with its handlers, mutex and thread pool; requests already
\* sent may still be served.
Restart ==
  /\ faults + restarts < MaxTrouble /\ restarts' = restarts + 1
  /\ h' = Idle /\ t' = Quiet /\ mutex' = FALSE
  /\ sending' = {} /\ dropping' = {}
  /\ \E served \in SUBSET sending : have' = have \cup served
  /\ UNCHANGED <<user, phase, progress, replicas, running, status, events, edits, faults>>

Start   == StartCreate \/ StartResize \/ StartDelete
Handler == \/ Validate \/ RejectSpec \/ Look \/ MakeVolume \/ MakeCore \/ Report \/ Announce
           \/ SetPending
           \/ Enter \/ Find \/ PatchSize \/ MakeSized \/ MakeSizedExists \/ MarkPending
           \/ Drop \/ Record \/ Finalize \/ Retry
Timer   == TimerStarts \/ TimerCounts \/ TimerWrites
Kubernetes == \/ PodStarts \/ PodStops \/ Collect
              \/ \E r \in Volume : VolumeMade(r) \/ VolumeDropped(r)

Next == \/ Start \/ Handler \/ Timer \/ Kubernetes
        \/ LookFails \/ MakeFails \/ CreateRaises \/ FindFails \/ ResizeRaises \/ DropFails
        \/ TimerCountFails \/ TimerWriteFails \/ PodFails
        \/ \E r \in Volume : PoolFails(r)
        \/ \E n \in Size : Edit(n)
        \/ Delete \/ Restart

\* The event loop runs its tasks in turn, so that handlers and timer both
\* start; handlers, timer and controllers run on.
Fairness == /\ SF_vars(Start) /\ WF_vars(Handler) /\ WF_vars(Timer)
            /\ WF_vars(PodStarts \/ PodStops) /\ WF_vars(Collect)
            /\ WF_vars(\E r \in Volume : VolumeMade(r) \/ VolumeDropped(r))

Spec == Init /\ [][Next]_vars /\ Fairness

-----------------------------------------------------------------------------
TypeOK ==
  /\ spec \in Size /\ storage \subseteq Volume /\ valid \in BOOLEAN
  /\ phase \in {"live", "deleting", "gone"}
  /\ created \in BOOLEAN /\ tried \in BOOLEAN /\ handled \in Size \cup {NotYet}
  /\ h \in [pc : Places, res : Resource \cup {"end"}, size : Size]
  /\ t \in [pc : {"idle", "count", "recount", "ONLINE", "PENDING"}, want : Size,
            count : Nat]
  /\ mutex \in BOOLEAN
  /\ sending \subseteq Volume /\ dropping \subseteq Volume
  /\ have \subseteq Resource
  /\ replicas \in 0 .. MaxSize /\ running \in 0 .. MaxSize
  /\ status \in [status : {Unset, "PENDING", "ONLINE"}, onlineInstances : {Unset} \cup Size]
  /\ events \subseteq {"InvalidArgument", "CreateResourceFailed", "ResourcesCreated"}
  /\ edits \in 0 .. MaxEdits /\ faults \in Nat /\ restarts \in Nat
  /\ faults + restarts <= MaxTrouble

\* Nothing is created for a cluster that validate rejects, neither by create_fn
\* nor by the instances handler that kopf runs after create_fn has raised.
InvalidCreatesNothing == ~valid => have = {} /\ sending = {}

\* A resource that create_fn left out is reported (start.py's `except'), unless
\* it is a volume, whose creation nobody watches.
MissingIsReported ==
  created /\ phase = "live" /\ ~(Core \subseteq have) => "CreateResourceFailed" \in events

\* When no call fails, create_fn returns with every resource there or on its
\* way, even if the operator restarted in the middle of it; a restart can only
\* lose a volume.
CreatedMeansWhole ==
  created /\ phase = "live" /\ faults = 0 =>
    /\ Core \subseteq have
    /\ restarts = 0 => storage \subseteq have \cup sending

\* update_size leaves the StatefulSet with the size it was given.
SizeApplied == h.pc = "resized" => replicas = h.size

\* It does when no call fails: create_fn has run before it.
SizeAppliedCleanly == faults = 0 => SizeApplied

\* A live cluster with a valid spec gets its StatefulSet: what create_fn failed
\* to create, update_size does.
StsAppears == <>(~valid \/ phase # "live" \/ "sts" \in have)

\* Once edits and faults end, the status settles on the pods there are,
\* whatever the handlers wrote to it: ONLINE if they are the pods asked for.
StatusTracksPods ==
  <>[](valid /\ phase = "live" =>
         status = Probe(IF running = spec THEN "ONLINE" ELSE "PENDING", running))

\* The StatefulSet comes to have the replicas that spec.instances asks for.
Sized == <>[](valid /\ phase = "live" => replicas = spec)

\* When no call fails and the operator never restarts it does, and the pods come
\* to run if the spec asks for the volumes that they mount.
ScaledCleanly ==
  [](faults = 0 /\ restarts = 0) =>
    /\ Sized
    /\ <>[](valid /\ phase = "live" /\ storage = Volume => running = spec)

\* A restart changes nothing in that (deploy/yaml/crd/crd.yaml: spec.instances is
\* the "Number of Jmeter replica instances for the cluster").
SizedDespiteRestarts == [](faults = 0) => Sized

\* Nothing of a deleted cluster stays, a volume still being created included.
GoneLeavesNothing == phase = "gone" ~> [](have = {} /\ running = 0)

\* What create_fn says in its last event: "Dependency resources created".
EventTruthful ==
  h.pc = "pending" => Core \subseteq have
=============================================================================
