-------------------------- MODULE CommandDispatch --------------------------
(***************************************************************************)
(* How a change of spec.command reaches the pods of one cluster: the field *)
(* handler of src/start.py under ClusterMutex, send_script_to_cluster of   *)
(* src/api/crd.py, the exec threads of src/api/pod_api.py, and what runs   *)
(* beside them: the timer, which writes the same status, users who edit    *)
(* the spec, pods that come and go, and an operator that may restart.      *)
(*                                                                         *)
(* kopf runs the change handlers of one object one at a time, calls a      *)
(* handler again when it raised, and stores the handled value on success.  *)
(* The attempts that pass the check of the cluster are numbered, so that a *)
(* script on a pod can be told from the attempt that started it.           *)
(***************************************************************************)
EXTENDS Naturals

CONSTANTS Pod,        \* names of the pods the StatefulSet may have
          Command,    \* values of spec.command
          NoCommand,  \* spec.command is not set
          Unset, NoCopy,
          MaxEdits,   \* edits of spec.command (bound)
          MaxTicks,   \* rounds of the timer (bound)
          MaxFaults   \* failed API calls, broken streams, restarts (bound)

ASSUME DispatchAssumption ==
  /\ NoCommand \notin Command
  /\ Unset \notin {"sent", "PENDING", "ONLINE"}
  /\ "status" \notin Pod
  /\ {MaxEdits, MaxTicks, MaxFaults} \subseteq Nat

VARIABLES valid,    \* the cluster passes JmeterClusterSpec.validate: its name,
                    \* which never changes, is short enough
          spec,     \* spec.command
          handled,  \* its value when the handler last succeeded, kept by kopf
          pods,     \* the pods that carry the label of the cluster
          mutex,    \* EphemeralState.data["<namespace>/<name>-mutex"] is set
          h,        \* the handler: its place, command, attempt, pods
          threads,  \* exec threads alive in the operator
          running,  \* scripts running in pods
          status, obj, fresh,  \* the status, as in StatusPatch
          aborted,  \* history: attempts that raised or died half-way
          broken,   \* history: scripts whose exec stream broke
          edits, ticks, faults \* how much of each bound is used

api   == <<status, obj, fresh>>
execs == <<threads, running, broken>>
used  == <<edits, ticks, faults>>
vars  == <<valid, spec, handled, pods, mutex, h, execs, api, aborted, used>>

\* The fields of status.cluster, and the dicts written to them.
Field   == {"status"} \cup Pod
Value   == {Unset, "PENDING", "ONLINE", "sent"}

Sent(p) == [f \in {p} |-> "sent"]
Probe(phase) == [f \in {"status"} |-> phase]
Update  == { Sent(p) : p \in Pod } \cup { Probe(s) : s \in {"PENDING", "ONLINE"} }

S == INSTANCE StatusPatch WITH Writer <- {"handler", "timer"}

Task == [pod : Pod, attempt : Nat]

\* The places of the handler.  Inside the mutex it first validates the cluster
\* and then sends the script.
Sending == {"list", "read", "patch", "start", "join"}
Inside == {"validate"} \cup Sending
Places == {"idle", "enter", "done", "failed"} \cup Inside

Idle(n) == [pc |-> "idle", cmd |-> NoCommand, attempt |-> n,
            listed |-> {}, todo |-> {}, at |-> {}]

\* The threads the current attempt will join.
Mine == { t \in threads : t.attempt = h.attempt }

Init == /\ valid \in BOOLEAN
        /\ spec = NoCommand /\ handled = NoCommand
        /\ pods \in SUBSET Pod
        /\ mutex = FALSE
        /\ h = Idle(0)
        /\ threads = {} /\ running = {} /\ broken = {}
        /\ S!Init
        /\ aborted = {}
        /\ edits = 0 /\ ticks = 0 /\ faults = 0

-----------------------------------------------------------------------------
(* The handler.                                                            *)

Goto(place) == h' = [h EXCEPT !.pc = place]

\* kopf sees a diff of the field and calls the handler with the new value.
Begin ==
  /\ h.pc = "idle"
  /\ spec # handled
  /\ h' = [Idle(h.attempt) EXCEPT !.pc = "enter", !.cmd = spec]
  /\ UNCHANGED <<valid, spec, handled, pods, mutex, execs, api, aborted, used>>

\* The command was removed: the handler returns without taking the mutex.
NothingToSend ==
  /\ h.pc = "enter" /\ h.cmd = NoCommand
  /\ Goto("done")
  /\ UNCHANGED <<valid, spec, handled, pods, mutex, execs, api, aborted, used>>

\* ClusterMutex.__enter__: test_set under the lock of EphemeralState.  When
\* the mutex is held TemporaryError sends the handler back for a retry.
Enter ==
  /\ h.pc = "enter" /\ h.cmd # NoCommand
  /\ mutex' = TRUE
  /\ Goto(IF mutex THEN "failed" ELSE "validate")
  /\ UNCHANGED <<valid, spec, handled, pods, execs, api, aborted, used>>

\* JmeterClusterSpec.validate: ApiSpecError leaves the `with' block, and kopf
\* retries a cluster that will never pass.
Validate ==
  /\ h.pc = "validate"
  /\ IF valid
     THEN h' = [h EXCEPT !.pc = "list", !.attempt = @ + 1] /\ UNCHANGED mutex
     ELSE Goto("failed") /\ mutex' = FALSE
  /\ UNCHANGED <<valid, spec, handled, pods, execs, api, aborted, used>>

\* get_jmeter_pods: every pod with the label, whatever its phase.
List ==
  /\ h.pc = "list"
  /\ h' = [h EXCEPT !.pc = IF pods = {} THEN "join" ELSE "read",
                    !.listed = pods, !.todo = pods]
  /\ UNCHANGED <<valid, spec, handled, pods, mutex, execs, api, aborted, used>>

\* set_status for the next pod: its GET ...
Read ==
  /\ h.pc = "read"
  /\ S!Get("handler")
  /\ \E p \in h.todo : h' = [h EXCEPT !.pc = "patch", !.at = {p}]
  /\ UNCHANGED <<valid, spec, handled, pods, mutex, execs, aborted, used>>

\* ... and its PATCH, which marks the pod.
Mark ==
  /\ h.pc = "patch"
  /\ \E p \in h.at : S!Patch("handler", Sent(p))
  /\ Goto("start")
  /\ UNCHANGED <<valid, spec, handled, pods, mutex, execs, aborted, used>>

\* An exception leaves the `with' block: the mutex is released, the threads
\* already started are not joined, and kopf will call the handler again.
Raise ==
  /\ mutex' = FALSE
  /\ Goto("failed")
  /\ aborted' = aborted \cup {h.attempt}

\* get_jmeter_pods fails.  An error the API server answers comes back as None:
\* nothing is sent, and the command counts as handled.  Any other exception, a
\* broken connection say, leaves the handler.
ListFails ==
  /\ h.pc = "list"
  /\ faults < MaxFaults
  /\ faults' = faults + 1
  /\ \/ Goto("join") /\ UNCHANGED <<mutex, aborted>>
     \/ Raise
  /\ UNCHANGED <<valid, spec, handled, pods, execs, api, edits, ticks>>

\* Mutants: __exit__ is skipped when the block raised; a conflict only skips
\* the pod.
Conflict_KeepsMutex ==
  /\ h.pc = "patch" /\ "handler" \notin fresh
  /\ S!Refuse("handler")
  /\ Goto("failed")
  /\ aborted' = aborted \cup {h.attempt}
  /\ UNCHANGED <<valid, spec, handled, pods, mutex, execs, used>>

Conflict_SkipsPod ==
  /\ h.pc = "patch" /\ "handler" \notin fresh
  /\ S!Refuse("handler")
  /\ h' = [h EXCEPT !.todo = @ \ h.at, !.at = {},
                    !.pc = IF h.todo = h.at THEN "join" ELSE "read"]
  /\ UNCHANGED <<valid, spec, handled, pods, mutex, execs, aborted, used>>

\* The object was written since the GET: 409.
Conflict ==
  /\ h.pc = "patch" /\ "handler" \notin fresh
  /\ S!Refuse("handler")
  /\ Raise
  /\ UNCHANGED <<valid, spec, handled, pods, execs, used>>

\* The GET or the PATCH fails for another reason; a PATCH of which only the
\* answer is lost has been applied.
StatusFails ==
  /\ faults < MaxFaults
  /\ faults' = faults + 1
  /\ \/ h.pc = "read" /\ UNCHANGED api
     \/ h.pc = "patch" /\ S!Refuse("handler")
     \/ h.pc = "patch" /\ \E p \in h.at : S!Patch("handler", Sent(p))
  /\ Raise
  /\ UNCHANGED <<valid, spec, handled, pods, execs, edits, ticks>>

\* Mutant: the thread is started before the pod is marked.
Start_Unmarked ==
  /\ h.pc \in {"patch", "start"}
  /\ \E p \in h.at :
       LET task == [pod |-> p, attempt |-> h.attempt]
       IN  threads' = threads \cup {task} /\ running' = running \cup {task}
  /\ IF h.pc = "start"
     THEN h' = [h EXCEPT !.todo = @ \ h.at, !.at = {},
                         !.pc = IF h.todo = h.at THEN "join" ELSE "read"]
     ELSE UNCHANGED h
  /\ UNCHANGED <<valid, spec, handled, pods, mutex, api, broken, aborted, used>>

\* Mutant: a thread whose exec failed waits for output that never comes.
Start_Hangs ==
  /\ h.pc = "start"
  /\ \E p \in h.at :
       LET task == [pod |-> p, attempt |-> h.attempt]
       IN  /\ threads' = threads \cup {task}
           /\ running' = running \cup IF p \in pods THEN {task} ELSE {}
  /\ h' = [h EXCEPT !.todo = @ \ h.at, !.at = {},
                    !.pc = IF h.todo = h.at THEN "join" ELSE "read"]
  /\ UNCHANGED <<valid, spec, handled, pods, mutex, api, broken, aborted, used>>

\* send_script_to_pod starts the thread.  The exec fails when the pod is gone
\* or its container is not up, and the thread dies of it with no one told.
Start ==
  /\ h.pc = "start"
  /\ \E p \in h.at :
       LET task == [pod |-> p, attempt |-> h.attempt]
       IN  \/ /\ p \in pods
              /\ threads' = threads \cup {task} /\ running' = running \cup {task}
           \/ UNCHANGED <<threads, running>>
  /\ h' = [h EXCEPT !.todo = @ \ h.at, !.at = {},
                    !.pc = IF h.todo = h.at THEN "join" ELSE "read"]
  /\ UNCHANGED <<valid, spec, handled, pods, mutex, api, broken, aborted, used>>

\* Mutant: the threads are left to themselves.
Join_NoWait ==
  /\ h.pc = "join"
  /\ mutex' = FALSE
  /\ Goto("done")
  /\ UNCHANGED <<valid, spec, handled, pods, execs, api, aborted, used>>

\* task.join() of each thread, and __exit__.
Join ==
  /\ h.pc = "join"
  /\ Mine = {}
  /\ mutex' = FALSE
  /\ Goto("done")
  /\ UNCHANGED <<valid, spec, handled, pods, execs, api, aborted, used>>

\* kopf stores what was handled, in an annotation of the object.
Record ==
  /\ h.pc = "done"
  /\ handled' = h.cmd
  /\ h' = Idle(h.attempt)
  /\ S!Touch
  /\ UNCHANGED <<valid, spec, pods, mutex, execs, aborted, used>>

\* kopf stores when to try again, in an annotation too.
Retry ==
  /\ h.pc = "failed"
  /\ h' = Idle(h.attempt)
  /\ S!Touch
  /\ UNCHANGED <<valid, spec, handled, pods, mutex, execs, aborted, used>>

-----------------------------------------------------------------------------
(* What runs beside it.                                                    *)

\* The script ends, and with it the thread that waits for its output.
ScriptEnds(t) ==
  /\ t \in running
  /\ running' = running \ {t}
  /\ threads' = threads \ {t}
  /\ UNCHANGED <<valid, spec, handled, pods, mutex, h, api, broken, aborted, used>>

\* The stream breaks: the thread dies, the script goes on.
StreamBreaks(t) ==
  /\ t \in threads
  /\ faults < MaxFaults
  /\ faults' = faults + 1
  /\ threads' = threads \ {t}
  /\ broken' = broken \cup {t}
  /\ UNCHANGED <<valid, spec, handled, pods, mutex, h, api, running, aborted, edits, ticks>>

Edit(c) ==
  /\ c # spec
  /\ edits < MaxEdits
  /\ edits' = edits + 1
  /\ spec' = c
  /\ S!Touch
  /\ UNCHANGED <<valid, handled, pods, mutex, h, execs, aborted, ticks, faults>>

PodUp(p) ==
  /\ p \notin pods
  /\ pods' = pods \cup {p}
  /\ UNCHANGED <<valid, spec, handled, mutex, h, execs, api, aborted, used>>

\* A pod takes its scripts with it, and their streams end.
PodDown(p) ==
  /\ p \in pods
  /\ pods' = pods \ {p}
  /\ running' = { t \in running : t.pod # p }
  /\ threads' = { t \in threads : t.pod # p }
  /\ UNCHANGED <<valid, spec, handled, mutex, h, api, broken, aborted, used>>

\* on_timer, as a writer of the status: ClusterLifecycle has what it writes.
TimerReads ==
  /\ ticks < MaxTicks
  /\ ticks' = ticks + 1
  /\ S!Get("timer")
  /\ UNCHANGED <<valid, spec, handled, pods, mutex, h, execs, aborted, edits, faults>>

TimerWrites ==
  /\ \/ \E phase \in {"PENDING", "ONLINE"} : S!Patch("timer", Probe(phase))
     \/ "timer" \notin fresh /\ S!Refuse("timer")
  /\ UNCHANGED <<valid, spec, handled, pods, mutex, h, execs, aborted, used>>

\* Threads, mutex and copies are the operator's memory; scripts are not.
Restart ==
  /\ faults < MaxFaults
  /\ faults' = faults + 1
  /\ mutex' = FALSE
  /\ h' = Idle(h.attempt)
  /\ threads' = {}
  /\ obj' = [w \in {"handler", "timer"} |-> NoCopy]
  /\ aborted' = aborted \cup IF h.pc \in Sending THEN {h.attempt} ELSE {}
  /\ UNCHANGED <<valid, spec, handled, pods, running, broken, status, fresh, edits, ticks>>

Handler == \/ Begin \/ NothingToSend \/ Enter \/ Validate \/ List \/ Read \/ Mark \/ Conflict
           \/ Start \/ Join \/ Record \/ Retry

Next == \/ Handler
        \/ ListFails \/ StatusFails
        \/ \E t \in running : ScriptEnds(t)
        \/ \E t \in threads : StreamBreaks(t)
        \/ \E c \in Command \cup {NoCommand} : Edit(c)
        \/ \E p \in Pod : PodUp(p) \/ PodDown(p)
        \/ TimerReads \/ TimerWrites
        \/ Restart

\* kopf calls the handler again until it returns, threads make progress, and
\* a load test ends.
Fairness == /\ WF_vars(Handler)
            /\ WF_vars(TimerWrites)
            /\ WF_vars(\E t \in running : ScriptEnds(t))

Spec == Init /\ [][Next]_vars /\ Fairness

-----------------------------------------------------------------------------
TypeOK ==
  /\ {spec, handled, h.cmd} \subseteq Command \cup {NoCommand}
  /\ pods \subseteq Pod
  /\ {valid, mutex} \subseteq BOOLEAN
  /\ h \in [pc : Places, cmd : Command \cup {NoCommand}, attempt : Nat,
            listed : SUBSET Pod, todo : SUBSET Pod, at : SUBSET Pod]
  /\ threads \subseteq Task /\ running \subseteq Task /\ broken \subseteq Task
  /\ S!TypeOK
  /\ aborted \subseteq Nat
  /\ {edits, ticks, faults} \subseteq Nat

\* The mutex is held exactly while the handler is between __enter__ and
\* __exit__ (cluster.py), however it leaves: no exit leaks it, which would
\* make every later handler fail with `busy'.
MutexTracksDispatch == mutex <=> h.pc \in Inside

\* A pod that runs a script is marked in the status (crd.py marks it before it
\* starts the thread), whatever the timer has written since.
MarkedBeforeRun == \A t \in running : status[t.pod] = "sent"

\* Outside the dispatch of its own attempt a script runs only if that attempt
\* was abandoned or the stream to it broke: with neither, two commands never
\* overlap on a pod.
NoStrays ==
  \A t \in running :
    \/ t.attempt = h.attempt /\ h.pc \in Sending
    \/ t.attempt \in aborted
    \/ t \in broken

\* A dispatch that reaches its joins has marked every pod it listed.
AllListedMarked ==
  h.pc \in {"join", "done"} => \A p \in h.listed : status[p] = "sent"

\* The mark of a pod is never taken back (crd.py set_status): not by a writer
\* whose copy is from before the mark, the timer's rounds included, nor by a
\* restart, nor when the pod is gone.
MarksKept ==
  [][\A p \in Pod : status[p] = "sent" => status'[p] = "sent"]_vars

\* A cluster that passes validate ends up idle with the last command handled
\* when edits, faults and the timer's races end: no retry is stuck.  (One that
\* does not pass is retried for ever, unless the command is removed; and a
\* script that never ends is kept out by Fairness.)
CommandSettles ==
  <>[](valid \/ spec = NoCommand => h.pc = "idle" /\ handled = spec)
=============================================================================
