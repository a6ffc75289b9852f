----------------------- MODULE CommandDispatchProofs -----------------------
(***************************************************************************)
(* The safety of a dispatch, for any pods, commands, timer rounds and      *)
(* faults.                                                                 *)
(***************************************************************************)
EXTENDS CommandDispatch, TLAPS

Writer == {"handler", "timer"}

-----------------------------------------------------------------------------
(* The status: what a step of set_status, or of another writer, keeps.     *)

ApiInv == S!TypeOK /\ S!FreshIsCurrent

Marked(p) == status[p] = "sent"

\* A mark is never taken back.
MarksStay == \A p \in Pod : Marked(p) => Marked(p)'

ApiStep == \/ \E w \in Writer : S!Get(w) \/ S!Refuse(w) \/ \E u \in Update : S!Patch(w, u)
           \/ S!Touch
           \/ UNCHANGED api

LEMMA UpdateFits ==
  ASSUME NEW u \in Update
  PROVE  /\ DOMAIN u \subseteq Field
         /\ \A f \in DOMAIN u : u[f] \in Value
         /\ \A p \in Pod \cap DOMAIN u : u[p] = "sent"
BY DispatchAssumption DEF Update, Sent, Probe, Field, Value

LEMMA PatchMerges ==
  ASSUME ApiInv, NEW w \in Writer, NEW u \in Update, S!Patch(w, u)
  PROVE  /\ status' = [f \in Field |-> IF f \in DOMAIN u THEN u[f] ELSE status[f]]
         /\ status' \in [Field -> Value]
<1>1. obj[w] = status /\ status \in [Field -> Value]
  BY DEF ApiInv, S!TypeOK, S!FreshIsCurrent, S!Patch, Writer
<1>2. status' = [f \in Field |-> IF f \in DOMAIN u THEN u[f] ELSE status[f]]
  BY <1>1 DEF S!Patch, S!Merge, S!Store!Merge
<1>3. QED
  BY <1>1, <1>2, UpdateFits

LEMMA ApiKept ==
  ASSUME ApiInv, ApiStep
  PROVE  ApiInv' /\ MarksStay
<1>1. ASSUME NEW w \in Writer, S!Get(w) \/ S!Refuse(w) PROVE ApiInv' /\ MarksStay
  BY <1>1 DEF ApiInv, S!TypeOK, S!FreshIsCurrent, S!Get, S!Refuse, MarksStay, Marked, Writer
<1>2. ASSUME NEW w \in Writer, NEW u \in Update, S!Patch(w, u)
      PROVE  ApiInv' /\ MarksStay
  <2>1. ApiInv'
    <3>1. status' \in [Field -> Value]
      BY <1>2, PatchMerges
    <3>2. obj' = [obj EXCEPT ![w] = NoCopy] /\ fresh' = {}
      BY <1>2 DEF S!Patch
    <3>3. QED
      BY <3>1, <3>2 DEF ApiInv, S!TypeOK, S!FreshIsCurrent, Writer
  <2>2. MarksStay
    <3>1. status' = [f \in Field |-> IF f \in DOMAIN u THEN u[f] ELSE status[f]]
      BY <1>2, PatchMerges
    <3>2. SUFFICES ASSUME NEW p \in Pod, status[p] = "sent" PROVE status'[p] = "sent"
      BY DEF MarksStay, Marked
    <3>3. p \in DOMAIN u => u[p] = "sent"
      BY UpdateFits
    <3>4. QED
      BY <3>1, <3>2, <3>3 DEF Field
  <2>3. QED
    BY <2>1, <2>2
<1>3. CASE S!Touch
  BY <1>3 DEF ApiInv, S!TypeOK, S!FreshIsCurrent, S!Touch, MarksStay, Marked
<1>4. CASE UNCHANGED api
  BY <1>4 DEF ApiInv, S!TypeOK, S!FreshIsCurrent, api, MarksStay, Marked
<1>5. QED
  BY <1>1, <1>2, <1>3, <1>4 DEF ApiStep

\* The patch that marks a pod leaves it marked.
LEMMA MarkMarks ==
  ASSUME ApiInv, NEW p \in Pod, S!Patch("handler", Sent(p))
  PROVE  Marked(p)'
<1>1. Sent(p) \in Update /\ p \in DOMAIN Sent(p) /\ Sent(p)[p] = "sent" /\ p \in Field
  BY DEF Update, Sent, Field
<1>2. QED
  BY <1>1, PatchMerges DEF Marked, Writer

-----------------------------------------------------------------------------
(* The inductive invariant.                                                *)

\* TypeOK without the status.
Types ==
  /\ spec \in Command \cup {NoCommand} /\ handled \in Command \cup {NoCommand}
  /\ pods \subseteq Pod
  /\ valid \in BOOLEAN /\ mutex \in BOOLEAN
  /\ h \in [pc : Places, cmd : Command \cup {NoCommand}, attempt : Nat,
            listed : SUBSET Pod, todo : SUBSET Pod, at : SUBSET Pod]
  /\ threads \subseteq Task /\ running \subseteq Task /\ broken \subseteq Task
  /\ aborted \subseteq Nat
  /\ edits \in Nat /\ ticks \in Nat /\ faults \in Nat

\* A thread belongs to a script.  A script without a thread lost it to a broken
\* stream or an abandoned attempt.
ScriptsKnown ==
  /\ threads \subseteq running
  /\ \A t \in running \ threads : t.attempt \in aborted \/ t \in broken

\* How far the loop over the pods is: those listed and not to do are marked,
\* and so is the one whose thread is about to start.
LoopSoFar ==
  /\ h.pc \in {"enter", "validate", "list"} => h.listed = {}
  /\ h.pc \in {"read", "patch", "start"} => \A p \in h.listed \ h.todo : Marked(p)
  /\ h.pc \in {"patch", "start"} => \E p \in Pod : h.at = {p}
  /\ h.pc = "start" => \A p \in h.at : Marked(p)

Inv == /\ ApiInv /\ Types
       /\ MutexTracksDispatch
       /\ ScriptsKnown /\ NoStrays
       /\ MarkedBeforeRun /\ LoopSoFar /\ AllListedMarked

LEMMA InitInv == Init => Inv
<1> SUFFICES ASSUME Init PROVE Inv
  OBVIOUS
<1>1. ApiInv
  BY DEF Init, ApiInv, S!Init, S!TypeOK, S!FreshIsCurrent, Value
<1>2. Types
  BY DEF Init, Types, Idle, Places
<1>3. QED
  BY <1>1, <1>2 DEF Init, Inv, Idle, Inside, Sending, MutexTracksDispatch, ScriptsKnown, NoStrays,
     MarkedBeforeRun, LoopSoFar, AllListedMarked
-----------------------------------------------------------------------------
(* Each action keeps it.                                                   *)

Scripts == ScriptsKnown /\ NoStrays
Marks   == MarkedBeforeRun /\ LoopSoFar /\ AllListedMarked

LEMMA BeginKeeps ==
  ASSUME Inv, Begin
  PROVE  Inv' /\ MarksStay
<1>1. ApiInv' /\ MarksStay
  BY ApiKept DEF Inv, Begin, ApiStep, Writer, api, Update, execs, used
<1>2. Types' /\ MutexTracksDispatch'
  <2>1. h' = [pc |-> "enter", cmd |-> spec, attempt |-> h.attempt,
              listed |-> {}, todo |-> {}, at |-> {}]
    BY DEF Begin, Idle
  <2>2. Types'
    BY <2>1 DEF Inv, Begin, Types, Places, execs, used
  <2>3. MutexTracksDispatch'
    BY <2>1 DEF Inv, Begin, MutexTracksDispatch, Inside, Sending
  <2>4. QED
    BY <2>2, <2>3
<1>3. Scripts'
  BY DEF Inv, Begin, Scripts, ScriptsKnown, NoStrays, Mine, Types,
     MutexTracksDispatch, Goto, Idle, Inside, Sending, Task, execs, used
<1>4. Marks'
  BY <1>1 DEF Inv, Begin, Marks, MarkedBeforeRun, LoopSoFar, AllListedMarked, MarksStay,
     Marked, Types, ScriptsKnown, Goto, Idle, Task, execs, api, used
<1>5. QED
  BY <1>1, <1>2, <1>3, <1>4 DEF Inv, Scripts, Marks

LEMMA NothingToSendKeeps ==
  ASSUME Inv, NothingToSend
  PROVE  Inv' /\ MarksStay
<1>1. ApiInv' /\ MarksStay
  BY ApiKept DEF Inv, NothingToSend, ApiStep, Writer, api, Update, execs, used
<1>2. Types' /\ MutexTracksDispatch'
  BY DEF Inv, NothingToSend, Types, MutexTracksDispatch, Goto, Idle, Places, Inside, Sending, Task,
     execs, used
<1>3. Scripts'
  BY DEF Inv, NothingToSend, Scripts, ScriptsKnown, NoStrays, Mine, Types,
     MutexTracksDispatch, Goto, Idle, Inside, Sending, Task, execs, used
<1>4. Marks'
  BY <1>1 DEF Inv, NothingToSend, Marks, MarkedBeforeRun, LoopSoFar, AllListedMarked, MarksStay,
     Marked, Types, ScriptsKnown, Goto, Idle, Task, execs, api, used
<1>5. QED
  BY <1>1, <1>2, <1>3, <1>4 DEF Inv, Scripts, Marks

LEMMA EnterKeeps ==
  ASSUME Inv, Enter
  PROVE  Inv' /\ MarksStay
<1>1. ApiInv' /\ MarksStay
  BY ApiKept DEF Inv, Enter, ApiStep, Writer, api, Update, execs, used
<1>2. Types' /\ MutexTracksDispatch'
  BY DEF Inv, Enter, Types, MutexTracksDispatch, Goto, Idle, Places, Inside, Sending, Task,
     execs, used
<1>3. Scripts'
  BY DEF Inv, Enter, Scripts, ScriptsKnown, NoStrays, Mine, Types,
     MutexTracksDispatch, Goto, Idle, Inside, Sending, Task, execs, used
<1>4. Marks'
  BY <1>1 DEF Inv, Enter, Marks, MarkedBeforeRun, LoopSoFar, AllListedMarked, MarksStay,
     Marked, Types, ScriptsKnown, Goto, Idle, Task, execs, api, used
<1>5. QED
  BY <1>1, <1>2, <1>3, <1>4 DEF Inv, Scripts, Marks

LEMMA ValidateKeeps ==
  ASSUME Inv, Validate
  PROVE  Inv' /\ MarksStay
<1>1. ApiInv' /\ MarksStay
  BY ApiKept DEF Inv, Validate, ApiStep, Writer, api, Update, execs, used
<1>2. Types' /\ MutexTracksDispatch'
  <2>1. /\ UNCHANGED <<valid, spec, handled, pods, threads, running, broken, aborted>>
        /\ UNCHANGED <<edits, ticks, faults>>
    BY DEF Validate, execs, used
  <2>2. CASE valid
    <3>1. h' = [h EXCEPT !.pc = "list", !.attempt = @ + 1] /\ UNCHANGED mutex
      BY <2>2 DEF Validate
    <3>2. h' \in [pc : Places, cmd : Command \cup {NoCommand}, attempt : Nat,
                  listed : SUBSET Pod, todo : SUBSET Pod, at : SUBSET Pod]
      <4>1. h.attempt + 1 \in Nat /\ "list" \in Places
        BY DEF Inv, Types, Places, Inside, Sending
      <4>2. QED
        BY <3>1, <4>1 DEF Inv, Types
    <3>3. MutexTracksDispatch'
      BY <3>1 DEF Inv, Types, Validate, MutexTracksDispatch, Inside, Sending
    <3>4. QED
      BY <2>1, <3>1, <3>2, <3>3, Zenon DEF Inv, Types
  <2>3. CASE ~valid
    <3>1. h' = [h EXCEPT !.pc = "failed"] /\ mutex' = FALSE
      BY <2>3 DEF Validate, Goto
    <3>2. h' \in [pc : Places, cmd : Command \cup {NoCommand}, attempt : Nat,
                  listed : SUBSET Pod, todo : SUBSET Pod, at : SUBSET Pod]
      BY <3>1 DEF Inv, Types, Places
    <3>3. MutexTracksDispatch'
      BY <3>1 DEF Inv, Types, MutexTracksDispatch, Inside, Sending
    <3>4. QED
      BY <2>1, <3>1, <3>2, <3>3, Zenon DEF Inv, Types
  <2>4. QED
    BY <2>2, <2>3
<1>3. Scripts'
  BY DEF Inv, Validate, Scripts, ScriptsKnown, NoStrays, Mine, Types,
     MutexTracksDispatch, Goto, Idle, Inside, Sending, Task, execs, used
<1>4. Marks'
  BY <1>1 DEF Inv, Validate, Marks, MarkedBeforeRun, LoopSoFar, AllListedMarked, MarksStay,
     Marked, Types, ScriptsKnown, Goto, Idle, Task, execs, api, used
<1>5. QED
  BY <1>1, <1>2, <1>3, <1>4 DEF Inv, Scripts, Marks

LEMMA ListKeeps ==
  ASSUME Inv, List
  PROVE  Inv' /\ MarksStay
<1>1. ApiInv' /\ MarksStay
  BY ApiKept DEF Inv, List, ApiStep, Writer, api, Update, execs, used
<1>2. Types' /\ MutexTracksDispatch'
  BY DEF Inv, List, Types, MutexTracksDispatch, Goto, Idle, Places, Inside, Sending, Task,
     execs, used
<1>3. Scripts'
  BY DEF Inv, List, Scripts, ScriptsKnown, NoStrays, Mine, Types,
     MutexTracksDispatch, Goto, Idle, Inside, Sending, Task, execs, used
<1>4. Marks'
  BY <1>1 DEF Inv, List, Marks, MarkedBeforeRun, LoopSoFar, AllListedMarked, MarksStay,
     Marked, Types, ScriptsKnown, Goto, Idle, Task, execs, api, used
<1>5. QED
  BY <1>1, <1>2, <1>3, <1>4 DEF Inv, Scripts, Marks

LEMMA ListFailsKeeps ==
  ASSUME Inv, ListFails
  PROVE  Inv' /\ MarksStay
<1>1. ApiInv' /\ MarksStay
  BY ApiKept DEF Inv, ListFails, Raise, ApiStep, Writer, api, Update, execs, used
<1>2. Types' /\ MutexTracksDispatch'
  <2>1. /\ UNCHANGED <<valid, spec, handled, pods, threads, running, broken, edits, ticks>>
        /\ faults' = faults + 1
    BY DEF ListFails, execs
  <2>2. faults' \in Nat
    BY <2>1 DEF Inv, Types
  <2>3. CASE Goto("join") /\ UNCHANGED <<mutex, aborted>>
    <3>1. h' \in [pc : Places, cmd : Command \cup {NoCommand}, attempt : Nat,
                  listed : SUBSET Pod, todo : SUBSET Pod, at : SUBSET Pod]
      BY <2>3 DEF Inv, Types, Goto, Places, Inside, Sending
    <3>2. MutexTracksDispatch'
      BY <2>3 DEF Inv, Types, ListFails, Goto, MutexTracksDispatch, Inside, Sending
    <3>3. QED
      BY <2>1, <2>2, <2>3, <3>1, <3>2, Zenon DEF Inv, Types
  <2>4. CASE Raise
    <3>1. h' \in [pc : Places, cmd : Command \cup {NoCommand}, attempt : Nat,
                  listed : SUBSET Pod, todo : SUBSET Pod, at : SUBSET Pod]
      BY <2>4 DEF Inv, Types, Raise, Goto, Places
    <3>2. MutexTracksDispatch'
      BY <2>4 DEF Inv, Types, Raise, Goto, MutexTracksDispatch, Inside, Sending
    <3>3. aborted' \subseteq Nat /\ mutex' = FALSE
      BY <2>4 DEF Inv, Types, Raise
    <3>4. QED
      BY <2>1, <2>2, <3>1, <3>2, <3>3, Zenon DEF Inv, Types
  <2>5. QED
    BY <2>3, <2>4 DEF ListFails
<1>3. Scripts'
  BY DEF Inv, ListFails, Raise, Scripts, ScriptsKnown, NoStrays, Mine, Types,
     MutexTracksDispatch, Goto, Idle, Inside, Sending, Task, execs, used
<1>4. Marks'
  BY <1>1 DEF Inv, ListFails, Raise, Marks, MarkedBeforeRun, LoopSoFar, AllListedMarked, MarksStay,
     Marked, Types, ScriptsKnown, Goto, Idle, Task, execs, api, used
<1>5. QED
  BY <1>1, <1>2, <1>3, <1>4 DEF Inv, Scripts, Marks

LEMMA ReadKeeps ==
  ASSUME Inv, Read
  PROVE  Inv' /\ MarksStay
<1>1. ApiInv' /\ MarksStay
  BY ApiKept DEF Inv, Read, ApiStep, Writer, api, Update, execs, used
<1>2. Types' /\ MutexTracksDispatch'
  <2>1. PICK p \in h.todo : h' = [h EXCEPT !.pc = "patch", !.at = {p}]
    BY DEF Read
  <2>2. Types'
    BY <2>1 DEF Inv, Read, Types, Places, Inside, Sending, execs, used
  <2>3. MutexTracksDispatch'
    BY <2>1 DEF Inv, Types, Read, MutexTracksDispatch, Inside, Sending
  <2>4. QED
    BY <2>2, <2>3
<1>3. Scripts'
  BY DEF Inv, Read, Scripts, ScriptsKnown, NoStrays, Mine, Types,
     MutexTracksDispatch, Goto, Idle, Inside, Sending, Task, execs, used
<1>4. Marks'
  BY <1>1 DEF Inv, Read, Marks, MarkedBeforeRun, LoopSoFar, AllListedMarked, MarksStay,
     Marked, Types, ScriptsKnown, Goto, Idle, Task, execs, api, used
<1>5. QED
  BY <1>1, <1>2, <1>3, <1>4 DEF Inv, Scripts, Marks

LEMMA MarkKeeps ==
  ASSUME Inv, Mark
  PROVE  Inv' /\ MarksStay
<1>1. ApiInv' /\ MarksStay
  <2>1. PICK p \in h.at : S!Patch("handler", Sent(p))
    BY DEF Mark
  <2>2. p \in Pod
    BY DEF Inv, Types
  <2>3. Sent(p) \in Update
    BY <2>2 DEF Update
  <2>4. QED
    BY <2>1, <2>3, ApiKept DEF Inv, ApiStep, Writer
<1>2. Types' /\ MutexTracksDispatch'
  BY DEF Inv, Mark, Types, MutexTracksDispatch, Goto, Idle, Places, Inside, Sending, Task,
     execs, used
<1>3. Scripts'
  BY DEF Inv, Mark, Scripts, ScriptsKnown, NoStrays, Mine, Types,
     MutexTracksDispatch, Goto, Idle, Inside, Sending, Task, execs, used
<1>4. Marks'
  <2>1. PICK p \in Pod : h.at = {p}
    BY DEF Inv, LoopSoFar, Mark
  <2>2. Marked(p)'
    BY <2>1, MarkMarks DEF Mark, Inv
  <2>3. h' = [h EXCEPT !.pc = "start"] /\ UNCHANGED execs /\ h.pc = "patch"
    BY DEF Mark, Goto
  <2>4. /\ h'.pc = "start" /\ h'.at = {p}
        /\ h'.listed = h.listed /\ h'.todo = h.todo /\ h.listed \subseteq Pod
    BY <2>1, <2>3 DEF Inv, Types
  <2>5. MarkedBeforeRun'
    BY <1>1, <2>3 DEF Inv, MarkedBeforeRun, MarksStay, Marked, Types, Task, execs
  <2>6. LoopSoFar'
    BY <1>1, <2>2, <2>3, <2>4 DEF Inv, LoopSoFar, MarksStay, Marked
  <2>7. AllListedMarked'
    BY <2>4 DEF AllListedMarked
  <2>8. QED
    BY <2>5, <2>6, <2>7 DEF Marks
<1>5. QED
  BY <1>1, <1>2, <1>3, <1>4 DEF Inv, Scripts, Marks

LEMMA ConflictKeeps ==
  ASSUME Inv, Conflict
  PROVE  Inv' /\ MarksStay
<1>1. ApiInv' /\ MarksStay
  BY ApiKept DEF Inv, Conflict, ApiStep, Writer, api, Update, execs, used
<1>2. Types' /\ MutexTracksDispatch'
  BY DEF Inv, Conflict, Raise, Types, MutexTracksDispatch, Goto, Idle, Places, Inside, Sending, Task,
     execs, used
<1>3. Scripts'
  BY DEF Inv, Conflict, Raise, Scripts, ScriptsKnown, NoStrays, Mine, Types,
     MutexTracksDispatch, Goto, Idle, Inside, Sending, Task, execs, used
<1>4. Marks'
  BY <1>1 DEF Inv, Conflict, Raise, Marks, MarkedBeforeRun, LoopSoFar, AllListedMarked, MarksStay,
     Marked, Types, ScriptsKnown, Goto, Idle, Task, execs, api, used
<1>5. QED
  BY <1>1, <1>2, <1>3, <1>4 DEF Inv, Scripts, Marks

LEMMA StatusFailsKeeps ==
  ASSUME Inv, StatusFails
  PROVE  Inv' /\ MarksStay
<1>1. ApiInv' /\ MarksStay
  <2>1. CASE UNCHANGED api \/ S!Refuse("handler")
    BY <2>1, ApiKept DEF Inv, ApiStep, Writer
  <2>2. CASE \E p \in h.at : S!Patch("handler", Sent(p))
    <3>1. PICK p \in h.at : S!Patch("handler", Sent(p))
      BY <2>2
    <3>2. p \in Pod
      BY DEF Inv, Types
    <3>3. Sent(p) \in Update
      BY <3>2 DEF Update
    <3>4. QED
      BY <3>1, <3>3, ApiKept DEF Inv, ApiStep, Writer
  <2>3. QED
    BY <2>1, <2>2 DEF StatusFails
<1>2. Types' /\ MutexTracksDispatch'
  <2>1. Types'
    <3>1. aborted' \subseteq Nat
      BY DEF Inv, StatusFails, Raise, Types
    <3>2. h' \in [pc : Places, cmd : Command \cup {NoCommand}, attempt : Nat,
                  listed : SUBSET Pod, todo : SUBSET Pod, at : SUBSET Pod]
      BY DEF Inv, StatusFails, Raise, Types, Goto, Places
    <3>3. /\ UNCHANGED <<valid, spec, handled, pods, threads, running, broken, edits, ticks>>
          /\ mutex' = FALSE /\ faults' = faults + 1
      BY DEF StatusFails, Raise, execs
    <3>4. faults' \in Nat
      BY <3>3 DEF Inv, Types
    <3>5. QED
      BY <3>1, <3>2, <3>3, <3>4, Zenon DEF Inv, Types
  <2>2. MutexTracksDispatch'
    BY DEF Inv, Types, StatusFails, Raise, MutexTracksDispatch, Goto, Inside, Sending
  <2>3. QED
    BY <2>1, <2>2
<1>3. Scripts'
  BY DEF Inv, StatusFails, Raise, Scripts, ScriptsKnown, NoStrays, Mine, Types,
     MutexTracksDispatch, Goto, Idle, Inside, Sending, Task, execs, used
<1>4. Marks'
  BY <1>1 DEF Inv, StatusFails, Raise, Marks, MarkedBeforeRun, LoopSoFar, AllListedMarked,
     MarksStay, Marked, Types, ScriptsKnown, Goto, Idle, Task, execs, api, used
<1>5. QED
  BY <1>1, <1>2, <1>3, <1>4 DEF Inv, Scripts, Marks

LEMMA StartKeeps ==
  ASSUME Inv, Start
  PROVE  Inv' /\ MarksStay
<1>1. ApiInv' /\ MarksStay
  BY ApiKept DEF Inv, Start, ApiStep, Writer, api, Update, execs, used
<1>2. Types' /\ MutexTracksDispatch'
  <2>1. PICK p \in Pod : h.at = {p}
    BY DEF Inv, LoopSoFar, Start
  <2>2. [pod |-> p, attempt |-> h.attempt] \in Task
    BY DEF Inv, Types, Task
  <2>3. threads' \subseteq Task /\ running' \subseteq Task
    BY <2>1, <2>2 DEF Inv, Types, Start
  <2>4. h' \in [pc : Places, cmd : Command \cup {NoCommand}, attempt : Nat,
                listed : SUBSET Pod, todo : SUBSET Pod, at : SUBSET Pod]
    BY DEF Inv, Types, Start, Places, Inside, Sending
  <2>5. Types'
    BY <2>3, <2>4 DEF Inv, Types, Start, used
  <2>6. MutexTracksDispatch'
    BY DEF Inv, Types, Start, MutexTracksDispatch, Inside, Sending
  <2>7. QED
    BY <2>5, <2>6
<1>3. Scripts'
  BY DEF Inv, Start, Scripts, ScriptsKnown, NoStrays, Mine, Types,
     MutexTracksDispatch, Goto, Idle, Inside, Sending, Task, execs, used
<1>4. Marks'
  BY <1>1 DEF Inv, Start, Marks, MarkedBeforeRun, LoopSoFar, AllListedMarked, MarksStay,
     Marked, Types, ScriptsKnown, Goto, Idle, Task, execs, api, used
<1>5. QED
  BY <1>1, <1>2, <1>3, <1>4 DEF Inv, Scripts, Marks

LEMMA JoinKeeps ==
  ASSUME Inv, Join
  PROVE  Inv' /\ MarksStay
<1>1. ApiInv' /\ MarksStay
  BY ApiKept DEF Inv, Join, ApiStep, Writer, api, Update, execs, used
<1>2. Types' /\ MutexTracksDispatch'
  BY DEF Inv, Join, Types, MutexTracksDispatch, Goto, Idle, Places, Inside, Sending, Task,
     execs, used
<1>3. Scripts'
  BY DEF Inv, Join, Scripts, ScriptsKnown, NoStrays, Mine, Types,
     MutexTracksDispatch, Goto, Idle, Inside, Sending, Task, execs, used
<1>4. Marks'
  BY <1>1 DEF Inv, Join, Marks, MarkedBeforeRun, LoopSoFar, AllListedMarked, MarksStay,
     Marked, Types, ScriptsKnown, Goto, Idle, Task, execs, api, used
<1>5. QED
  BY <1>1, <1>2, <1>3, <1>4 DEF Inv, Scripts, Marks

LEMMA RecordKeeps ==
  ASSUME Inv, Record
  PROVE  Inv' /\ MarksStay
<1>1. ApiInv' /\ MarksStay
  BY ApiKept DEF Inv, Record, ApiStep, Writer, api, Update, execs, used
<1>2. Types' /\ MutexTracksDispatch'
  BY DEF Inv, Record, Types, MutexTracksDispatch, Goto, Idle, Places, Inside, Sending, Task,
     execs, used
<1>3. Scripts'
  BY DEF Inv, Record, Scripts, ScriptsKnown, NoStrays, Mine, Types,
     MutexTracksDispatch, Goto, Idle, Inside, Sending, Task, execs, used
<1>4. Marks'
  BY <1>1 DEF Inv, Record, Marks, MarkedBeforeRun, LoopSoFar, AllListedMarked, MarksStay,
     Marked, Types, ScriptsKnown, Goto, Idle, Task, execs, api, used
<1>5. QED
  BY <1>1, <1>2, <1>3, <1>4 DEF Inv, Scripts, Marks

LEMMA RetryKeeps ==
  ASSUME Inv, Retry
  PROVE  Inv' /\ MarksStay
<1>1. ApiInv' /\ MarksStay
  BY ApiKept DEF Inv, Retry, ApiStep, Writer, api, Update, execs, used
<1>2. Types' /\ MutexTracksDispatch'
  BY DEF Inv, Retry, Types, MutexTracksDispatch, Goto, Idle, Places, Inside, Sending, Task,
     execs, used
<1>3. Scripts'
  BY DEF Inv, Retry, Scripts, ScriptsKnown, NoStrays, Mine, Types,
     MutexTracksDispatch, Goto, Idle, Inside, Sending, Task, execs, used
<1>4. Marks'
  BY <1>1 DEF Inv, Retry, Marks, MarkedBeforeRun, LoopSoFar, AllListedMarked, MarksStay,
     Marked, Types, ScriptsKnown, Goto, Idle, Task, execs, api, used
<1>5. QED
  BY <1>1, <1>2, <1>3, <1>4 DEF Inv, Scripts, Marks

LEMMA ScriptEndsKeeps ==
  ASSUME Inv, NEW t \in running, ScriptEnds(t)
  PROVE  Inv' /\ MarksStay
<1>1. ApiInv' /\ MarksStay
  BY ApiKept DEF Inv, ScriptEnds, ApiStep, Writer, api, Update, execs, used
<1>2. Types' /\ MutexTracksDispatch'
  BY DEF Inv, ScriptEnds, Types, MutexTracksDispatch, Goto, Idle, Places, Inside, Sending, Task,
     execs, used
<1>3. Scripts'
  BY DEF Inv, ScriptEnds, Scripts, ScriptsKnown, NoStrays, Mine, Types,
     MutexTracksDispatch, Goto, Idle, Inside, Sending, Task, execs, used
<1>4. Marks'
  BY <1>1 DEF Inv, ScriptEnds, Marks, MarkedBeforeRun, LoopSoFar, AllListedMarked, MarksStay,
     Marked, Types, ScriptsKnown, Goto, Idle, Task, execs, api, used
<1>5. QED
  BY <1>1, <1>2, <1>3, <1>4 DEF Inv, Scripts, Marks

LEMMA StreamBreaksKeeps ==
  ASSUME Inv, NEW t \in threads, StreamBreaks(t)
  PROVE  Inv' /\ MarksStay
<1>1. ApiInv' /\ MarksStay
  BY ApiKept DEF Inv, StreamBreaks, ApiStep, Writer, api, Update, execs, used
<1>2. Types' /\ MutexTracksDispatch'
  BY DEF Inv, StreamBreaks, Types, MutexTracksDispatch, Goto, Idle, Places, Inside, Sending, Task,
     execs, used
<1>3. Scripts'
  BY DEF Inv, StreamBreaks, Scripts, ScriptsKnown, NoStrays, Mine, Types,
     MutexTracksDispatch, Goto, Idle, Inside, Sending, Task, execs, used
<1>4. Marks'
  BY <1>1 DEF Inv, StreamBreaks, Marks, MarkedBeforeRun, LoopSoFar, AllListedMarked, MarksStay,
     Marked, Types, ScriptsKnown, Goto, Idle, Task, execs, api, used
<1>5. QED
  BY <1>1, <1>2, <1>3, <1>4 DEF Inv, Scripts, Marks

LEMMA EditKeeps ==
  ASSUME Inv, NEW c \in Command \cup {NoCommand}, Edit(c)
  PROVE  Inv' /\ MarksStay
<1>1. ApiInv' /\ MarksStay
  BY ApiKept DEF Inv, Edit, ApiStep, Writer, api, Update, execs, used
<1>2. Types' /\ MutexTracksDispatch'
  BY DEF Inv, Edit, Types, MutexTracksDispatch, Goto, Idle, Places, Inside, Sending, Task,
     execs, used
<1>3. Scripts'
  BY DEF Inv, Edit, Scripts, ScriptsKnown, NoStrays, Mine, Types,
     MutexTracksDispatch, Goto, Idle, Inside, Sending, Task, execs, used
<1>4. Marks'
  BY <1>1 DEF Inv, Edit, Marks, MarkedBeforeRun, LoopSoFar, AllListedMarked, MarksStay,
     Marked, Types, ScriptsKnown, Goto, Idle, Task, execs, api, used
<1>5. QED
  BY <1>1, <1>2, <1>3, <1>4 DEF Inv, Scripts, Marks

LEMMA PodUpKeeps ==
  ASSUME Inv, NEW p \in Pod, PodUp(p)
  PROVE  Inv' /\ MarksStay
<1>1. ApiInv' /\ MarksStay
  BY ApiKept DEF Inv, PodUp, ApiStep, Writer, api, Update, execs, used
<1>2. Types' /\ MutexTracksDispatch'
  BY DEF Inv, PodUp, Types, MutexTracksDispatch, Goto, Idle, Places, Inside, Sending, Task,
     execs, used
<1>3. Scripts'
  BY DEF Inv, PodUp, Scripts, ScriptsKnown, NoStrays, Mine, Types,
     MutexTracksDispatch, Goto, Idle, Inside, Sending, Task, execs, used
<1>4. Marks'
  BY <1>1 DEF Inv, PodUp, Marks, MarkedBeforeRun, LoopSoFar, AllListedMarked, MarksStay,
     Marked, Types, ScriptsKnown, Goto, Idle, Task, execs, api, used
<1>5. QED
  BY <1>1, <1>2, <1>3, <1>4 DEF Inv, Scripts, Marks

LEMMA PodDownKeeps ==
  ASSUME Inv, NEW p \in Pod, PodDown(p)
  PROVE  Inv' /\ MarksStay
<1>1. ApiInv' /\ MarksStay
  BY ApiKept DEF Inv, PodDown, ApiStep, Writer, api, Update, execs, used
<1>2. Types' /\ MutexTracksDispatch'
  BY DEF Inv, PodDown, Types, MutexTracksDispatch, Goto, Idle, Places, Inside, Sending, Task,
     execs, used
<1>3. Scripts'
  BY DEF Inv, PodDown, Scripts, ScriptsKnown, NoStrays, Mine, Types,
     MutexTracksDispatch, Goto, Idle, Inside, Sending, Task, execs, used
<1>4. Marks'
  BY <1>1 DEF Inv, PodDown, Marks, MarkedBeforeRun, LoopSoFar, AllListedMarked, MarksStay,
     Marked, Types, ScriptsKnown, Goto, Idle, Task, execs, api, used
<1>5. QED
  BY <1>1, <1>2, <1>3, <1>4 DEF Inv, Scripts, Marks

LEMMA TimerReadsKeeps ==
  ASSUME Inv, TimerReads
  PROVE  Inv' /\ MarksStay
<1>1. ApiInv' /\ MarksStay
  BY ApiKept DEF Inv, TimerReads, ApiStep, Writer, api, Update, execs, used
<1>2. Types' /\ MutexTracksDispatch'
  BY DEF Inv, TimerReads, Types, MutexTracksDispatch, Goto, Idle, Places, Inside, Sending, Task,
     execs, used
<1>3. Scripts'
  BY DEF Inv, TimerReads, Scripts, ScriptsKnown, NoStrays, Mine, Types,
     MutexTracksDispatch, Goto, Idle, Inside, Sending, Task, execs, used
<1>4. Marks'
  BY <1>1 DEF Inv, TimerReads, Marks, MarkedBeforeRun, LoopSoFar, AllListedMarked, MarksStay,
     Marked, Types, ScriptsKnown, Goto, Idle, Task, execs, api, used
<1>5. QED
  BY <1>1, <1>2, <1>3, <1>4 DEF Inv, Scripts, Marks

LEMMA TimerWritesKeeps ==
  ASSUME Inv, TimerWrites
  PROVE  Inv' /\ MarksStay
<1>1. ApiInv' /\ MarksStay
  BY ApiKept DEF Inv, TimerWrites, ApiStep, Writer, api, Update, execs, used
<1>2. Types' /\ MutexTracksDispatch'
  BY DEF Inv, TimerWrites, Types, MutexTracksDispatch, Goto, Idle, Places, Inside, Sending, Task,
     execs, used
<1>3. Scripts'
  BY DEF Inv, TimerWrites, Scripts, ScriptsKnown, NoStrays, Mine, Types,
     MutexTracksDispatch, Goto, Idle, Inside, Sending, Task, execs, used
<1>4. Marks'
  BY <1>1 DEF Inv, TimerWrites, Marks, MarkedBeforeRun, LoopSoFar, AllListedMarked, MarksStay,
     Marked, Types, ScriptsKnown, Goto, Idle, Task, execs, api, used
<1>5. QED
  BY <1>1, <1>2, <1>3, <1>4 DEF Inv, Scripts, Marks

LEMMA RestartKeeps ==
  ASSUME Inv, Restart
  PROVE  Inv' /\ MarksStay
<1>1. ApiInv' /\ MarksStay
  <2>1. MarksStay
    BY DEF Restart, MarksStay, Marked
  <2>2. ApiInv'
    BY DEF Inv, Restart, ApiInv, S!TypeOK, S!FreshIsCurrent
  <2>3. QED
    BY <2>1, <2>2
<1>2. Types' /\ MutexTracksDispatch'
  <2>1. h' = [pc |-> "idle", cmd |-> NoCommand, attempt |-> h.attempt,
              listed |-> {}, todo |-> {}, at |-> {}]
    BY DEF Restart, Idle
  <2>2. Types'
    <3>1. aborted' \subseteq Nat
      BY DEF Inv, Restart, Types
    <3>2. h' \in [pc : Places, cmd : Command \cup {NoCommand}, attempt : Nat,
                  listed : SUBSET Pod, todo : SUBSET Pod, at : SUBSET Pod]
      BY <2>1 DEF Inv, Types, Places
    <3>3. /\ UNCHANGED <<valid, spec, handled, pods, running, broken, edits, ticks>>
          /\ threads' = {} /\ mutex' = FALSE /\ faults' = faults + 1
      BY DEF Restart
    <3>4. faults' \in Nat
      BY <3>3 DEF Inv, Types
    <3>5. QED
      BY <3>1, <3>2, <3>3, <3>4, Zenon DEF Inv, Types
  <2>3. MutexTracksDispatch'
    BY <2>1 DEF Inv, Restart, MutexTracksDispatch, Inside, Sending
  <2>4. QED
    BY <2>2, <2>3
<1>3. Scripts'
  BY DEF Inv, Restart, Scripts, ScriptsKnown, NoStrays, Mine, Types,
     MutexTracksDispatch, Goto, Idle, Inside, Sending, Task, execs, used
<1>4. Marks'
  BY <1>1 DEF Inv, Restart, Marks, MarkedBeforeRun, LoopSoFar, AllListedMarked, MarksStay,
     Marked, Types, ScriptsKnown, Goto, Idle, Task, execs, api, used
<1>5. QED
  BY <1>1, <1>2, <1>3, <1>4 DEF Inv, Scripts, Marks

LEMMA StepInv == Inv /\ [Next]_vars => Inv' /\ MarksStay
<1> SUFFICES ASSUME Inv, [Next]_vars PROVE Inv' /\ MarksStay
  OBVIOUS
<1>1. CASE Handler
  BY <1>1, BeginKeeps, NothingToSendKeeps, EnterKeeps, ValidateKeeps, ListKeeps, ReadKeeps, MarkKeeps,
     ConflictKeeps, StartKeeps, JoinKeeps, RecordKeeps, RetryKeeps DEF Handler
<1>2. CASE ListFails \/ StatusFails \/ Restart
  BY <1>2, ListFailsKeeps, StatusFailsKeeps, RestartKeeps
<1>3. CASE \/ \E t \in running : ScriptEnds(t)
           \/ \E t \in threads : StreamBreaks(t)
  BY <1>3, ScriptEndsKeeps, StreamBreaksKeeps
<1>4. CASE \/ \E c \in Command \cup {NoCommand} : Edit(c)
           \/ \E p \in Pod : PodUp(p) \/ PodDown(p)
  BY <1>4, EditKeeps, PodUpKeeps, PodDownKeeps
<1>5. CASE TimerReads \/ TimerWrites
  BY <1>5, TimerReadsKeeps, TimerWritesKeeps
<1>6. CASE UNCHANGED vars
  <2>1. UNCHANGED <<valid, spec, handled, pods, mutex, h, execs, api, aborted, used>>
    BY <1>6 DEF vars
  <2>2. ApiInv' /\ MarksStay
    BY <2>1, ApiKept DEF Inv, ApiStep
  <2>3. Types' /\ MutexTracksDispatch'
    BY <2>1 DEF Inv, Types, MutexTracksDispatch, execs, used
  <2>4. Scripts' /\ Marks'
    BY <2>1 DEF Inv, Scripts, ScriptsKnown, NoStrays, Mine, Marks,
       MarkedBeforeRun, LoopSoFar, AllListedMarked, Marked, execs, api
  <2>5. QED
    BY <2>2, <2>3, <2>4 DEF Inv, Scripts, Marks
<1>7. QED
  BY <1>1, <1>2, <1>3, <1>4, <1>5, <1>6 DEF Next

\* The inductive invariant, with the status that several writers share.
THEOREM Invariance == Spec => []Inv
BY InitInv, StepInv, PTL DEF Spec

-----------------------------------------------------------------------------
(* What follows from it.                                                   *)

\* Every value has its type in every reachable state (TypeOK).
THEOREM TypeCorrect == Spec => []TypeOK
<1>1. Inv => TypeOK
  BY DEF Inv, ApiInv, Types, TypeOK
<1>2. QED
  BY <1>1, Invariance, PTL

\* No way out of the handler, an exception or a restart included, leaves the
\* mutex taken (MutexTracksDispatch).
THEOREM MutexNeverLeaks == Spec => []MutexTracksDispatch
<1>1. Inv => MutexTracksDispatch
  BY DEF Inv
<1>2. QED
  BY <1>1, Invariance, PTL

\* Every pod that runs a script is marked in the status, whoever writes the
\* status meanwhile (MarkedBeforeRun).
THEOREM RunningIsMarked == Spec => []MarkedBeforeRun
<1>1. Inv => MarkedBeforeRun
  BY DEF Inv
<1>2. QED
  BY <1>1, Invariance, PTL

\* A script outlives its dispatch only after an aborted attempt or a broken
\* stream (NoStrays).
THEOREM StraysExplained == Spec => []NoStrays
<1>1. Inv => NoStrays
  BY DEF Inv
<1>2. QED
  BY <1>1, Invariance, PTL

\* A dispatch that reaches its joins has marked every pod it listed
\* (AllListedMarked).
THEOREM DispatchMarksAll == Spec => []AllListedMarked
<1>1. Inv => AllListedMarked
  BY DEF Inv
<1>2. QED
  BY <1>1, Invariance, PTL

\* No writer of the status, however old its copy, takes back the mark of a pod
\* (MarksKept).
THEOREM MarksKeptAlways == Spec => MarksKept
<1>1. MarksStay \/ UNCHANGED vars => [\A p \in Pod : status[p] = "sent" => status'[p] = "sent"]_vars
  BY DEF MarksStay, Marked
<1>2. QED
  BY <1>1, StepInv, Invariance, PTL DEF Spec, MarksKept
=============================================================================
