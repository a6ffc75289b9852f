---------------------------- MODULE StatusPatch ----------------------------
(***************************************************************************)
(* JmeterCluster.set_status (src/api/crd.py): GET the object, merge the    *)
(* new fields into its status, PATCH the status subresource with the whole *)
(* object.  The handler threads and the timer of one cluster call it       *)
(* concurrently, and every other write of the object, kopf's own included, *)
(* comes between.                                                          *)
(*                                                                         *)
(* The object that is sent back carries the resourceVersion it was read    *)
(* with, so the API server refuses it (409) once anyone has written since. *)
(* Versions are only compared for equality with the current one: `fresh'   *)
(* is the set of writers whose copy still has it.                          *)
(***************************************************************************)
CONSTANTS Writer,   \* the threads that call set_status
          Field, Value, Unset, Update,
          NoCopy    \* a writer that is not inside set_status

ASSUME StatusAssumption ==
  /\ Unset \in Value
  /\ \A u \in Update : DOMAIN u \subseteq Field /\ \A f \in DOMAIN u : u[f] \in Value
  /\ NoCopy \notin [Field -> Value]

VARIABLES status,   \* what the API server stores
          obj,      \* obj[w]: the status of the copy w holds, or NoCopy
          fresh     \* the writers whose copy has the current resourceVersion

vars == <<status, obj, fresh>>

Store == INSTANCE StatusStore
Merge(base, patch) == Store!Merge(base, patch)

Init == /\ status = [f \in Field |-> Unset]
        /\ obj = [w \in Writer |-> NoCopy]
        /\ fresh = {}

\* _get.
Get(w) ==
  /\ obj[w] = NoCopy
  /\ obj' = [obj EXCEPT ![w] = status]
  /\ fresh' = fresh \cup {w}
  /\ UNCHANGED status

\* Mutant: the resourceVersion is not sent, so that no patch is refused and
\* the whole copy overwrites what is stored.
Patch_Unversioned(w, u) ==
  /\ obj[w] # NoCopy
  /\ status' = Merge(obj[w], u)
  /\ obj' = [obj EXCEPT ![w] = NoCopy]
  /\ fresh' = {}

\* _patch_status with the merged copy.  The server merges the body into what
\* it stores and gives the object a new resourceVersion.
Patch(w, u) ==
  /\ obj[w] # NoCopy
  /\ w \in fresh
  /\ status' = Merge(status, Merge(obj[w], u))
  /\ obj' = [obj EXCEPT ![w] = NoCopy]
  /\ fresh' = {}

\* The server refuses a stale copy or fails the request, and set_status raises.
\* (When only the answer is lost, Patch is the step and its caller sees an
\* exception: see CommandDispatch.)
Refuse(w) ==
  /\ obj[w] # NoCopy
  /\ obj' = [obj EXCEPT ![w] = NoCopy]
  /\ UNCHANGED <<status, fresh>>

\* Any other write of the object: an edit of its spec, a finalizer or an
\* annotation of kopf's.
Touch ==
  /\ fresh' = {}
  /\ UNCHANGED <<status, obj>>

Next == \/ \E w \in Writer : Get(w) \/ Refuse(w)
        \/ \E w \in Writer, u \in Update : Patch(w, u)
        \/ Touch

Spec == Init /\ [][Next]_vars
-----------------------------------------------------------------------------
TypeOK == /\ status \in [Field -> Value]
          /\ obj \in [Writer -> [Field -> Value] \cup {NoCopy}]
          /\ fresh \subseteq Writer

\* A copy whose resourceVersion is current is what is stored, so that a patch
\* the server accepts was computed from the fields it replaces.
FreshIsCurrent ==
  \A w \in fresh : obj[w] # NoCopy => obj[w] = status

\* No field is lost or brought back: each accepted patch is one atomic merge
\* (crd.py set_status, against the timer and the handlers racing it).
AtomicMerge == Store!Spec
=============================================================================
