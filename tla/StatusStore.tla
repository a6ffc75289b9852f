---------------------------- MODULE StatusStore ----------------------------
(***************************************************************************)
(* What the callers of JmeterCluster.set_status rely on: the status of a   *)
(* cluster changes by merging the fields of one call into it, in one step. *)
(***************************************************************************)
CONSTANTS Field,  \* the keys of status.cluster
          Value,  \* what a field holds
          Unset,  \* a field no call has named yet
          Update  \* the dicts passed to set_status: functions on some fields

VARIABLE status   \* status[f]: the value of field f

\* merge_patch_object on the fields of status.cluster: what the patch names is
\* overwritten, what it does not name stays.
Merge(base, patch) ==
  [f \in Field |-> IF f \in DOMAIN patch THEN patch[f] ELSE base[f]]

Init == status = [f \in Field |-> Unset]

Next == \E u \in Update : status' = Merge(status, u)

Spec == Init /\ [][Next]_status
=============================================================================
