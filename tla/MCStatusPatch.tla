--------------------------- MODULE MCStatusPatch ---------------------------
(***************************************************************************)
(* Two handler threads and the timer, which write the phase and the count  *)
(* of one cluster and the mark of one pod.                                 *)
(***************************************************************************)
EXTENDS StatusPatch, TLC

MCField  == {"status", "onlineInstances", "pod"}
MCValue  == {"unset", "PENDING", "ONLINE", "0", "1", "TRUE"}

\* on_timer's two answers, and send_script_to_cluster's mark.
MCUpdate == {("status" :> "ONLINE") @@ ("onlineInstances" :> "1"),
             ("status" :> "PENDING") @@ ("onlineInstances" :> "0"),
             ("pod" :> "TRUE")}
=============================================================================
