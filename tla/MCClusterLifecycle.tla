------------------------- MODULE MCClusterLifecycle -------------------------
(***************************************************************************)
(* Sizes on both sides of the default of one replica, a spec with both     *)
(* volumes and one that leaves one out, and one fault or restart anywhere. *)
(***************************************************************************)
EXTENDS ClusterLifecycle

BothOrOne == {Volume, {"config_pvc"}}
=============================================================================
