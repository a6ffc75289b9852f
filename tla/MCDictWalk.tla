----------------------------- MODULE MCDictWalk -----------------------------
(***************************************************************************)
(* Three keys: two that part only in tables of 8 buckets, and one that     *)
(* parts from them in tables of 4; tables from 1 to 8 buckets.             *)
(***************************************************************************)
EXTENDS DictWalk, TLC

CONSTANTS k1, k2, k3

MCKey   == {k1, k2, k3}
MCHash  == (k1 :> 1) @@ (k2 :> 5) @@ (k3 :> 3)
MCSizes == {1, 2, 4, 8}

\* ret is the answer of the last call: no action reads it.
WView == <<dict, canResize, live, walk, stayed>>
=============================================================================
