------------------------------- MODULE MCDict -------------------------------
(***************************************************************************)
(* A small Dict: hashes that collide at every size and that part at the    *)
(* next one, tables from 1 to 8 buckets, so that growing, shrinking and    *)
(* every point of a rehash between any two calls are reached.              *)
(***************************************************************************)
EXTENDS Dict, TLC

CONSTANTS k1, k2

MCKey   == {k1, k2}
MCHash  == (k1 :> 1) @@ (k2 :> 5)
MCSizes == {1, 2, 4, 8}
=============================================================================
