---------------------------- MODULE KeyValueMap ----------------------------
(***************************************************************************)
(* What dict.h promises to its callers: a map from keys to values, one     *)
(* value at most per key, whose operations answer from the current map.    *)
(* Nothing here knows of tables, buckets or rehashing.  `ret' is the last  *)
(* answer: the operation, the key it was asked about and its result.       *)
(***************************************************************************)
CONSTANTS Key,    \* the keys callers use
          Val,    \* the values they store
          NoVal   \* NULL: no entry under the key

VARIABLES map,    \* map[k]: the value of k, or NoVal
          ret     \* <<operation, key, result>> of the last call that answers

vars == <<map, ret>>

Init == /\ map = [k \in Key |-> NoVal]
        /\ ret = <<"none", NoVal, NoVal>>

Present(k) == map[k] # NoVal

\* dictAdd: insert-if-absent.
Add(k, v) ==
  \/ /\ ret' = <<"add", k, "DICT_OK">>
     /\ ~ Present(k)
     /\ map' = [map EXCEPT ![k] = v]
  \/ /\ ret' = <<"add", k, "DICT_ERR">>
     /\ Present(k)
     /\ UNCHANGED map

\* dictReplace: overwrite, answering 1 when the key was new and 0 otherwise.
Replace(k, v) ==
  /\ \/ ret' = <<"replace", k, 1>> /\ ~ Present(k)
     \/ ret' = <<"replace", k, 0>> /\ Present(k)
  /\ map' = [map EXCEPT ![k] = v]

\* dictDelete and dictDeleteNoFree.
Delete(k) ==
  /\ \/ ret' = <<"delete", k, "DICT_OK">> /\ Present(k)
     \/ ret' = <<"delete", k, "DICT_ERR">> /\ ~ Present(k)
  /\ map' = [map EXCEPT ![k] = NoVal]

\* dictFind and dictFetchValue.
Find(k) == /\ ret' = <<"find", k, map[k]>>
           /\ UNCHANGED map

\* dictGetRandomKey: some entry of the map, NULL only when there is none.
RandomKey ==
  /\ \/ ret' = <<"random", NoVal, NoVal>> /\ \A k \in Key : ~ Present(k)
     \/ \E k \in Key : Present(k) /\ ret' = <<"random", k, map[k]>>
  /\ UNCHANGED map

\* dictEmpty.
Clear == /\ UNCHANGED ret
         /\ map' = [k \in Key |-> NoVal]

Next == \/ \E k \in Key, v \in Val : Add(k, v) \/ Replace(k, v)
        \/ \E k \in Key : Delete(k) \/ Find(k)
        \/ RandomKey
        \/ Clear

Spec == Init /\ [][Next]_vars
=============================================================================
