------------------------------- MODULE KvMap -------------------------------
(***************************************************************************)
(* What src/src/utils/hash_table.h promises: a map from uint32 keys to     *)
(* value pointers.  put stores a value and returns the one it replaced,    *)
(* remove deletes a key and returns its value, get and contains look a key *)
(* up, clear and destroy empty the map.  ret is what the last call         *)
(* returned.                                                               *)
(***************************************************************************)
CONSTANTS Keys, Vals, NoVal

VARIABLES kv, ret

MapPut(k, v) == ret' = kv[k] /\ kv' = [kv EXCEPT ![k] = v]

MapRemove(k) == ret' = kv[k] /\ kv' = [kv EXCEPT ![k] = NoVal]

MapGet(k) == ret' = kv[k] /\ UNCHANGED kv

MapContains(k) == ret' = (kv[k] # NoVal) /\ UNCHANGED kv

MapClear == kv' = [k \in Keys |-> NoVal] /\ UNCHANGED ret

MapNext ==
    \/ \E k \in Keys, v \in Vals : MapPut(k, v)
    \/ \E k \in Keys : MapRemove(k) \/ MapGet(k) \/ MapContains(k)
    \/ MapClear

MapSpec == kv = [k \in Keys |-> NoVal] /\ ret = NoVal /\ [][MapNext]_<<kv, ret>>
=============================================================================
