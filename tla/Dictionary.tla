----------------------------- MODULE Dictionary -----------------------------
(***************************************************************************)
(* What users of the hash table rely on: a finite map from keys to values  *)
(* with NULL for the keys that are absent.  `answer` is the last call and  *)
(* what it returned.                                                       *)
(***************************************************************************)
CONSTANTS Key, Value, NULL

VARIABLES map, answer

None == <<>>

Init ==
  /\ map = [k \in Key |-> NULL]
  /\ answer = None

Add(key, value) ==
  /\ map' = [map EXCEPT ![key] = value]
  /\ answer' = <<"add_ht", key, value>>

Get(key) ==
  /\ answer' = <<"get_ht", key, map[key]>>
  /\ UNCHANGED map

Remove(key) ==
  /\ map' = [map EXCEPT ![key] = NULL]
  /\ answer' = <<"remove_ht", key, map[key] # NULL>>

Next ==
  \E key \in Key :
    \/ \E value \in Value : Add(key, value)
    \/ Get(key)
    \/ Remove(key)

Spec == Init /\ [][Next]_<<map, answer>>
=============================================================================
