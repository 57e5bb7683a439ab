---------------------------- MODULE MCHashTable ----------------------------
(***************************************************************************)
(* Four keys in two slots: a chain of three nodes, whose first, middle and *)
(* last is each removed, beside a slot of its own.                         *)
(***************************************************************************)
EXTENDS HashTable

CONSTANTS alpha, beta, gamma, x

MCKey == {alpha, beta, gamma, x}
MCHash(key) == IF key = x THEN 0 ELSE 1
=============================================================================
