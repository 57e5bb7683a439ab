----------------------------- MODULE ArrayList -----------------------------
(***************************************************************************)
(* The growing array of pointers (arraylist.c).  `items` is the block of   *)
(* memory: a function from the indices that are inside it.                 *)
(***************************************************************************)
EXTENDS Integers

RESIZE_MUL == 2

\* Memory that is not set yet, and the NULL of get_list.
NoItem == [type |-> "NULL"]

Block(capacity, items) ==
  [k \in 0..capacity - 1 |-> IF k \in DOMAIN items THEN items[k] ELSE NoItem]

init_list(capacity) ==
  [length |-> 0, capacity |-> capacity, items |-> Block(capacity, <<>>)]

grow(list) ==
  LET newcap == list.capacity * RESIZE_MUL
  IN [length |-> list.length, capacity |-> newcap, items |-> Block(newcap, list.items)]

\* Writing outside the block (a capacity of 0 does not grow) has no effect
\* here that get_list would show.
add_list(list, item) ==
  LET room == IF list.length = list.capacity THEN grow(list) ELSE list
  IN [room EXCEPT !.items[room.length] = item, !.length = @ + 1]

get_list(list, index) == IF index < list.length THEN list.items[index] ELSE NoItem
=============================================================================
