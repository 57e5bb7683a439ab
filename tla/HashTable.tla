----------------------------- MODULE HashTable -----------------------------
(***************************************************************************)
(* The hash table of utils/hashtable.c: an array of chains.  The tokenizer *)
(* keeps its keywords in one, the code generator a scope's symbols.  A     *)
(* chain is the sequence of its nodes; strcmp of two keys is their         *)
(* equality.  hash() is a constant: any function into the slots.           *)
(***************************************************************************)
EXTENDS Integers, Sequences, SequencesExt

CONSTANTS
  Key, Value, NULL,
  capacity,  \* the number of slots
  hash(_),   \* the slot of a key
  MaxSize    \* bound: no node is created once `size` is MaxSize

ASSUME HashAssumption ==
  /\ capacity \in Nat \ {0}
  /\ \A key \in Key : hash(key) \in 0..capacity - 1
  /\ NULL \notin Value
  /\ MaxSize \in Nat

VARIABLES
  nodes,  \* hashtable->nodes, a chain for each slot
  size,   \* hashtable->size
  answer  \* the last call and what it returned

vars == <<nodes, size, answer>>

node_t == [key : Key, value : Value]
create_node(key, value) == [key |-> key, value |-> value]

\* Where the loops over a chain stop for a key, or 0, and what get_ht finds
\* there.
At(chain, key) == SelectInSeq(chain, LAMBDA node : node.key = key)
Found(chain, key) == IF At(chain, key) = 0 THEN NULL ELSE chain[At(chain, key)].value

Chain(key) == nodes[hash(key)]
Position(key) == At(Chain(key), key)
Stored(key) == Found(Chain(key), key)

create_ht ==
  /\ nodes = [slot \in 0..capacity - 1 |-> <<>>]
  /\ size = 0
  /\ answer = <<>>

\* Mutant: a node is added without a search of the chain.
add_ht_blind(key, value) ==
  /\ answer' = <<"add_ht", key, value>>
  /\ size < MaxSize
  /\ nodes' = [nodes EXCEPT ![hash(key)] = Append(@, create_node(key, value))]
  /\ size' = size + 1

\* The value of an existing node is replaced; a new node ends the chain.
add_ht(key, value) ==
  /\ answer' = <<"add_ht", key, value>>
  /\ \/ /\ Position(key) # 0
        /\ nodes' = [nodes EXCEPT ![hash(key)][Position(key)].value = value]
        /\ UNCHANGED size
     \/ /\ Position(key) = 0
        /\ size < MaxSize
        /\ nodes' = [nodes EXCEPT ![hash(key)] = Append(@, create_node(key, value))]
        /\ size' = size + 1

get_ht(key) ==
  /\ answer' = <<"get_ht", key, Stored(key)>>
  /\ UNCHANGED <<nodes, size>>

\* Mutants: the chain is cut at the node; the count of an absent key is taken
\* back.
remove_ht_cuts(key) ==
  /\ answer' = <<"remove_ht", key, Position(key) # 0>>
  /\ nodes' = [nodes EXCEPT ![hash(key)] =
                 IF Position(key) = 0 THEN @ ELSE SubSeq(@, 1, Position(key) - 1)]
  /\ UNCHANGED size
remove_ht_counts(key) ==
  /\ answer' = <<"remove_ht", key, Position(key) # 0>>
  /\ nodes' = [nodes EXCEPT ![hash(key)] =
                 IF Position(key) = 0 THEN @ ELSE RemoveAt(@, Position(key))]
  /\ size' = size - 1

\* The node is unlinked; `size` keeps counting it.
remove_ht(key) ==
  /\ UNCHANGED size
  /\ \/ /\ Position(key) = 0
        /\ answer' = <<"remove_ht", key, FALSE>>
        /\ UNCHANGED nodes
     \/ /\ Position(key) # 0
        /\ answer' = <<"remove_ht", key, TRUE>>
        /\ nodes' = [nodes EXCEPT ![hash(key)] = RemoveAt(@, Position(key))]

Next ==
  \E key \in Key :
    \/ \E value \in Value : add_ht(key, value)
    \/ get_ht(key)
    \/ remove_ht(key)

Spec == create_ht /\ [][Next]_vars

-----------------------------------------------------------------------------
\* Type invariant: `size` is unsigned and never counted below 0.
TypeOK ==
  /\ nodes \in [0..capacity - 1 -> Seq(node_t)]
  /\ size \in Nat

(***************************************************************************)
(* A key is in the slot of its hash, in one node at most: with two, an old *)
(* value would come back when the first node is removed (the search in     *)
(* add_ht, over nodes added and unlinked in any order).                    *)
(***************************************************************************)
OneNodePerKey ==
  \A slot \in 0..capacity - 1 : \A j \in DOMAIN nodes[slot] :
    /\ hash(nodes[slot][j].key) = slot
    /\ \A k \in DOMAIN nodes[slot] : nodes[slot][j].key = nodes[slot][k].key => j = k

(***************************************************************************)
(* The table is a dictionary: whatever keys collide, each call changes and *)
(* answers for its own key only.                                           *)
(***************************************************************************)
D == INSTANCE Dictionary WITH map <- [key \in Key |-> Stored(key)]
DictionarySpec == D!Spec
=============================================================================
