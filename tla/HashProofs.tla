----------------------------- MODULE HashProofs -----------------------------
(***************************************************************************)
(* The hash table implements a dictionary, for any keys, values, number of *)
(* slots and hash function.                                                *)
(***************************************************************************)
EXTENDS HashTable, SequenceTheorems, TLAPS

HashInv == TypeOK /\ OneNodePerKey

slots == 0..capacity - 1

-----------------------------------------------------------------------------
(* Chains *)

\* A chain of nodes whose keys all differ.
Distinct(c) == \A j, k \in DOMAIN c : c[j].key = c[k].key => j = k

\* The loops over a chain of distinct keys stop at the one node of the key.
LEMMA AtNode ==
  ASSUME NEW c \in Seq(node_t), Distinct(c), NEW j \in DOMAIN c
  PROVE  At(c, c[j].key) = j
<1> DEFINE I == {k \in 1..Len(c) : c[k].key = c[j].key}
<1>1. I = {j}
  BY DEF Distinct
<1>2. j \in Nat /\ j # 0
  OBVIOUS
<1>3. Min(I) = j
  BY <1>1, <1>2 DEF Min
<1> QED BY <1>1, <1>3 DEF At, SelectInSeq

\* They stop at its end for a key that is not there.
LEMMA AtNone ==
  ASSUME NEW c \in Seq(node_t), NEW key, \A j \in DOMAIN c : c[j].key # key
  PROVE  At(c, key) = 0
<1>1. {k \in 1..Len(c) : c[k].key = key} = {}
  OBVIOUS
<1> QED BY <1>1 DEF At, SelectInSeq

\* Where they stop, if not at the end, is a node of the key.
LEMMA AtFound ==
  ASSUME NEW c \in Seq(node_t), Distinct(c), NEW key
  PROVE  \/ At(c, key) = 0 /\ \A j \in DOMAIN c : c[j].key # key
         \/ At(c, key) \in DOMAIN c /\ At(c, key) # 0 /\ c[At(c, key)].key = key
<1>1. CASE \A j \in DOMAIN c : c[j].key # key
  BY <1>1, AtNone
<1>2. CASE \E j \in DOMAIN c : c[j].key = key
  <2>1. PICK j \in DOMAIN c : c[j].key = key
    BY <1>2
  <2> QED BY <2>1, AtNode
<1> QED BY <1>1, <1>2

\* What is found in a chain is known from any description of its nodes.
LEMMA FoundIs ==
  ASSUME NEW c \in Seq(node_t), Distinct(c), NEW j \in DOMAIN c
  PROVE  Found(c, c[j].key) = c[j].value
BY AtNode DEF Found

LEMMA FoundNone ==
  ASSUME NEW c \in Seq(node_t), NEW key, \A j \in DOMAIN c : c[j].key # key
  PROVE  Found(c, key) = NULL
BY AtNone DEF Found

\* Two chains hold the same for a key if they have the same nodes of it.
LEMMA FoundSame ==
  ASSUME NEW c \in Seq(node_t), Distinct(c), NEW d \in Seq(node_t), Distinct(d), NEW key,
         \A j \in DOMAIN c : c[j].key = key => \E k \in DOMAIN d : d[k] = c[j],
         \A k \in DOMAIN d : d[k].key = key => \E j \in DOMAIN c : c[j] = d[k]
  PROVE  Found(c, key) = Found(d, key)
<1>1. CASE \A j \in DOMAIN c : c[j].key # key
  <2>1. \A k \in DOMAIN d : d[k].key # key
    BY <1>1
  <2> QED BY <1>1, <2>1, FoundNone
<1>2. CASE \E j \in DOMAIN c : c[j].key = key
  <2>1. PICK j \in DOMAIN c : c[j].key = key
    BY <1>2
  <2>2. PICK k \in DOMAIN d : d[k] = c[j]
    BY <2>1
  <2>3. Found(c, c[j].key) = c[j].value
    BY FoundIs
  <2>4. Found(d, d[k].key) = d[k].value
    BY FoundIs
  <2> QED BY <2>1, <2>2, <2>3, <2>4
<1> QED BY <1>1, <1>2

-----------------------------------------------------------------------------
(* What the operations do to one chain *)

\* The chain d holds v for the key, and what c holds for every other key.
Holds(d, c, key, v) ==
  /\ d \in Seq(node_t)
  /\ Distinct(d)
  /\ Found(d, key) = v
  /\ \A k \in Key \ {key} : Found(d, k) = Found(c, k)

\* add_ht on a chain that has the key.
LEMMA Replaced ==
  ASSUME NEW c \in Seq(node_t), Distinct(c), NEW p \in DOMAIN c, NEW v \in Value
  PROVE  Holds([c EXCEPT ![p].value = v], c, c[p].key, v)
<1> DEFINE d == [c EXCEPT ![p].value = v]
<1>1. /\ d \in Seq(node_t)
      /\ DOMAIN d = DOMAIN c
      /\ \A j \in DOMAIN c : d[j].key = c[j].key /\ (j # p => d[j] = c[j])
      /\ d[p].value = v
  <2>1. c[p] \in node_t /\ DOMAIN c = 1..Len(c) /\ Len(c) \in Nat
    OBVIOUS
  <2>2. /\ [c[p] EXCEPT !.value = v] \in node_t
        /\ [c[p] EXCEPT !.value = v].key = c[p].key
        /\ [c[p] EXCEPT !.value = v].value = v
    BY <2>1 DEF node_t
  <2>3. PICK m \in node_t : m = [c[p] EXCEPT !.value = v]
    BY <2>2
  <2>4. d = [c EXCEPT ![p] = m]
    BY <2>3
  <2> HIDE DEF d
  <2> QED BY <2>1, <2>2, <2>3, <2>4
<1>2. Distinct(d)
  BY <1>1 DEF Distinct
<1>3. Found(d, d[p].key) = d[p].value
  BY ONLY <1>1, <1>2, p \in DOMAIN c, FoundIs
<1>4. ASSUME NEW k \in Key \ {c[p].key}
      PROVE  Found(d, k) = Found(c, k)
  <2> HIDE DEF d
  <2>1. \A j \in DOMAIN c : c[j].key = k => d[j] = c[j]
    BY <1>1
  <2>2. \A j \in DOMAIN d : d[j].key = k => c[j] = d[j]
    BY <1>1
  <2> QED BY <1>1, <1>2, <2>1, <2>2, FoundSame
<1> QED BY <1>1, <1>2, <1>3, <1>4 DEF Holds

\* add_ht on a chain that does not have it.
LEMMA Appended ==
  ASSUME NEW c \in Seq(node_t), Distinct(c), NEW key \in Key, NEW v \in Value,
         \A j \in DOMAIN c : c[j].key # key
  PROVE  Holds(Append(c, create_node(key, v)), c, key, v)
<1> DEFINE node == create_node(key, v)
           d == Append(c, node)
<1>1. node \in node_t /\ node.key = key /\ node.value = v
  BY DEF create_node, node_t
<1> HIDE DEF node
<1>2. /\ d \in Seq(node_t)
      /\ DOMAIN d = 1..Len(c) + 1
      /\ DOMAIN c = 1..Len(c) /\ Len(c) \in Nat
      /\ \A j \in DOMAIN c : d[j] = c[j]
      /\ d[Len(c) + 1] = node
  BY <1>1
<1> HIDE DEF d
<1>3. \A j \in DOMAIN d : j = Len(c) + 1 \/ j \in DOMAIN c
  BY <1>2
<1>4. Distinct(d)
  BY <1>1, <1>2, <1>3 DEF Distinct
<1>5. Found(d, d[Len(c) + 1].key) = d[Len(c) + 1].value
  <2>1. Len(c) + 1 \in DOMAIN d
    BY <1>2
  <2> QED BY <1>2, <1>4, <2>1, FoundIs
<1>6. ASSUME NEW k \in Key \ {key}
      PROVE  Found(d, k) = Found(c, k)
  <2>1. \A j \in DOMAIN c : c[j].key = k => j \in DOMAIN d /\ d[j] = c[j]
    BY <1>2
  <2>2. \A j \in DOMAIN d : d[j].key = k => j \in DOMAIN c /\ c[j] = d[j]
    BY <1>1, <1>2, <1>3
  <2> QED BY <1>2, <1>4, <2>1, <2>2, FoundSame
<1> QED BY <1>1, <1>2, <1>4, <1>5, <1>6 DEF Holds, d, node

\* remove_ht on a chain that has the key.
LEMMA Unlinked ==
  ASSUME NEW c \in Seq(node_t), Distinct(c), NEW p \in DOMAIN c
  PROVE  Holds(RemoveAt(c, p), c, c[p].key, NULL)
<1> DEFINE d == RemoveAt(c, p)
<1>1. /\ d \in Seq(node_t)
      /\ DOMAIN d = 1..Len(c) - 1
      /\ DOMAIN c = 1..Len(c) /\ Len(c) \in Nat
      /\ \A j \in DOMAIN d : d[j] = IF j < p THEN c[j] ELSE c[j + 1]
  <2>1. p \in 1..Len(c) /\ DOMAIN c = 1..Len(c) /\ Len(c) \in Nat
    OBVIOUS
  <2>2. \A j \in 1..p - 1 : c[j] \in node_t
    BY <2>1
  <2>3. \A j \in p + 1..Len(c) : c[j] \in node_t
    BY <2>1
  <2>4. PICK a \in Seq(node_t) : a = SubSeq(c, 1, p - 1) /\ Len(a) = p - 1
                                 /\ \A j \in 1..p - 1 : a[j] = c[j]
    <3>1. p - 1 \in Int /\ 1 \in Int /\ (1 <= p - 1 \/ p - 1 = 0)
      BY <2>1
    <3>2. /\ SubSeq(c, 1, p - 1) \in Seq(node_t)
          /\ Len(SubSeq(c, 1, p - 1)) = IF 1 <= p - 1 THEN p - 1 - 1 + 1 ELSE 0
          /\ \A j \in 1..p - 1 - 1 + 1 : SubSeq(c, 1, p - 1)[j] = c[1 + j - 1]
      BY <2>2, <3>1, SubSeqProperties
    <3>3. Len(SubSeq(c, 1, p - 1)) = p - 1
      BY ONLY <2>1, <3>1, <3>2
    <3>4. \A j \in 1..p - 1 : SubSeq(c, 1, p - 1)[j] = c[j]
      <4> SUFFICES ASSUME NEW j \in 1..p - 1
                   PROVE  SubSeq(c, 1, p - 1)[j] = c[j]
        OBVIOUS
      <4>1. j \in 1..p - 1 - 1 + 1 /\ 1 + j - 1 = j
        BY <2>1
      <4> QED BY ONLY <3>2, <4>1
    <3> QED BY <3>2, <3>3, <3>4
  <2>5. PICK b \in Seq(node_t) : b = SubSeq(c, p + 1, Len(c)) /\ Len(b) = Len(c) - p
                                 /\ \A j \in 1..Len(c) - p : b[j] = c[p + j]
    <3>1. p + 1 \in Int /\ Len(c) \in Int
      BY <2>1
    <3>2. /\ SubSeq(c, p + 1, Len(c)) \in Seq(node_t)
          /\ Len(SubSeq(c, p + 1, Len(c))) = IF p + 1 <= Len(c) THEN Len(c) - (p + 1) + 1 ELSE 0
          /\ \A j \in 1..Len(c) - (p + 1) + 1 : SubSeq(c, p + 1, Len(c))[j] = c[p + 1 + j - 1]
      BY <2>3, <3>1, SubSeqProperties
    <3>3. Len(SubSeq(c, p + 1, Len(c))) = Len(c) - p
      BY ONLY <2>1, <3>1, <3>2
    <3>4. \A j \in 1..Len(c) - p : SubSeq(c, p + 1, Len(c))[j] = c[p + j]
      <4> SUFFICES ASSUME NEW j \in 1..Len(c) - p
                   PROVE  SubSeq(c, p + 1, Len(c))[j] = c[p + j]
        OBVIOUS
      <4>1. j \in 1..Len(c) - (p + 1) + 1 /\ p + 1 + j - 1 = p + j
        BY <2>1
      <4> QED BY ONLY <3>2, <4>1
    <3> QED BY <3>2, <3>3, <3>4
  <2>6. d = a \o b
    BY <2>4, <2>5 DEF RemoveAt
  <2> HIDE DEF d
  <2>7. /\ d \in Seq(node_t) /\ Len(d) = Len(c) - 1 /\ DOMAIN d = 1..Len(c) - 1
        /\ \A j \in 1..Len(c) - 1 : d[j] = IF j <= p - 1 THEN a[j] ELSE b[j - (p - 1)]
    <3>1. /\ d \in Seq(node_t)
          /\ Len(d) = Len(a) + Len(b)
          /\ \A j \in 1..Len(a) + Len(b) : d[j] = IF j <= Len(a) THEN a[j] ELSE b[j - Len(a)]
      BY <2>6, ConcatProperties
    <3>2. Len(a) = p - 1 /\ Len(b) = Len(c) - p /\ p \in Nat /\ Len(c) \in Nat
      <4>1. Len(a) = p - 1
        BY ONLY <2>4
      <4>2. Len(b) = Len(c) - p
        BY ONLY <2>5
      <4> QED BY <2>1, <4>1, <4>2
    <3>3. Len(a) + Len(b) = Len(c) - 1
      BY ONLY <3>2
    <3>4. DOMAIN d = 1..Len(d)
      BY <3>1
    <3>5. \A j \in 1..Len(c) - 1 : d[j] = IF j <= p - 1 THEN a[j] ELSE b[j - (p - 1)]
      BY ONLY <3>1, <3>2, <3>3
    <3> QED BY ONLY <3>1, <3>3, <3>4, <3>5
  <2>8. ASSUME NEW j \in DOMAIN d
        PROVE  d[j] = IF j < p THEN c[j] ELSE c[j + 1]
    <3>1. CASE j < p
      <4>1. j \in 1..Len(c) - 1 /\ j <= p - 1 /\ j \in 1..p - 1
        BY <2>1, <2>7, <3>1
      <4>2. d[j] = a[j]
        BY ONLY <2>7, <4>1
      <4>3. a[j] = c[j]
        BY <2>4, <4>1
      <4> QED BY <3>1, <4>2, <4>3
    <3>2. CASE ~(j < p)
      <4>0. j \in 1..Len(c) - 1 /\ ~(j <= p - 1)
        BY <2>1, <2>7, <3>2
      <4>1. d[j] = b[j - (p - 1)] /\ j - (p - 1) \in 1..Len(c) - p
        <5>1. d[j] = b[j - (p - 1)]
          BY ONLY <2>7, <4>0
        <5>2. j - (p - 1) \in 1..Len(c) - p
          BY ONLY <2>1, <3>2, <4>0
        <5> QED BY <5>1, <5>2
      <4>2. p + (j - (p - 1)) = j + 1
        BY <2>1, <2>7
      <4> QED BY <2>1, <2>5, <3>2, <4>1, <4>2
    <3> QED BY <3>1, <3>2
  <2> QED BY <2>1, <2>7, <2>8
<1> HIDE DEF d
<1>2. \A j \in DOMAIN d : \E k \in DOMAIN c \ {p} :
        /\ d[j] = c[k]
        /\ k = IF j < p THEN j ELSE j + 1
  BY <1>1
<1>3. \A k \in DOMAIN c \ {p} : \E j \in DOMAIN d : d[j] = c[k]
  <2>1. ASSUME NEW k \in DOMAIN c \ {p}, k < p
        PROVE  k \in DOMAIN d /\ d[k] = c[k]
    BY <1>1, <2>1
  <2>2. ASSUME NEW k \in DOMAIN c \ {p}, ~(k < p)
        PROVE  k - 1 \in DOMAIN d /\ d[k - 1] = c[k]
    BY <1>1, <2>2
  <2> QED BY <2>1, <2>2
<1>4. Distinct(d)
  <2> SUFFICES ASSUME NEW j \in DOMAIN d, NEW k \in DOMAIN d, d[j].key = d[k].key
               PROVE  j = k
    BY DEF Distinct
  <2>1. PICK r \in DOMAIN c \ {p} : d[j] = c[r] /\ r = IF j < p THEN j ELSE j + 1
    BY <1>2
  <2>2. PICK s \in DOMAIN c \ {p} : d[k] = c[s] /\ s = IF k < p THEN k ELSE k + 1
    BY <1>2
  <2>3. r = s
    BY <2>1, <2>2 DEF Distinct
  <2> QED BY <1>1, <2>1, <2>2, <2>3
<1>5. Found(d, c[p].key) = NULL
  <2>1. \A j \in DOMAIN d : d[j].key # c[p].key
    BY <1>2 DEF Distinct
  <2> QED BY <1>1, <2>1, FoundNone
<1>6. ASSUME NEW k \in Key \ {c[p].key}
      PROVE  Found(d, k) = Found(c, k)
  <2>1. \A j \in DOMAIN c : c[j].key = k => \E r \in DOMAIN d : d[r] = c[j]
    BY <1>3
  <2>2. \A r \in DOMAIN d : d[r].key = k => \E j \in DOMAIN c : c[j] = d[r]
    BY <1>2
  <2> QED BY <1>1, <1>4, <2>1, <2>2, FoundSame
<1> QED BY <1>1, <1>4, <1>5, <1>6 DEF Holds, d

-----------------------------------------------------------------------------
(* The table *)

\* The map the table stands for.
map == [key \in Key |-> Stored(key)]

\* The operators of HashTable on the chain of a key.
LEMMA Chains ==
  ASSUME HashInv, NEW key \in Key
  PROVE  /\ Chain(key) \in Seq(node_t)
         /\ Distinct(Chain(key))
         /\ hash(key) \in slots
         /\ Position(key) = At(Chain(key), key)
         /\ Stored(key) = Found(Chain(key), key)
<1>1. hash(key) \in slots
  BY HashAssumption DEF slots
<1>2. Chain(key) \in Seq(node_t) /\ Distinct(Chain(key))
  BY <1>1 DEF HashInv, TypeOK, OneNodePerKey, Chain, Distinct, slots
<1> QED BY <1>1, <1>2 DEF Position, Stored

\* A step that changes the chain of one key, and in it only what is held for
\* that key, keeps the invariant and changes the map at that key only.
LEMMA OneChain ==
  ASSUME HashInv, NEW key \in Key, NEW d, NEW v, Holds(d, Chain(key), key, v),
         nodes' = [nodes EXCEPT ![hash(key)] = d], size' \in Nat
  PROVE  HashInv' /\ map' = [map EXCEPT ![key] = v]
<1> DEFINE c == Chain(key)
<1>1. /\ c \in Seq(node_t) /\ Distinct(c) /\ hash(key) \in slots
      /\ d \in Seq(node_t) /\ Distinct(d)
  BY Chains DEF Holds
<1>2. nodes \in [slots -> Seq(node_t)] /\ nodes[hash(key)] = c
  BY DEF HashInv, TypeOK, slots, Chain
<1>3. nodes' \in [slots -> Seq(node_t)]
  BY <1>1, <1>2
<1>4. nodes'[hash(key)] = d /\ \A slot \in slots : slot # hash(key) => nodes'[slot] = nodes[slot]
  BY <1>1, <1>2
<1>5. ASSUME NEW j \in DOMAIN d
      PROVE  hash(d[j].key) = hash(key)
  <2>1. CASE d[j].key = key
    BY <2>1
  <2>2. CASE d[j].key # key
    <3>1. d[j] \in node_t
      BY <1>1
    <3>2. d[j].key \in Key /\ d[j].value # NULL
      BY <3>1, HashAssumption DEF node_t
    <3>3. Found(d, d[j].key) = d[j].value
      BY <1>1, FoundIs
    <3>4. Found(c, d[j].key) = d[j].value
      BY <2>2, <3>2, <3>3 DEF Holds
    <3>5. PICK k \in DOMAIN c : c[k].key = d[j].key
      BY <1>1, <3>2, <3>4, FoundNone
    <3>6. hash(c[k].key) = hash(key)
      BY <1>1, <1>2 DEF HashInv, OneNodePerKey, slots
    <3> QED BY <3>5, <3>6
  <2> QED BY <2>1, <2>2
<1>6. OneNodePerKey'
  <2> SUFFICES ASSUME NEW slot \in slots, NEW j \in DOMAIN nodes'[slot]
               PROVE  /\ hash(nodes'[slot][j].key) = slot
                      /\ \A k \in DOMAIN nodes'[slot] : nodes'[slot][j].key = nodes'[slot][k].key => j = k
    BY DEF OneNodePerKey, slots
  <2>1. CASE slot = hash(key)
    BY <1>1, <1>4, <1>5, <2>1 DEF Distinct
  <2>2. CASE slot # hash(key)
    BY <1>4, <2>2 DEF HashInv, OneNodePerKey, slots
  <2> QED BY <2>1, <2>2
<1>7. HashInv'
  BY <1>3, <1>6 DEF HashInv, TypeOK, slots
<1>8. ASSUME NEW k \in Key
      PROVE  Stored(k)' = IF k = key THEN v ELSE Stored(k)
  <2>1. hash(k) \in slots /\ Stored(k) = Found(Chain(k), k)
    BY Chains
  <2>2. Stored(k)' = Found(nodes'[hash(k)], k)
    BY DEF Stored, Chain
  <2>3. CASE k = key
    BY <1>4, <2>2, <2>3 DEF Holds
  <2>4. CASE k # key /\ hash(k) = hash(key)
    <3>1. Chain(k) = c
      BY <2>4 DEF Chain
    <3>2. Found(d, k) = Found(c, k)
      BY <2>4 DEF Holds
    <3> QED BY <1>4, <2>1, <2>2, <2>4, <3>1, <3>2
  <2>5. CASE hash(k) # hash(key)
    BY <1>4, <2>1, <2>2, <2>5 DEF Chain
  <2> QED BY <2>3, <2>4, <2>5
<1> QED BY <1>7, <1>8 DEF map

-----------------------------------------------------------------------------
(* The operations.  Each keeps the invariant and is a step of the dictionary. *)

LEMMA AddStep ==
  ASSUME HashInv, NEW key \in Key, NEW value \in Value, add_ht(key, value)
  PROVE  HashInv' /\ D!Add(key, value)
<1> DEFINE c == Chain(key)
<1>1. /\ c \in Seq(node_t) /\ Distinct(c) /\ hash(key) \in slots
      /\ Position(key) = At(c, key)
  BY Chains
<1>2. nodes \in [slots -> Seq(node_t)] /\ nodes[hash(key)] = c /\ size \in Nat
  BY DEF HashInv, TypeOK, slots, Chain
<1>3. HashInv' /\ map' = [map EXCEPT ![key] = value]
  <2>1. CASE /\ Position(key) # 0
             /\ nodes' = [nodes EXCEPT ![hash(key)][Position(key)].value = value]
             /\ UNCHANGED size
    <3>1. Position(key) \in DOMAIN c /\ c[Position(key)].key = key
      BY <1>1, <2>1, AtFound
    <3>2. Holds([c EXCEPT ![Position(key)].value = value], c, c[Position(key)].key, value)
      BY ONLY <1>1, <3>1, value \in Value, Replaced
    <3>3. nodes' = [nodes EXCEPT ![hash(key)] = [c EXCEPT ![Position(key)].value = value]]
      BY <1>1, <1>2, <2>1
    <3>4. size' \in Nat
      BY <1>2, <2>1
    <3> QED BY ONLY HashInv, key \in Key, <3>1, <3>2, <3>3, <3>4, OneChain
  <2>2. CASE /\ Position(key) = 0
             /\ nodes' = [nodes EXCEPT ![hash(key)] = Append(@, create_node(key, value))]
             /\ size' = size + 1
    <3>1. \A j \in DOMAIN c : c[j].key # key
      BY <1>1, <2>2, AtFound
    <3>2. Holds(Append(c, create_node(key, value)), c, key, value)
      BY <1>1, <3>1, Appended
    <3>3. nodes' = [nodes EXCEPT ![hash(key)] = Append(c, create_node(key, value))]
      BY <1>1, <1>2, <2>2
    <3>4. size' \in Nat
      BY <1>2, <2>2
    <3> QED BY ONLY HashInv, key \in Key, <3>2, <3>3, <3>4, OneChain
  <2> QED BY <2>1, <2>2 DEF add_ht
<1> QED BY <1>3 DEF add_ht, map, D!Add

LEMMA GetStep ==
  ASSUME HashInv, NEW key \in Key, get_ht(key)
  PROVE  HashInv' /\ D!Get(key)
<1>1. HashInv' /\ map' = map
  BY DEF get_ht, HashInv, TypeOK, OneNodePerKey, map, Stored, Position, Chain
<1>2. map[key] = Stored(key)
  BY DEF map
<1> QED BY <1>1, <1>2 DEF get_ht, map, D!Get

LEMMA RemoveStep ==
  ASSUME HashInv, NEW key \in Key, remove_ht(key)
  PROVE  HashInv' /\ D!Remove(key)
<1> DEFINE c == Chain(key)
<1>1. /\ c \in Seq(node_t) /\ Distinct(c) /\ hash(key) \in slots
      /\ Position(key) = At(c, key)
      /\ Stored(key) = Found(c, key)
  BY Chains
<1>2. nodes \in [slots -> Seq(node_t)] /\ nodes[hash(key)] = c /\ size \in Nat /\ size' = size
  BY DEF HashInv, TypeOK, slots, Chain, remove_ht
<1>3. map[key] = Stored(key) /\ map \in [Key -> {map[k] : k \in Key}]
  BY DEF map
<1>4. CASE Position(key) = 0 /\ answer' = <<"remove_ht", key, FALSE>> /\ UNCHANGED nodes
  <2>1. map[key] = NULL
    BY <1>1, <1>3, <1>4 DEF Found
  <2>2. HashInv' /\ map' = map
    BY <1>2, <1>4 DEF HashInv, TypeOK, OneNodePerKey, map, Stored, Position, Chain
  <2>3. map' = [map EXCEPT ![key] = NULL]
    BY <1>3, <2>1, <2>2
  <2> QED BY <1>4, <2>1, <2>2, <2>3 DEF map, D!Remove
<1>5. CASE /\ Position(key) # 0
           /\ answer' = <<"remove_ht", key, TRUE>>
           /\ nodes' = [nodes EXCEPT ![hash(key)] = RemoveAt(@, Position(key))]
  <2>1. Position(key) \in DOMAIN c /\ c[Position(key)].key = key
    BY <1>1, <1>5, AtFound
  <2>2. Found(c, c[Position(key)].key) = c[Position(key)].value
    BY <1>1, <2>1, FoundIs
  <2>3. c[Position(key)] \in node_t
    BY <1>1, <2>1
  <2>4. map[key] # NULL
    BY <1>1, <1>3, <2>1, <2>2, <2>3, HashAssumption DEF node_t
  <2>5. Holds(RemoveAt(c, Position(key)), c, c[Position(key)].key, NULL)
    BY ONLY <1>1, <2>1, Unlinked
  <2>6. nodes' = [nodes EXCEPT ![hash(key)] = RemoveAt(c, Position(key))]
    BY <1>1, <1>2, <1>5
  <2>7. HashInv' /\ map' = [map EXCEPT ![key] = NULL]
    BY <1>2, <2>1, <2>5, <2>6, OneChain
  <2> QED BY <1>5, <2>4, <2>7 DEF map, D!Remove
<1> QED BY <1>4, <1>5 DEF remove_ht

-----------------------------------------------------------------------------
(* The theorems *)

LEMMA Created == create_ht => HashInv /\ D!Init
<1> SUFFICES ASSUME create_ht
             PROVE  HashInv /\ D!Init
  OBVIOUS
<1>1. HashInv
  BY DEF create_ht, HashInv, TypeOK, OneNodePerKey
<1>2. ASSUME NEW key \in Key
      PROVE  Stored(key) = NULL
  <2>1. Stored(key) = Found(Chain(key), key) /\ Chain(key) \in Seq(node_t)
    BY <1>1, Chains
  <2>2. hash(key) \in 0..capacity - 1
    BY HashAssumption
  <2>3. Chain(key) = <<>>
    BY <2>2 DEF create_ht, Chain
  <2>4. \A j \in DOMAIN Chain(key) : Chain(key)[j].key # key
    BY <2>3
  <2> QED BY <2>1, <2>4, FoundNone
<1> QED BY <1>1, <1>2 DEF create_ht, D!Init, D!None

LEMMA HashStep ==
  ASSUME HashInv, [Next]_vars
  PROVE  HashInv' /\ [D!Next]_<<map, answer>>
<1>1. ASSUME NEW key \in Key, NEW value \in Value, add_ht(key, value)
      PROVE  HashInv' /\ D!Next
  BY <1>1, AddStep DEF D!Next
<1>2. ASSUME NEW key \in Key, get_ht(key)
      PROVE  HashInv' /\ D!Next
  BY <1>2, GetStep DEF D!Next
<1>3. ASSUME NEW key \in Key, remove_ht(key)
      PROVE  HashInv' /\ D!Next
  BY <1>3, RemoveStep DEF D!Next
<1>4. CASE UNCHANGED vars
  BY <1>4 DEF vars, HashInv, TypeOK, OneNodePerKey, map, Stored, Position, Chain
<1> QED BY <1>1, <1>2, <1>3, <1>4 DEF Next

(***************************************************************************)
(* The table is always well typed and holds each key in one node at most,  *)
(* in the slot of its hash.                                                *)
(***************************************************************************)
THEOREM KeysAreUnique == Spec => [](TypeOK /\ OneNodePerKey)
<1>1. create_ht => HashInv
  BY Created
<1>2. HashInv /\ [Next]_vars => HashInv'
  BY HashStep
<1>3. HashInv => TypeOK /\ OneNodePerKey
  BY DEF HashInv
<1> QED BY <1>1, <1>2, <1>3, PTL DEF Spec

(***************************************************************************)
(* The table keeps its shape, whatever is added and removed: capacity      *)
(* slots, each a chain of entries, and a size that never falls below 0.    *)
(***************************************************************************)
THEOREM TypeCorrect == Spec => []TypeOK
<1>1. TypeOK /\ OneNodePerKey => TypeOK
  OBVIOUS
<1> QED BY <1>1, KeysAreUnique, PTL

(***************************************************************************)
(* The hash table of hashtable.c implements a dictionary.                  *)
(***************************************************************************)
THEOREM ImplementsDictionary == Spec => DictionarySpec
<1>1. create_ht => HashInv /\ D!Init
  BY Created
<1>2. HashInv /\ [Next]_vars => HashInv' /\ [D!Next]_<<map, answer>>
  BY HashStep
<1> QED BY <1>1, <1>2, PTL DEF Spec, DictionarySpec, D!Spec, map
=============================================================================
