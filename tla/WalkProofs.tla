----------------------------- MODULE WalkProofs -----------------------------
(***************************************************************************)
(* What the walk of the code generator has to bring to an end, for         *)
(* every set of programs the parser can build.  Every local has its slot   *)
(* inside the frame of its function: what compute_frame_size counts before *)
(* the walk is never less than what the walk defines.  And every jump has  *)
(* its label: what gen_if and gen_func_decl make of labels they define     *)
(* once, later and in the same function.  Names are resolved lexically,    *)
(* and the stack is as high at a jump as at its label.                     *)
(***************************************************************************)
EXTENDS CodegenProofs

-----------------------------------------------------------------------------
(* What a frame still has to declare *)

Stored(fr) == IF fr.loc = Fresh THEN 0 ELSE fr.loc

(***************************************************************************)
(* The bytes of locals that the frame and the calls it has still to make   *)
(* may define: what count_locals counts of it, less what is behind it.     *)
(***************************************************************************)
Rem(fr) ==
  CASE fr.node.type = "AST_VAR_DECL"  -> IF fr.at = 0 THEN 8 ELSE 0
    [] fr.node.type = "AST_BLOCK"     -> BlockLocals(fr.node) - LocalsSum(fr.node, fr.at)
    [] fr.node.type = "AST_FUNC_DECL" ->
         BlockLocals(fr.node.block) - LocalsSum(fr.node.block, fr.at)
         + 8 * (Len(fr.node.func_t.params) - Stored(fr))
    [] fr.node.type = "AST_IF"        ->
         (IF fr.at <= 1 THEN BlockLocals(fr.node.then_branch) ELSE 0)
         + (IF fr.at <= 2 THEN BlockLocals(fr.node.else_branch) ELSE 0)
    [] OTHER                          -> 0

\* A frame has called gen_* on no more sub-nodes than there are.
Within(fr) ==
  /\ fr.node.type \in {"AST_BLOCK", "AST_FUNC_DECL"} => fr.at <= Len(Subs(fr.node))
  /\ fr.node.type = "AST_FUNC_DECL" => fr.loc = Fresh \/ fr.loc \in 0..Len(fr.node.func_t.params)

\* What Rem depends on.
Framed(fr) == fr.node \in Node /\ fr.at \in Nat /\ fr.loc \in Int

LEMMA BlockTyped ==
  ASSUME NEW b, IsBlock(b)
  PROVE  /\ b \in Node /\ b.type = "AST_BLOCK" /\ b # Null
         /\ Subs(b) = b.nodes /\ b.nodes \in Seq(Node) /\ Len(b.nodes) \in Nat
         /\ BlockLocals(b) = LocalsSum(b, Len(b.nodes)) /\ BlockLocals(b) \in Nat
  <1>1. b \in Node /\ b.type = "AST_BLOCK" /\ b # Null
    BY DEF IsBlock, Null
  <1>2. Subs(b) = b.nodes
    BY <1>1 DEF Subs
  <1>3. b.nodes \in Seq(Node)
    BY <1>1, <1>2, SubsTyped
  <1>4. Len(b.nodes) \in Nat /\ Len(b.nodes) \in 0..Len(b.nodes)
    BY <1>3
  <1>5. BlockLocals(b) = LocalsSum(b, Len(b.nodes))
    BY <1>1 DEF BlockLocals
  <1> QED
    BY <1>1, <1>2, <1>3, <1>4, <1>5, LocalsSumAssumption

\* A node counts as many bytes as a frame that begins with it has to declare.
LEMMA CountNat ==
  ASSUME NEW n \in Node
  PROVE  count_locals(n) \in Nat
  <1>1. WellFormed(n)
    BY ProgramsAssumption
  <1>2. CASE n.type = "AST_BLOCK"
    BY <1>2, BlockTyped DEF count_locals, IsBlock
  <1>3. CASE n.type = "AST_IF"
    <2>1. BlockLocals(n.then_branch) \in Nat
      BY <1>1, <1>3, BlockTyped DEF WellFormed
    <2>2. BlockLocals(n.else_branch) \in Nat
      <3>1. CASE n.else_branch = Null
        BY <3>1 DEF BlockLocals
      <3>2. CASE IsBlock(n.else_branch)
        BY <3>2, BlockTyped
      <3> QED
        BY <1>1, <1>3, <3>1, <3>2 DEF WellFormed
    <2> QED
      BY <1>3, <2>1, <2>2 DEF count_locals
  <1> QED
    BY <1>2, <1>3 DEF count_locals

\* One more iteration of count_locals adds what the node counts.
LEMMA SumStep ==
  ASSUME NEW b, IsBlock(b), NEW k \in Nat, k < Len(b.nodes)
  PROVE  /\ b.nodes[k + 1] \in Node
         /\ LocalsSum(b, k) \in Nat /\ LocalsSum(b, k + 1) \in Nat
         /\ LocalsSum(b, k + 1) = LocalsSum(b, k) + count_locals(b.nodes[k + 1])
  <1>1. b \in Node /\ b.type = "AST_BLOCK" /\ b.nodes \in Seq(Node) /\ Len(b.nodes) \in Nat
    BY BlockTyped
  <1>2. /\ k + 1 \in 1..Len(b.nodes) /\ k + 1 \in 0..Len(b.nodes) /\ k \in 0..Len(b.nodes)
        /\ (k + 1) - 1 = k
    BY <1>1
  <1>3. b.nodes[k + 1] \in Node
    BY <1>1, <1>2
  <1>4. LocalsSum(b, k + 1) = LocalsSum(b, (k + 1) - 1) + count_locals(b.nodes[k + 1])
    BY <1>1, <1>2, LocalsSumAssumption
  <1>5. LocalsSum(b, k) \in Nat /\ LocalsSum(b, k + 1) \in Nat
    BY <1>1, <1>2, LocalsSumAssumption
  <1> QED
    BY <1>2, <1>3, <1>4, <1>5

(***************************************************************************)
(* The sums only grow: of the places from which a sum falls below an       *)
(* earlier one, consider the last.                                         *)
(***************************************************************************)
LEMMA SumsGrow ==
  ASSUME NEW b, IsBlock(b), NEW k \in 0..Len(b.nodes)
  PROVE  LocalsSum(b, k) \in Nat /\ LocalsSum(b, k) <= BlockLocals(b)
  <1> DEFINE n == Len(b.nodes)
             S(j) == LocalsSum(b, j)
             T == {j \in 0..n : ~(S(j) <= S(n))}
  <1>1. n \in Nat /\ n \in 0..n /\ BlockLocals(b) = S(n)
    BY BlockTyped
  <1>2. \A j \in 0..n : S(j) \in Nat
    BY BlockTyped, LocalsSumAssumption
  <1>3. T = {}
    <2> SUFFICES ASSUME T # {}
                 PROVE  FALSE
      OBVIOUS
    <2>1. T \subseteq 0..n
      OBVIOUS
    <2>2. PICK j \in T : \A y \in T : j >= y
      <3> HIDE DEF T
      <3> QED
        BY <1>1, <2>1, Greatest
    <2>3. j \in 0..n /\ ~(S(j) <= S(n))
      OBVIOUS
    <2>4. j \in Nat /\ j < n
      BY <1>1, <1>2, <2>3
    <2>5. b.nodes[j + 1] \in Node /\ S(j + 1) = S(j) + count_locals(b.nodes[j + 1])
      BY <2>4, SumStep
    <2>6. count_locals(b.nodes[j + 1]) \in Nat
      BY <2>5, CountNat
    <2> HIDE DEF S
    <2>7. j + 1 \in 0..n /\ S(j + 1) \in Nat /\ S(j) \in Nat /\ S(n) \in Nat
      BY <1>1, <1>2, <2>4
    <2>8. ~(S(j + 1) <= S(n))
      BY <2>3, <2>5, <2>6, <2>7
    <2>9. j + 1 \in T
      BY <2>7, <2>8
    <2>10. j >= j + 1
      BY <2>2, <2>9
    <2> QED
      BY <2>4, <2>10
  <1> QED
    BY <1>1, <1>2, <1>3

LEMMA RemNat ==
  ASSUME NEW fr, Framed(fr), Within(fr)
  PROVE  Rem(fr) \in Nat
  <1>1. WellFormed(fr.node)
    BY ProgramsAssumption DEF Framed
  <1>2. CASE fr.node.type = "AST_BLOCK"
    <2>1. IsBlock(fr.node)
      BY <1>2 DEF Framed, IsBlock
    <2>2. /\ Len(fr.node.nodes) \in Nat /\ BlockLocals(fr.node) \in Nat
          /\ Subs(fr.node) = fr.node.nodes
      BY <2>1, BlockTyped
    <2>3. fr.at \in 0..Len(fr.node.nodes)
      BY <1>2, <2>2 DEF Framed, Within
    <2>4. LocalsSum(fr.node, fr.at) \in Nat /\ LocalsSum(fr.node, fr.at) <= BlockLocals(fr.node)
      BY <2>1, <2>3, SumsGrow
    <2> QED
      BY <1>2, <2>2, <2>4 DEF Rem
  <1>3. CASE fr.node.type = "AST_FUNC_DECL"
    <2> DEFINE b == fr.node.block
               ps == Len(fr.node.func_t.params)
    <2>1. IsBlock(b) /\ ps \in Nat
      BY <1>1, <1>3 DEF WellFormed
    <2>2. Len(b.nodes) \in Nat /\ BlockLocals(b) \in Nat
      BY <2>1, BlockTyped
    <2>3. Subs(fr.node) = b.nodes
      BY <1>3 DEF Subs
    <2>4. fr.at \in 0..Len(b.nodes)
      BY <1>3, <2>2, <2>3 DEF Framed, Within
    <2>5. LocalsSum(b, fr.at) \in Nat /\ LocalsSum(b, fr.at) <= BlockLocals(b)
      BY <2>1, <2>4, SumsGrow
    <2>6. Stored(fr) \in 0..ps
      BY <1>3, <2>1 DEF Within, Stored
    <2>7. Rem(fr) = BlockLocals(b) - LocalsSum(b, fr.at) + 8 * (ps - Stored(fr))
      BY <1>3 DEF Rem
    <2> HIDE DEF b, ps
    <2> QED
      BY <2>1, <2>2, <2>5, <2>6, <2>7
  <1>4. CASE fr.node.type = "AST_IF"
    <2>1. BlockLocals(fr.node.then_branch) \in Nat
      BY <1>1, <1>4, BlockTyped DEF WellFormed
    <2>2. BlockLocals(fr.node.else_branch) \in Nat
      <3>1. CASE fr.node.else_branch = Null
        BY <3>1 DEF BlockLocals
      <3>2. CASE IsBlock(fr.node.else_branch)
        BY <3>2, BlockTyped
      <3> QED
        BY <1>1, <1>4, <3>1, <3>2 DEF WellFormed
    <2> QED
      BY <1>4, <2>1, <2>2 DEF Rem
  <1> QED
    BY <1>2, <1>3, <1>4 DEF Rem

\* A frame that begins has to declare what count_locals counts.
LEMMA RemBegin ==
  ASSUME NEW n \in Node, n.type # "AST_FUNC_DECL", NEW depth
  PROVE  /\ Rem(Frame(n, depth)) = count_locals(n)
         /\ Within(Frame(n, depth)) /\ Framed(Frame(n, depth))
  <1> DEFINE fr == Frame(n, depth)
  <1>1. fr.node = n /\ fr.at = 0 /\ fr.loc = Fresh /\ Fresh \in Int
    BY DEF Frame, Fresh
  <1> HIDE DEF fr
  <1>2. Len(Subs(n)) \in Nat
    BY SubsTyped
  <1>3. Within(fr) /\ Framed(fr)
    BY <1>1, <1>2 DEF Within, Framed
  <1>4. CASE n.type = "AST_BLOCK"
    <2>1. IsBlock(n)
      BY <1>4 DEF IsBlock
    <2>2. BlockLocals(n) \in Nat
      BY <2>1, BlockTyped
    <2>3. LocalsSum(n, 0) = 0
      BY <1>4, LocalsSumAssumption
    <2> QED
      BY <1>1, <1>3, <1>4, <2>2, <2>3 DEF Rem, count_locals, fr
  <1>5. CASE n.type # "AST_BLOCK"
    <2>1. Rem(fr) = count_locals(n)
      BY <1>1, <1>5 DEF Rem, count_locals
    <2> QED
      BY <1>3, <2>1 DEF fr
  <1> QED
    BY <1>4, <1>5

-----------------------------------------------------------------------------
(* Room in the frame of the function *)

(***************************************************************************)
(* Every call in progress has a limit to how far below %rbp it may define  *)
(* locals.  A caller's limit leaves room for what it has still to declare  *)
(* itself, after the call; the youngest call's is not exceeded by what it  *)
(* has still to declare, from `off` on; no limit is beyond `size`.         *)
(***************************************************************************)
Room(fs, off, size) ==
  \E lim \in [1..Len(fs) -> Int] :
    /\ \A k \in 1..Len(fs) : lim[k] <= size
    /\ \A k \in 1..Len(fs) - 1 : lim[k+1] + Rem(fs[k]) <= lim[k]
    /\ Rem(fs[Len(fs)]) - off <= lim[Len(fs)]

\* Replacing the youngest frame by one that has less to declare by as much as
\* it has declared.
LEMMA RoomUpdate ==
  ASSUME NEW fs, NEW gs, Len(fs) \in Nat, Len(fs) > 0, Len(gs) = Len(fs),
         \A k \in 1..Len(fs) - 1 : gs[k] = fs[k],
         NEW off \in Int, NEW off2 \in Int, NEW size \in Int,
         Rem(fs[Len(fs)]) \in Int, Rem(gs[Len(fs)]) \in Int,
         Rem(gs[Len(fs)]) - off2 <= Rem(fs[Len(fs)]) - off,
         Room(fs, off, size)
  PROVE  Room(gs, off2, size)
  <1> DEFINE n == Len(fs)
  <1>1. PICK lim \in [1..n -> Int] :
          /\ \A k \in 1..n : lim[k] <= size
          /\ \A k \in 1..n - 1 : lim[k+1] + Rem(fs[k]) <= lim[k]
          /\ Rem(fs[n]) - off <= lim[n]
    BY DEF Room
  <1>2. n \in 1..n /\ lim[n] \in Int
    BY <1>1
  <1>3. \A k \in 1..n - 1 : lim[k+1] + Rem(gs[k]) <= lim[k]
    BY <1>1
  <1>4. Rem(gs[n]) - off2 <= lim[n]
    <2> DEFINE r == Rem(fs[n])
               s == Rem(gs[n])
               l == lim[n]
    <2>1. r \in Int /\ s \in Int /\ l \in Int /\ s - off2 <= r - off /\ r - off <= l
      BY <1>1, <1>2
    <2> HIDE DEF r, s, l
    <2>2. s - off2 <= l
      BY <2>1
    <2> QED
      BY <2>2 DEF s, l
  <1> QED
    BY <1>1, <1>3, <1>4 DEF Room

LEMMA NotLast ==
  ASSUME NEW n \in Nat, NEW k \in 1..n, k # n
  PROVE  k \in 1..n - 1 /\ k + 1 \in 1..n
  OBVIOUS

\* A call takes what it has to declare out of what its caller had.
LEMMA RoomDescend ==
  ASSUME NEW fs, NEW gs, Len(fs) \in Nat, Len(fs) > 0, Len(gs) = Len(fs) + 1,
         \A k \in 1..Len(fs) - 1 : gs[k] = fs[k],
         NEW off \in Int, NEW off2 \in Int, NEW size \in Int,
         Rem(fs[Len(fs)]) \in Int, Rem(gs[Len(fs)]) \in Nat, Rem(gs[Len(gs)]) \in Int,
         Rem(gs[Len(fs)]) + Rem(gs[Len(gs)]) - off2 <= Rem(fs[Len(fs)]) - off,
         Room(fs, off, size)
  PROVE  Room(gs, off2, size)
  <1> DEFINE n == Len(fs)
             r == Rem(fs[n])
             s == Rem(gs[n])
             t == Rem(gs[n + 1])
  <1>1. PICK lim \in [1..n -> Int] :
          /\ \A k \in 1..n : lim[k] <= size
          /\ \A k \in 1..n - 1 : lim[k+1] + Rem(fs[k]) <= lim[k]
          /\ r - off <= lim[n]
    BY DEF Room
  <1>2. n \in Nat /\ n \in 1..n /\ lim[n] \in Int /\ lim[n] <= size
        /\ r \in Int /\ s \in Nat /\ t \in Int /\ s + t - off2 <= r - off
    BY <1>1
  <1> DEFINE new == [k \in 1..n + 1 |-> IF k = n + 1 THEN t - off2 ELSE lim[k]]
  <1>3. new \in [1..n + 1 -> Int] /\ new[n + 1] = t - off2 /\ \A k \in 1..n : new[k] = lim[k]
    BY <1>1, <1>2
  <1> HIDE DEF new, r, s, t
  <1>4. (t - off2) + s <= lim[n] /\ t - off2 <= size
    <2> DEFINE l == lim[n]
    <2>1. l \in Int /\ r - off <= l /\ l <= size
      BY <1>1, <1>2
    <2> HIDE DEF l
    <2>2. (t - off2) + s <= l /\ t - off2 <= size
      BY <1>2, <2>1
    <2> QED
      BY <2>2 DEF l
  <1>5. ASSUME NEW k \in 1..n + 1
        PROVE  new[k] <= size
    <2>1. CASE k = n + 1
      BY <2>1, <1>3, <1>4
    <2>2. CASE k # n + 1
      <3>1. k \in 1..n
        BY <2>2, <1>2
      <3> QED
        BY <1>1, <1>3, <3>1
    <2> QED
      BY <2>1, <2>2
  <1>6. ASSUME NEW k \in 1..n
        PROVE  new[k+1] + Rem(gs[k]) <= new[k]
    <2>1. CASE k = n
      BY <2>1, <1>2, <1>3, <1>4 DEF s
    <2>2. CASE k # n
      <3>1. k \in 1..n - 1 /\ k \in 1..n /\ k + 1 \in 1..n
        BY <2>2, <1>2, NotLast
      <3>2. gs[k] = fs[k]
        BY <3>1
      <3>3. new[k+1] = lim[k+1] /\ new[k] = lim[k]
        BY <1>3, <3>1
      <3> QED
        BY <1>1, <3>1, <3>2, <3>3
    <2> QED
      BY <2>1, <2>2
  <1>7. t - off2 <= new[n + 1]
    BY <1>2, <1>3
  <1>8. Len(gs) = n + 1 /\ (n + 1) - 1 = n
    BY <1>2
  <1> QED
    BY <1>3, <1>5, <1>6, <1>7, <1>8 DEF Room, t

\* A return leaves the caller the room it kept for itself.
LEMMA RoomReturn ==
  ASSUME NEW fs, NEW gs, Len(fs) \in Nat, Len(fs) > 1, Len(gs) = Len(fs) - 1,
         \A k \in 1..Len(fs) - 1 : gs[k] = fs[k],
         NEW off \in Int, NEW off2 \in Int, NEW size \in Int,
         Rem(fs[Len(fs)]) \in Int, Rem(fs[Len(fs) - 1]) \in Int,
         -off2 <= Rem(fs[Len(fs)]) - off,
         Room(fs, off, size)
  PROVE  Room(gs, off2, size)
  <1> DEFINE n == Len(fs)
             m == Len(fs) - 1
             r == Rem(fs[n])
             s == Rem(fs[m])
  <1>1. PICK lim \in [1..n -> Int] :
          /\ \A k \in 1..n : lim[k] <= size
          /\ \A k \in 1..n - 1 : lim[k+1] + Rem(fs[k]) <= lim[k]
          /\ r - off <= lim[n]
    BY DEF Room
  <1>2. /\ n \in Nat /\ m \in Nat /\ n = m + 1 /\ m \in 1..n - 1 /\ m \in 1..n /\ n \in 1..n
        /\ m \in 1..m /\ r \in Int /\ s \in Int /\ -off2 <= r - off
    OBVIOUS
  <1>3. lim[m + 1] + s <= lim[m] /\ lim[m] \in Int /\ lim[m + 1] \in Int /\ r - off <= lim[m + 1]
    BY <1>1, <1>2
  <1> DEFINE new == [k \in 1..m |-> lim[k]]
  <1>4. new \in [1..m -> Int] /\ \A k \in 1..m : new[k] = lim[k]
    BY <1>1, <1>2
  <1> HIDE DEF new, r, s
  <1>5. s - off2 <= lim[m]
    <2> DEFINE a == lim[m]
               c == lim[m + 1]
    <2>1. a \in Int /\ c \in Int /\ c + s <= a /\ r - off <= c
      BY <1>3
    <2> HIDE DEF a, c
    <2>2. s - off2 <= a
      BY <1>2, <2>1
    <2> QED
      BY <2>2 DEF a
  <1>6. \A k \in 1..m : new[k] <= size
    BY <1>1, <1>2, <1>4
  <1>7. ASSUME NEW k \in 1..m - 1
        PROVE  new[k+1] + Rem(gs[k]) <= new[k]
    <2>1. k \in 1..n - 1 /\ k \in 1..m /\ k + 1 \in 1..m
      BY <1>2
    <2>2. gs[k] = fs[k] /\ new[k+1] = lim[k+1] /\ new[k] = lim[k]
      BY <1>4, <2>1
    <2> QED
      BY <1>1, <2>1, <2>2
  <1>8. Len(gs) = m /\ gs[m] = fs[m] /\ new[m] = lim[m]
    BY <1>2, <1>4
  <1> QED
    BY <1>4, <1>5, <1>6, <1>7, <1>8 DEF Room, s

LEMMA RoomEnough ==
  ASSUME NEW fs, Len(fs) \in Nat, Len(fs) > 0, NEW off \in Int, NEW size \in Int,
         Rem(fs[Len(fs)]) \in Nat, Room(fs, off, size)
  PROVE  -off <= size
  <1> DEFINE n == Len(fs)
             r == Rem(fs[n])
  <1>1. PICK lim \in [1..n -> Int] :
          /\ \A k \in 1..n : lim[k] <= size
          /\ r - off <= lim[n]
    BY DEF Room
  <1>2. n \in 1..n /\ lim[n] \in Int /\ lim[n] <= size /\ r \in Nat
    BY <1>1
  <1> HIDE DEF r
  <1> QED
    BY <1>1, <1>2

-----------------------------------------------------------------------------
(* The offsets scopes go back to *)

(***************************************************************************)
(* Leaving a scope gives slots back and takes none: an inner scope began   *)
(* no higher than an outer one, and no scope below where locals are now.   *)
(***************************************************************************)
Nested(stk, off) ==
  /\ off \in Int /\ off <= 0
  /\ Len(stk) > 0 => stk[1].base_offset = 0
  /\ \A k \in 1..Len(stk) : off <= stk[k].base_offset
  /\ \A j, k \in 1..Len(stk) : j <= k => stk[k].base_offset <= stk[j].base_offset

\* As far as Nested goes, scopes are their base offsets.
LEMMA SameBases ==
  ASSUME NEW stk, NEW stk2, NEW off, NEW off2 \in Int,
         Len(stk) \in Nat, Len(stk2) = Len(stk),
         \A k \in 1..Len(stk) : /\ stk[k].base_offset \in Int
                                /\ stk2[k].base_offset = stk[k].base_offset,
         Nested(stk, off), off2 <= off
  PROVE  Nested(stk2, off2)
  <1>1. off \in Int /\ off2 <= 0
    BY DEF Nested
  <1>2. Len(stk) > 0 => stk2[1].base_offset = 0
    BY DEF Nested
  <1>3. \A k \in 1..Len(stk) : off2 <= stk2[k].base_offset
    BY <1>1 DEF Nested
  <1> QED
    BY <1>1, <1>2, <1>3 DEF Nested

LEMMA BasesTyped ==
  ASSUME NEW stk \in Seq(ScopeType)
  PROVE  Len(stk) \in Nat /\ \A k \in 1..Len(stk) : stk[k].base_offset \in Int
  <1> SUFFICES ASSUME NEW k \in 1..Len(stk)
               PROVE  stk[k].base_offset \in Int
    OBVIOUS
  <1>1. PICK s \in ScopeType : s = stk[k]
    OBVIOUS
  <1> QED
    BY <1>1 DEF ScopeType

LEMMA NestedPush ==
  ASSUME NEW stk \in Seq(ScopeType), NEW off, NEW base \in Int, Nested(stk, off),
         base <= 0, base = off \/ Len(stk) = 1, Len(stk) = 0 => base = 0
  PROVE  Nested(Append(stk, Scope(base)), base)
  <1> DEFINE n == Len(stk)
             new == Append(stk, Scope(base))
  <1>1. n \in Nat /\ \A k \in 1..n : stk[k].base_offset \in Int
    BY BasesTyped
  <1>2. Scope(base).base_offset = base /\ Scope(base) \in ScopeType
    BY ScopeTyped DEF Scope
  <1> HIDE DEF Scope, ScopeType
  <1>3. Len(new) = n + 1 /\ \A k \in 1..n + 1 : new[k] = IF k = n + 1 THEN Scope(base) ELSE stk[k]
    BY <1>2, AddLast
  <1> HIDE DEF new
  <1>4. new[n + 1].base_offset = base /\ \A k \in 1..n : new[k] = stk[k]
    BY <1>1, <1>2, <1>3
  <1>5. \A k \in 1..n : base <= stk[k].base_offset
    <2>1. CASE base = off
      BY <2>1 DEF Nested
    <2>2. CASE n = 1
      <3>1. stk[1].base_offset = 0
        BY <2>2 DEF Nested
      <3> QED
        BY <2>2, <3>1
    <2> QED
      BY <2>1, <2>2
  <1>6. \A k \in 1..n + 1 : base <= new[k].base_offset
    BY <1>1, <1>4, <1>5
  <1>7. new[1].base_offset = 0
    <2>1. CASE n = 0
      BY <2>1, <1>4
    <2>2. CASE n # 0
      BY <2>2, <1>1, <1>4 DEF Nested
    <2> QED
      BY <2>1, <2>2
  <1>8. ASSUME NEW j \in 1..n + 1, NEW k \in 1..n + 1, j <= k
        PROVE  new[k].base_offset <= new[j].base_offset
    <2>1. CASE k = n + 1
      BY <2>1, <1>4, <1>6
    <2>2. CASE k # n + 1
      <3>1. k \in 1..n /\ j \in 1..n
        BY <2>2, <1>1, <1>8
      <3> QED
        BY <1>4, <1>8, <3>1 DEF Nested
    <2> QED
      BY <2>1, <2>2
  <1> QED
    BY <1>3, <1>6, <1>7, <1>8 DEF Nested, new

LEMMA NestedPop ==
  ASSUME scope_stk \in Seq(ScopeType), Len(scope_stk) > 0, Nested(scope_stk, cur_offset), pop_scope
  PROVE  Nested(scope_stk', cur_offset') /\ cur_offset <= cur_offset' /\ cur_offset' \in Int
  <1> DEFINE n == Len(scope_stk)
  <1>1. n \in Nat /\ n \in 1..n /\ \A k \in 1..n : scope_stk[k].base_offset \in Int
    BY BasesTyped
  <1>2. cur_offset' = scope_stk[n].base_offset
    BY DEF pop_scope, Last
  <1>3. Len(scope_stk') = n - 1 /\ \A k \in 1..n - 1 : scope_stk'[k] = scope_stk[k]
    BY RemoveLast DEF pop_scope
  <1>4. cur_offset' \in Int /\ cur_offset <= cur_offset' /\ cur_offset' <= 0
    BY <1>1, <1>2 DEF Nested
  <1>5. \A k \in 1..n - 1 : cur_offset' <= scope_stk'[k].base_offset
    BY <1>1, <1>2, <1>3 DEF Nested
  <1>6. n - 1 > 0 => scope_stk'[1].base_offset = 0
    BY <1>1, <1>3 DEF Nested
  <1>7. ASSUME NEW j \in 1..n - 1, NEW k \in 1..n - 1, j <= k
        PROVE  scope_stk'[k].base_offset <= scope_stk'[j].base_offset
    <2>1. j \in 1..n /\ k \in 1..n
      BY <1>1
    <2> QED
      BY <1>3, <1>7, <2>1 DEF Nested
  <1> QED
    BY <1>3, <1>4, <1>5, <1>6, <1>7 DEF Nested

LEMMA DefineBases ==
  ASSUME scope_stk \in Seq(ScopeType), Len(scope_stk) > 0, NEW x, NEW sym, Define(x, sym)
  PROVE  /\ Len(scope_stk') = Len(scope_stk)
         /\ \A k \in 1..Len(scope_stk) : scope_stk'[k].base_offset = scope_stk[k].base_offset
  <1> DEFINE n == Len(scope_stk)
  <1>1. n \in Nat /\ n \in 1..n
    OBVIOUS
  <1>2. PICK s \in ScopeType : s = scope_stk[n]
    BY <1>1
  <1> DEFINE t == [s EXCEPT !.symbols[x] = sym]
  <1>3. t.base_offset = s.base_offset
    BY DEF ScopeType
  <1>4. scope_stk' = [scope_stk EXCEPT ![n] = t]
    BY <1>1, <1>2 DEF Define
  <1> HIDE DEF t
  <1> QED
    BY <1>1, <1>2, <1>3, <1>4

LEMMA NestedLocal ==
  ASSUME scope_stk \in Seq(ScopeType), Len(scope_stk) > 0, Nested(scope_stk, cur_offset),
         NEW x, define_local(x)
  PROVE  Nested(scope_stk', cur_offset') /\ cur_offset' = cur_offset - 8
  <1>1. cur_offset \in Int /\ cur_offset' = cur_offset - 8
    BY DEF Nested, define_local
  <1>2. /\ Len(scope_stk') = Len(scope_stk)
        /\ \A k \in 1..Len(scope_stk) : scope_stk'[k].base_offset = scope_stk[k].base_offset
    BY DefineBases DEF define_local
  <1>3. cur_offset' \in Int /\ cur_offset' <= cur_offset
    BY <1>1
  <1> QED
    BY <1>1, <1>2, <1>3, BasesTyped, SameBases

LEMMA NestedGlobal ==
  ASSUME scope_stk \in Seq(ScopeType), Len(scope_stk) > 0, Nested(scope_stk, cur_offset),
         NEW x, define_global(x)
  PROVE  Nested(scope_stk', cur_offset') /\ cur_offset' = cur_offset
  <1>1. cur_offset \in Int /\ cur_offset' = cur_offset /\ cur_offset <= cur_offset
    BY DEF Nested, define_global
  <1>2. /\ Len(scope_stk') = Len(scope_stk)
        /\ \A k \in 1..Len(scope_stk) : scope_stk'[k].base_offset = scope_stk[k].base_offset
    BY DefineBases DEF define_global
  <1> QED
    BY <1>1, <1>2, BasesTyped, SameBases

-----------------------------------------------------------------------------
(* Steps inside a function *)

(***************************************************************************)
(* The inductive invariant of LocalsInFrame.                               *)
(***************************************************************************)
SpaceInv ==
  /\ phase = "start" => cur_offset = 0
  /\ Nested(scope_stk, cur_offset)
  /\ \A k \in 1..Len(frames) : Within(frames[k])
  /\ InBody => Room(frames, cur_offset, FrameSize)

\* What a step of the walk starts from.
LEMMA TopSpace ==
  ASSUME Inv, SpaceInv, NEW ty, Running(ty)
  PROVE  /\ phase = "text" /\ frames \in Seq(frame_t) /\ Len(frames) \in Nat /\ Len(frames) > 0
         /\ Top = frames[Len(frames)] /\ Top.node.type = ty
         /\ ty = "AST_FUNC_DECL" <=> Len(frames) = 1
         /\ Top.node \in Node /\ WellFormed(Top.node) /\ Top.at \in Nat /\ Top.loc \in Int
         /\ Top \in frame_t /\ Framed(Top) /\ Within(Top) /\ Rem(Top) \in Nat
         /\ frames[1].node \in Node /\ frames[1].node.type = "AST_FUNC_DECL" /\ FrameSize \in Int
         /\ cur_offset \in Int /\ scope_stk \in Seq(ScopeType) /\ Len(scope_stk) > 0
         /\ ty # "AST_FUNC_DECL" \/ Top.loc # Fresh => Room(frames, cur_offset, FrameSize)
  <1>1. IInv /\ ScopeInv /\ FramesInv /\ frames \in Seq(frame_t) /\ IsWalk(frames)
    BY DEF Inv, IInv, FramesInv
  <1>2. /\ phase = "text" /\ frames # <<>> /\ Top \in frame_t
        /\ Top.node \in Node /\ Top.node.type = ty /\ WellFormed(Top.node)
        /\ Top.at \in Nat /\ Top.loc \in Int
    BY <1>1, RunningTop
  <1>3. /\ Len(frames) \in Nat /\ Len(frames) > 0 /\ Top = frames[Len(frames)]
        /\ ty = "AST_FUNC_DECL" <=> Len(frames) = 1
    BY <1>1, <1>2, TopTyped
  <1>4. Len(frames) \in 1..Len(frames) /\ 1 \in 1..Len(frames)
    BY <1>3
  <1>5. Framed(Top) /\ Within(Top)
    BY <1>2, <1>3, <1>4 DEF SpaceInv, Framed
  <1>6. Rem(Top) \in Nat
    BY <1>5, RemNat
  <1>7. frames[1].node.type = "AST_FUNC_DECL"
    BY <1>1, <1>4 DEF IsWalk
  <1>8. frames[1].node \in Node
    <2>1. frames[1] \in frame_t
      BY <1>1, <1>4
    <2> QED
      BY <2>1 DEF frame_t
  <1>9. FrameSize \in Int
    BY <1>7, <1>8, FrameSizeRounded DEF FrameSize
  <1>10. cur_offset \in Int /\ scope_stk \in Seq(ScopeType) /\ Len(scope_stk) > 0
    BY <1>1, InText
  <1>11. ty # "AST_FUNC_DECL" \/ Top.loc # Fresh => Room(frames, cur_offset, FrameSize)
    <2>1. Len(frames) > 1 => frames[1].loc # Fresh
      BY <1>1 DEF IsWalk
    <2>2. ty # "AST_FUNC_DECL" => Len(frames) > 1
      BY <1>3, Positive
    <2> QED
      BY <1>2, <1>3, <2>1, <2>2 DEF SpaceInv, InBody
  <1> QED
    BY <1>1, <1>2, <1>3, <1>5, <1>6, <1>7, <1>8, <1>9, <1>10, <1>11

LEMMA Above ==
  ASSUME NEW n \in Nat, n > 0, n # 1
  PROVE  n > 1 /\ n - 1 \in 1..n /\ 1 \in 1..n - 1 /\ n - 1 \in 1..n - 1
  OBVIOUS

LEMMA SpaceReturn ==
  ASSUME Inv, SpaceInv, NEW ty, Running(ty), ty # "AST_FUNC_DECL", Return, phase' = "text",
         Nested(scope_stk', cur_offset'), -cur_offset' <= Rem(Top) - cur_offset
  PROVE  SpaceInv'
  <1> DEFINE n == Len(frames)
  <1>1. /\ frames \in Seq(frame_t) /\ n \in Nat /\ n > 0 /\ n # 1 /\ Top = frames[n]
        /\ Rem(Top) \in Nat /\ FrameSize \in Int /\ cur_offset \in Int
        /\ Room(frames, cur_offset, FrameSize)
    BY TopSpace
  <1>2. n > 1 /\ n - 1 \in 1..n /\ 1 \in 1..n - 1 /\ n - 1 \in 1..n - 1
    BY <1>1, Above
  <1>3. Len(frames') = n - 1 /\ \A k \in 1..n - 1 : frames'[k] = frames[k]
    BY <1>1, RemoveLast DEF Return
  <1>4. \A k \in 1..n - 1 : Within(frames'[k])
    BY <1>1, <1>3 DEF SpaceInv
  <1>5. Rem(frames[n - 1]) \in Nat
    <2>1. frames[n - 1] \in frame_t /\ Within(frames[n - 1])
      BY <1>1, <1>2 DEF SpaceInv
    <2>2. Framed(frames[n - 1])
      BY <2>1 DEF frame_t, Framed
    <2> QED
      BY <2>1, <2>2, RemNat
  <1>6. cur_offset' \in Int
    BY DEF Nested
  <1>7. Room(frames', cur_offset', FrameSize)
    <2>1. -cur_offset' <= Rem(frames[n]) - cur_offset /\ Rem(frames[n]) \in Int
      BY <1>1
    <2>2. Rem(frames[n - 1]) \in Int
      BY <1>5
    <2> QED
      BY <1>1, <1>2, <1>3, <1>6, <2>1, <2>2, RoomReturn
  <1>8. FrameSize' = FrameSize
    BY <1>2, <1>3 DEF FrameSize
  <1> QED
    BY <1>3, <1>4, <1>7, <1>8 DEF SpaceInv

LEMMA SpaceUpdate ==
  ASSUME Inv, SpaceInv, NEW ty, Running(ty), ty # "AST_FUNC_DECL" \/ Top.loc # Fresh,
         NEW t \in frame_t, t.node = Top.node, Within(t),
         frames' = [frames EXCEPT ![Len(frames)] = t], phase' = "text",
         Nested(scope_stk', cur_offset'), Rem(t) - cur_offset' <= Rem(Top) - cur_offset
  PROVE  SpaceInv'
  <1> DEFINE n == Len(frames)
  <1>1. /\ frames \in Seq(frame_t) /\ n \in Nat /\ n > 0 /\ n \in 1..n /\ 1 \in 1..n
        /\ Top = frames[n]
        /\ Rem(Top) \in Nat /\ FrameSize \in Int /\ cur_offset \in Int
        /\ Room(frames, cur_offset, FrameSize)
    BY TopSpace
  <1>2. Len(frames') = n /\ \A k \in 1..n : frames'[k] = IF k = n THEN t ELSE frames[k]
    BY <1>1, ReplaceLast, SMTT(30)
  <1>3. frames'[n] = t /\ \A k \in 1..n - 1 : frames'[k] = frames[k]
    <2>1. \A k \in 1..n - 1 : k \in 1..n /\ k # n
      BY <1>1
    <2> QED
      BY <1>1, <1>2, <2>1
  <1>4. \A k \in 1..n : Within(frames'[k])
    BY <1>1, <1>2 DEF SpaceInv
  <1>5. Framed(t)
    BY DEF frame_t, Framed
  <1>6. Rem(t) \in Nat
    BY <1>5, RemNat
  <1>7. cur_offset' \in Int
    BY DEF Nested
  <1>8. Room(frames', cur_offset', FrameSize)
    <2>1. /\ Rem(frames'[n]) - cur_offset' <= Rem(frames[n]) - cur_offset
          /\ Rem(frames[n]) \in Int /\ Rem(frames'[n]) \in Int
      BY <1>1, <1>3, <1>6
    <2> QED
      BY <1>1, <1>2, <1>3, <1>7, <2>1, RoomUpdate
  <1>9. FrameSize' = FrameSize
    BY <1>1, <1>2 DEF FrameSize
  <1> QED
    BY <1>2, <1>4, <1>8, <1>9 DEF SpaceInv

\* The caller of a recursive call, when it goes on.
LEMMA Advanced ==
  ASSUME Inv, SpaceInv, NEW ty, Running(ty), NEW l \in Int,
         NEW t, t = [Top EXCEPT !.at = @ + 1, !.loc = l]
  PROVE  t \in frame_t /\ t.node = Top.node /\ t.at = Top.at + 1 /\ t.loc = l
  <1>1. PICK f \in frame_t : f = Top
    BY TopSpace
  <1>4. PICK a \in Nat : a = f.at + 1
    BY <1>1, TopSpace
  <1>2. GoesOn(f, t, a, l)
    BY <1>1, <1>4 DEF GoesOn
  <1>3. t \in frame_t /\ t.node = f.node /\ t.at = f.at + 1 /\ t.loc = l
    BY ONLY <1>2, <1>4, f \in frame_t, a \in Nat, l \in Int, GoneOn
  <1> QED
    BY <1>1, <1>3

LEMMA SpaceDescend ==
  ASSUME Inv, SpaceInv, NEW ty, Running(ty), ty # "AST_FUNC_DECL" \/ Top.loc # Fresh,
         NEW l \in Int, NEW depth, Descend(l, depth),
         NEW t, t = [Top EXCEPT !.at = @ + 1, !.loc = l], Within(t),
         phase' = "text", Nested(scope_stk', cur_offset'),
         Rem(t) + count_locals(Subs(Top.node)[Top.at + 1]) - cur_offset' <= Rem(Top) - cur_offset
  PROVE  SpaceInv'
  <1> DEFINE n == Len(frames)
             sub == Subs(Top.node)[Top.at + 1]
  <1>1. /\ frames \in Seq(frame_t) /\ n \in Nat /\ n > 0 /\ n \in 1..n /\ 1 \in 1..n
        /\ Top = frames[n] /\ Top.node \in Node /\ Top.at \in Nat
        /\ Rem(Top) \in Nat /\ FrameSize \in Int /\ cur_offset \in Int
        /\ Room(frames, cur_offset, FrameSize)
    BY TopSpace
  <1>2. sub \in Node /\ sub.type # "AST_FUNC_DECL"
    <2>1. Subs(Top.node) \in Seq(Node) /\ Top.at < Len(Subs(Top.node))
      BY <1>1, SubsTyped DEF Descend
    <2>2. Top.at + 1 \in 1..Len(Subs(Top.node))
      BY <1>1, <2>1
    <2> QED
      BY <1>1, <2>1, <2>2, SubsTyped, SMTT(30)
  <1>3. /\ Len(frames') = n + 1
        /\ \A k \in 1..n : frames'[k] = IF k = n THEN t ELSE frames[k]
        /\ frames'[n + 1] = Frame(sub, depth)
    BY <1>1, DescendShape DEF Inv, IInv, Running
  <1> HIDE DEF sub
  <1>4. frames'[n] = t /\ \A k \in 1..n - 1 : frames'[k] = frames[k]
    <2>1. frames'[n] = t
      BY <1>1, <1>3
    <2>2. \A k \in 1..n - 1 : k \in 1..n /\ k # n
      BY <1>1
    <2> QED
      BY <1>3, <2>1, <2>2
  <1>5. Rem(frames'[n + 1]) = count_locals(sub) /\ Within(frames'[n + 1]) /\ Framed(frames'[n + 1])
    BY <1>2, <1>3, RemBegin
  <1>6. \A k \in 1..n + 1 : Within(frames'[k])
    BY <1>1, <1>3, <1>5 DEF SpaceInv
  <1>7. Framed(t)
    <2>1. t \in frame_t
      BY Advanced
    <2> QED
      BY <2>1 DEF Framed, frame_t
  <1>8. Rem(t) \in Nat /\ count_locals(sub) \in Nat
    BY <1>2, <1>7, RemNat, CountNat
  <1>9. cur_offset' \in Int
    BY DEF Nested
  <1>10. Rem(t) + count_locals(sub) - cur_offset' <= Rem(Top) - cur_offset
    BY DEF sub
  <1>11. Room(frames', cur_offset', FrameSize)
    <2>1. /\ Rem(frames'[n]) + Rem(frames'[n + 1]) - cur_offset' <= Rem(frames[n]) - cur_offset
          /\ Rem(frames[n]) \in Int /\ Rem(frames'[n]) \in Nat /\ Rem(frames'[n + 1]) \in Int
      <3>1. Rem(frames'[n]) = Rem(t) /\ Rem(frames[n]) = Rem(Top)
        BY <1>1, <1>4
      <3>2. Rem(frames'[n + 1]) = count_locals(sub) /\ count_locals(sub) \in Int
        BY <1>5, <1>8
      <3>3. Rem(t) \in Nat /\ Rem(Top) \in Int
        BY <1>1, <1>8
      <3> QED
        BY <1>10, <3>1, <3>2, <3>3
    <2> DEFINE fs == frames
               gs == frames'
               off == cur_offset
               off2 == cur_offset'
               size == FrameSize
    <2>2. /\ Len(fs) \in Nat /\ Len(fs) > 0 /\ Len(gs) = Len(fs) + 1
          /\ \A k \in 1..Len(fs) - 1 : gs[k] = fs[k]
          /\ off \in Int /\ off2 \in Int /\ size \in Int /\ Room(fs, off, size)
      BY <1>1, <1>3, <1>4, <1>9
    <2>3. /\ Rem(fs[Len(fs)]) \in Int /\ Rem(gs[Len(fs)]) \in Nat /\ Rem(gs[Len(gs)]) \in Int
          /\ Rem(gs[Len(fs)]) + Rem(gs[Len(gs)]) - off2 <= Rem(fs[Len(fs)]) - off
      BY <1>3, <2>1
    <2> HIDE DEF fs, gs, off, off2, size
    <2>4. Room(gs, off2, size)
      BY <2>2, <2>3, RoomDescend
    <2> QED
      BY <2>4 DEF gs, off2, size
  <1>12. FrameSize' = FrameSize
    <2>1. t.node = Top.node
      BY Advanced
    <2>2. frames'[1].node = frames[1].node
      BY <1>1, <1>3, <2>1
    <2> QED
      BY <2>2 DEF FrameSize
  <1> QED
    BY <1>3, <1>6, <1>11, <1>12 DEF SpaceInv

LEMMA SpaceError ==
  ASSUME SpaceInv, std_compile_error
  PROVE  SpaceInv'
  BY DEF SpaceInv, std_compile_error, scopeVars, InBody, FrameSize, Nested

\* The functions that neither declare nor call one that does.
Flat(ty) == ty \notin {"AST_VAR_DECL", "AST_BLOCK", "AST_FUNC_DECL", "AST_IF"}

LEMMA FlatRem ==
  ASSUME NEW fr, Flat(fr.node.type)
  PROVE  Rem(fr) = 0 /\ Within(fr)
  BY DEF Flat, Rem, Within

LEMMA FlatSubs ==
  ASSUME NEW n \in Node, Flat(n.type), NEW k \in Nat, k < Len(Subs(n))
  PROVE  count_locals(Subs(n)[k + 1]) = 0
  <1>1. WellFormed(n)
    BY ProgramsAssumption
  <1>2. Subs(n) \in Seq(Node) /\ k + 1 \in DOMAIN Subs(n)
    BY SubsTyped
  <1>3. Subs(n)[k + 1].type \in SubTypes(n)
    BY <1>1, <1>2 DEF WellFormed
  <1>4. SubTypes(n) = expr_t
    BY DEF Flat, SubTypes
  <1> QED
    BY <1>3, <1>4 DEF expr_t, count_locals

LEMMA Unscoping ==
  ASSUME Inv, SpaceInv, NEW ty, Running(ty), UNCHANGED <<walkVars, scopeVars>>
  PROVE  phase' = "text" /\ Nested(scope_stk', cur_offset') /\ cur_offset' = cur_offset
  BY TopSpace DEF walkVars, scopeVars, SpaceInv

LEMMA FlatReturn ==
  ASSUME Inv, SpaceInv, NEW ty, Running(ty), Flat(ty), UNCHANGED <<walkVars, scopeVars>>, Return
  PROVE  SpaceInv'
  <1>1. phase' = "text" /\ Nested(scope_stk', cur_offset') /\ cur_offset' = cur_offset
    BY Unscoping
  <1>2. cur_offset \in Int /\ Rem(Top) \in Nat
    BY TopSpace
  <1>3. -cur_offset' <= Rem(Top) - cur_offset
    BY <1>1, <1>2
  <1>4. ty # "AST_FUNC_DECL"
    BY DEF Flat
  <1> QED
    BY <1>1, <1>3, <1>4, SpaceReturn

LEMMA FlatDescend ==
  ASSUME Inv, SpaceInv, NEW ty, Running(ty), Flat(ty), UNCHANGED <<walkVars, scopeVars>>,
         NEW l \in Int, NEW depth, Descend(l, depth)
  PROVE  SpaceInv'
  <1>1. phase' = "text" /\ Nested(scope_stk', cur_offset') /\ cur_offset' = cur_offset
    BY Unscoping
  <1>2. /\ cur_offset \in Int /\ Top \in frame_t /\ Top.node \in Node /\ Top.at \in Nat
        /\ Top.node.type = ty
    BY TopSpace
  <1> DEFINE t == [Top EXCEPT !.at = @ + 1, !.loc = l]
  <1>3. t = [Top EXCEPT !.at = @ + 1, !.loc = l]
    OBVIOUS
  <1> HIDE DEF t
  <1>4. t.node = Top.node
    BY <1>3, Advanced
  <1>5. Rem(t) = 0 /\ Within(t) /\ Rem(Top) = 0
    BY <1>2, <1>4, FlatRem
  <1>6. count_locals(Subs(Top.node)[Top.at + 1]) = 0
    BY <1>2, FlatSubs DEF Descend
  <1>7. Rem(t) + count_locals(Subs(Top.node)[Top.at + 1]) - cur_offset' <= Rem(Top) - cur_offset
    BY <1>1, <1>2, <1>5, <1>6
  <1>8. ty # "AST_FUNC_DECL"
    BY DEF Flat
  <1> QED
    BY <1>1, <1>3, <1>5, <1>7, <1>8, SpaceDescend

LEMMA FlatUpdate ==
  ASSUME Inv, SpaceInv, NEW ty, Running(ty), Flat(ty), UNCHANGED <<walkVars, scopeVars>>,
         NEW t \in frame_t, t.node = Top.node, frames' = [frames EXCEPT ![Len(frames)] = t]
  PROVE  SpaceInv'
  <1>1. phase' = "text" /\ Nested(scope_stk', cur_offset') /\ cur_offset' = cur_offset
    BY Unscoping
  <1>2. cur_offset \in Int /\ Top.node.type = ty
    BY TopSpace
  <1>3. Rem(t) = 0 /\ Within(t) /\ Rem(Top) = 0
    BY <1>2, FlatRem
  <1>4. Rem(t) - cur_offset' <= Rem(Top) - cur_offset
    BY <1>1, <1>2, <1>3
  <1>5. ty # "AST_FUNC_DECL"
    BY DEF Flat
  <1> QED
    BY <1>1, <1>3, <1>4, <1>5, SpaceUpdate

\* The frame of a function that keeps a new local variable.
LEMMA SettingLoc ==
  ASSUME FramesInv, frames # <<>>, NEW l \in Int, SetLoc(l),
         NEW t, t = [Top EXCEPT !.loc = l]
  PROVE  /\ t \in frame_t /\ t.node = Top.node /\ t.at = Top.at /\ t.loc = l
         /\ frames' = [frames EXCEPT ![Len(frames)] = t]
  <1>1. /\ Top \in frame_t /\ Top = frames[Len(frames)] /\ frames \in Seq(frame_t)
        /\ Len(frames) \in 1..Len(frames)
    BY TopTyped DEF FramesInv
  <1>2. t \in frame_t /\ t.node = Top.node /\ t.at = Top.at /\ t.loc = l
    BY <1>1 DEF frame_t
  <1>3. frames' = [frames EXCEPT ![Len(frames)] = t]
    BY <1>1 DEF SetLoc
  <1> QED
    BY <1>2, <1>3

LEMMA FlatSetLoc ==
  ASSUME Inv, SpaceInv, NEW ty, Running(ty), Flat(ty), UNCHANGED <<walkVars, scopeVars>>,
         NEW l \in Int, SetLoc(l)
  PROVE  SpaceInv'
  <1>1. FramesInv /\ frames # <<>>
    BY DEF Inv, IInv, Running
  <1> DEFINE t == [Top EXCEPT !.loc = l]
  <1>2. t = [Top EXCEPT !.loc = l]
    OBVIOUS
  <1> HIDE DEF t
  <1>3. t \in frame_t /\ t.node = Top.node /\ frames' = [frames EXCEPT ![Len(frames)] = t]
    BY <1>1, <1>2, SettingLoc
  <1> QED
    BY <1>3, FlatUpdate

\* The frame of a call that has popped an argument.
LEMMA CallPopped ==
  ASSUME IInv, gen_call_pop
  PROVE  \E t \in frame_t : t.node = Top.node /\ frames' = [frames EXCEPT ![Len(frames)] = t]
  <1>1. /\ Running("AST_CALL")
        /\ frames' = [frames EXCEPT ![Len(frames)].at = Len(Top.node.args) + 1,
                                    ![Len(frames)].loc = @ - 1]
    BY DEF gen_call_pop
  <1> DEFINE a == Len(Top.node.args) + 1
             t == [Top EXCEPT !.at = a, !.loc = Top.loc - 1]
  <1>2. /\ Top \in frame_t /\ Top.loc \in Int /\ frames \in Seq(frame_t)
        /\ Top = frames[Len(frames)] /\ Len(frames) \in Nat /\ Len(frames) > 0
        /\ Top.node.type = "AST_CALL" /\ WellFormed(Top.node)
    BY <1>1, RunningTop, TopTyped DEF IInv, FramesInv
  <1>3. a \in Nat
    BY <1>2 DEF WellFormed
  <1>4. frames' = [frames EXCEPT ![Len(frames)] = t]
    BY <1>1, <1>2
  <1> HIDE DEF a
  <1>5. Top.loc - 1 \in Int
    BY <1>2
  <1>6. t = [Top EXCEPT !.at = a, !.loc = Top.loc - 1]
    OBVIOUS
  <1> HIDE DEF t
  <1>7. t \in frame_t /\ t.node = Top.node
    <2>1. PICK f \in frame_t : f = Top
      BY <1>2
    <2>2. PICK m \in Int : m = Top.loc - 1
      BY <1>5
    <2>3. GoesOn(f, t, a, m)
      BY <1>6, <2>1, <2>2 DEF GoesOn
    <2>4. t \in frame_t /\ t.node = f.node
      BY <1>3, <2>3, GoneOn
    <2> QED
      BY <1>3, <2>1, <2>4
  <1> QED
    BY <1>4, <1>7

LEMMA expr_space ==
  ASSUME Inv, SpaceInv, gen_expr
  PROVE  SpaceInv'
  <1> DEFINE Other == UNCHANGED <<walkVars, scopeVars>>
  <1>0. Fresh \in Int /\ 0 \in Int
    BY DEF Fresh
  <1>1. SUFFICES ASSUME ~std_compile_error
                 PROVE  SpaceInv'
    BY SpaceError
  <1>2. CASE gen_literal
    <2>1. Running("AST_LITERAL") /\ Return /\ Other
      BY <1>2 DEF gen_literal
    <2> QED
      BY <2>1, FlatReturn DEF Flat
  <1>3. CASE gen_identifier
    <2>1. Running("AST_IDENTIFIER") /\ Return /\ Other
      BY <1>1, <1>3 DEF gen_identifier
    <2> QED
      BY <2>1, FlatReturn DEF Flat
  <1>4. CASE gen_address
    <2>1. Running("AST_UNARY") /\ Return /\ Other
      BY <1>1, <1>4 DEF gen_address
    <2> QED
      BY <2>1, FlatReturn DEF Flat
  <1>5. CASE gen_unary
    <2>1. Running("AST_UNARY") /\ Other /\ (Return \/ Descend(Fresh, push_depth))
      BY <1>1, <1>5 DEF gen_unary
    <2> QED
      BY <1>0, <2>1, FlatReturn, FlatDescend DEF Flat
  <1>6. CASE gen_binary
    <2>1. /\ Running("AST_BINARY") /\ Other
          /\ Return \/ Descend(Fresh, push_depth) \/ Descend(Fresh, push_depth + 1)
      BY <1>6 DEF gen_binary
    <2> QED
      BY <1>0, <2>1, FlatReturn, FlatDescend DEF Flat
  <1>7. CASE gen_call_enter
    <2>1. Running("AST_CALL") /\ Other /\ SetLoc(0)
      BY <1>1, <1>7 DEF gen_call_enter
    <2> QED
      BY <1>0, <2>1, FlatSetLoc DEF Flat
  <1>8. CASE gen_call_arg
    <2>1. Running("AST_CALL") /\ Other /\ (Descend(Top.loc, push_depth) \/ SetLoc(Top.loc + 1))
      BY <1>8 DEF gen_call_arg
    <2>2. Top.loc \in Int /\ Top.loc + 1 \in Int
      BY <2>1, TopSpace
    <2> QED
      BY <2>1, <2>2, FlatDescend, FlatSetLoc DEF Flat
  <1>9. CASE gen_call_pop
    <2>1. Running("AST_CALL") /\ Other
      BY <1>9 DEF gen_call_pop
    <2>2. PICK t \in frame_t : t.node = Top.node /\ frames' = [frames EXCEPT ![Len(frames)] = t]
      BY <1>9, CallPopped DEF Inv
    <2> QED
      BY <2>1, <2>2, FlatUpdate DEF Flat
  <1>10. CASE gen_call_return
    <2>1. Running("AST_CALL") /\ Return /\ Other
      BY <1>10 DEF gen_call_return
    <2> QED
      BY <2>1, FlatReturn DEF Flat
  <1>11. CASE gen_assign
    <2>1. Running("AST_ASSIGN") /\ Other /\ (Return \/ Descend(Fresh, push_depth))
      BY <1>1, <1>11 DEF gen_assign
    <2> QED
      BY <1>0, <2>1, FlatReturn, FlatDescend DEF Flat
  <1>12. CASE gen_cast
    <2>1. Running("AST_CAST") /\ Other /\ (Return \/ Descend(Fresh, push_depth))
      BY <1>12 DEF gen_cast
    <2> QED
      BY <1>0, <2>1, FlatReturn, FlatDescend DEF Flat
  <1>13. CASE gen_unsupported
    BY <1>1, <1>13 DEF gen_unsupported
  <1> QED
    BY <1>2, <1>3, <1>4, <1>5, <1>6, <1>7, <1>8, <1>9, <1>10, <1>11, <1>12, <1>13 DEF gen_expr

\* A return that leaves the locals as they are.
LEMMA QuietReturn ==
  ASSUME Inv, SpaceInv, NEW ty, Running(ty), ty # "AST_FUNC_DECL",
         UNCHANGED <<walkVars, scopeVars>>, Return
  PROVE  SpaceInv'
  <1>1. phase' = "text" /\ Nested(scope_stk', cur_offset') /\ cur_offset' = cur_offset
    BY Unscoping
  <1>2. cur_offset \in Int /\ Rem(Top) \in Nat
    BY TopSpace
  <1>3. -cur_offset' <= Rem(Top) - cur_offset
    BY <1>1, <1>2
  <1> QED
    BY <1>1, <1>3, SpaceReturn

LEMMA var_decl_space ==
  ASSUME Inv, SpaceInv, gen_var_decl
  PROVE  SpaceInv'
  <1>1. Running("AST_VAR_DECL") /\ UNCHANGED walkVars
    BY DEF gen_var_decl
  <1>2. /\ Top.node \in Node /\ WellFormed(Top.node) /\ Top.node.type = "AST_VAR_DECL"
        /\ Top.at \in Nat /\ cur_offset \in Int /\ phase = "text"
        /\ scope_stk \in Seq(ScopeType) /\ Len(scope_stk) > 0
    BY <1>1, TopSpace
  <1>3. CASE UNCHANGED scopeVars /\ Return
    BY <1>1, <1>3, QuietReturn
  <1>4. CASE /\ Top.at = 0
             /\ define_local(Top.node.ident.name)
             /\ Return \/ Descend(cur_offset', push_depth)
    <2>1. Nested(scope_stk', cur_offset') /\ cur_offset' = cur_offset - 8
      BY <1>2, <1>4, NestedLocal DEF SpaceInv
    <2>2. Rem(Top) = 8 /\ phase' = "text" /\ cur_offset' \in Int
      BY <1>1, <1>2, <1>4, <2>1 DEF Rem, walkVars
    <2>3. CASE Return
      <3>1. -cur_offset' <= Rem(Top) - cur_offset
        BY <1>2, <2>1, <2>2
      <3> QED
        BY <1>1, <2>1, <2>2, <2>3, <3>1, SpaceReturn
    <2>4. CASE Descend(cur_offset', push_depth)
      <3> DEFINE t == [Top EXCEPT !.at = @ + 1, !.loc = cur_offset']
      <3>1. t = [Top EXCEPT !.at = @ + 1, !.loc = cur_offset']
        OBVIOUS
      <3> HIDE DEF t
      <3>2. t.node = Top.node /\ t.at = 1
        <4>1. t.node = Top.node /\ t.at = Top.at + 1
          BY <1>1, <2>2, <3>1, Advanced
        <4> QED
          BY <1>4, <4>1
      <3>3. Rem(t) = 0 /\ Within(t)
        BY <1>2, <3>2 DEF Rem, Within
      <3>4. count_locals(Subs(Top.node)[Top.at + 1]) = 0
        <4>1. Subs(Top.node) \in Seq(Node) /\ Top.at + 1 \in DOMAIN Subs(Top.node)
          BY <1>2, <2>4, SubsTyped DEF Descend
        <4>2. Subs(Top.node)[Top.at + 1].type \in SubTypes(Top.node)
          BY <1>2, <4>1 DEF WellFormed
        <4>3. SubTypes(Top.node) = expr_t
          BY <1>2 DEF SubTypes
        <4> QED
          BY <4>2, <4>3 DEF expr_t, count_locals
      <3>5. Rem(t) + count_locals(Subs(Top.node)[Top.at + 1]) - cur_offset' <= Rem(Top) - cur_offset
        BY <1>2, <2>1, <2>2, <3>3, <3>4
      <3> QED
        BY <1>1, <2>1, <2>2, <2>4, <3>1, <3>3, <3>5, SpaceDescend
    <2> QED
      BY <1>4, <2>3, <2>4
  <1> QED
    BY <1>3, <1>4 DEF gen_var_decl

LEMMA if_space ==
  ASSUME Inv, SpaceInv, gen_if
  PROVE  SpaceInv'
  <1>1. Running("AST_IF") /\ UNCHANGED <<walkVars, scopeVars>>
    BY DEF gen_if
  <1> DEFINE n == Top.node
             a == BlockLocals(n.then_branch)
             b == BlockLocals(n.else_branch)
             sub == Subs(n)[Top.at + 1]
  <1>2. /\ n \in Node /\ WellFormed(n) /\ n.type = "AST_IF"
        /\ Top.at \in Nat /\ Top.loc \in Int /\ cur_offset \in Int
    BY <1>1, TopSpace
  <1>3. n.cond.type \in expr_t /\ a \in Nat /\ b \in Nat
    <2>1. /\ n.cond.type \in expr_t /\ IsBlock(n.then_branch)
          /\ IsBlock(n.else_branch) \/ n.else_branch = Null
      BY <1>2 DEF WellFormed
    <2>2. BlockLocals(Null) \in Nat
      BY DEF BlockLocals
    <2> QED
      BY <2>1, <2>2, BlockTyped
  <1>4. phase' = "text" /\ Nested(scope_stk', cur_offset') /\ cur_offset' = cur_offset
    BY <1>1, Unscoping
  <1>5. label_count \in Int
    BY <1>1, InText DEF Inv
  <1>6. PICK l \in Int :
          \/ Return
          \/ Descend(l, push_depth) /\ \/ Top.at = 0
                                       \/ Top.at = 1
                                       \/ Top.at = 2 /\ n.else_branch # Null
    BY <1>2, <1>5 DEF gen_if
  <1>7. CASE Return
    BY <1>1, <1>7, QuietReturn
  <1>8. CASE Descend(l, push_depth) /\ ~Return
    <2> DEFINE t == [Top EXCEPT !.at = @ + 1, !.loc = l]
    <2>1. t = [Top EXCEPT !.at = @ + 1, !.loc = l]
      OBVIOUS
    <2> HIDE DEF t
    <2>2. t.node = n /\ t.at = Top.at + 1
      BY <1>1, <2>1, Advanced
    <2>3. Within(t)
      BY <1>2, <2>2 DEF Within
    <2>4. Rem(Top) = (IF Top.at <= 1 THEN a ELSE 0) + (IF Top.at <= 2 THEN b ELSE 0)
      BY <1>2 DEF Rem
    <2>5. Rem(t) = (IF Top.at + 1 <= 1 THEN a ELSE 0) + (IF Top.at + 1 <= 2 THEN b ELSE 0)
      BY <1>2, <2>2 DEF Rem
    <2>6. count_locals(sub) \in Nat /\ Rem(t) \in Nat /\ Rem(t) + count_locals(sub) = Rem(Top)
      <3>1. Subs(n) = IF n.else_branch = Null THEN <<n.cond, n.then_branch>>
                      ELSE <<n.cond, n.then_branch, n.else_branch>>
        BY <1>2 DEF Subs
      <3>2. CASE Top.at = 0
        <4>1. sub = n.cond
          BY <3>1, <3>2
        <4>2. count_locals(sub) = 0
          BY <1>3, <4>1 DEF expr_t, count_locals
        <4> HIDE DEF a, b, sub
        <4> QED
          BY <1>3, <2>4, <2>5, <3>2, <4>2
      <3>3. CASE Top.at = 1
        <4>1. sub = n.then_branch /\ IsBlock(n.then_branch)
          BY <1>2, <3>1, <3>3 DEF WellFormed
        <4>2. count_locals(sub) = a
          BY <4>1 DEF IsBlock, count_locals
        <4> HIDE DEF a, b, sub
        <4> QED
          BY <1>3, <2>4, <2>5, <3>3, <4>2
      <3>4. CASE Top.at = 2 /\ n.else_branch # Null
        <4>1. sub = n.else_branch /\ IsBlock(n.else_branch)
          BY <1>2, <3>1, <3>4 DEF WellFormed
        <4>2. count_locals(sub) = b
          BY <4>1 DEF IsBlock, count_locals
        <4> HIDE DEF a, b, sub
        <4> QED
          BY <1>3, <2>4, <2>5, <3>4, <4>2
      <3> QED
        BY <1>6, <1>8, <3>2, <3>3, <3>4
    <2>7. Rem(Top) \in Nat
      BY <1>1, TopSpace
    <2>8. Rem(t) + count_locals(sub) - cur_offset' <= Rem(Top) - cur_offset
      BY <1>2, <1>4, <2>6, <2>7
    <2> QED
      BY <1>1, <1>4, <1>8, <2>1, <2>3, <2>8, SpaceDescend
  <1> QED
    BY <1>6, <1>7, <1>8

LEMMA block_space ==
  ASSUME Inv, SpaceInv, gen_block
  PROVE  SpaceInv'
  <1>1. Running("AST_BLOCK") /\ UNCHANGED walkVars
    BY DEF gen_block
  <1> DEFINE n == Top.node
  <1>2. /\ n \in Node /\ n.type = "AST_BLOCK" /\ Top.at \in Nat /\ Top \in frame_t /\ Within(Top)
        /\ cur_offset \in Int /\ phase = "text" /\ Rem(Top) \in Nat
        /\ scope_stk \in Seq(ScopeType) /\ Len(scope_stk) > 0
        /\ Nested(scope_stk, cur_offset)
    BY <1>1, TopSpace DEF SpaceInv
  <1>3. IsBlock(n) /\ Subs(n) = n.nodes /\ Len(n.nodes) \in Nat
    BY <1>2, BlockTyped DEF IsBlock
  <1>4. phase' = "text"
    BY <1>1, <1>2 DEF walkVars
  <1>5. CASE push_scope /\ SetLoc(0) /\ UNCHANGED cur_offset
    <2> DEFINE t == [Top EXCEPT !.loc = 0]
    <2>1. t = [Top EXCEPT !.loc = 0]
      OBVIOUS
    <2> HIDE DEF t
    <2>2. /\ t \in frame_t /\ t.node = Top.node /\ t.at = Top.at
          /\ frames' = [frames EXCEPT ![Len(frames)] = t]
      BY <1>1, <1>5, <2>1, SettingLoc DEF Inv, IInv, Running
    <2>3. Within(t) /\ Rem(t) = Rem(Top)
      BY <1>2, <2>2 DEF Within, Rem
    <2>4. Nested(scope_stk', cur_offset')
      <3>1. cur_offset <= 0
        BY <1>2 DEF Nested
      <3>2. Nested(Append(scope_stk, Scope(cur_offset)), cur_offset)
        BY <1>2, <3>1, NestedPush
      <3> QED
        BY <1>5, <3>2 DEF push_scope
    <2>5. Rem(t) - cur_offset' <= Rem(Top) - cur_offset
      BY <1>2, <1>5, <2>3
    <2> QED
      BY <1>1, <1>4, <2>2, <2>3, <2>4, <2>5, SpaceUpdate
  <1>6. ASSUME NEW l \in Int, Descend(l, push_depth), UNCHANGED scopeVars
        PROVE  SpaceInv'
    <2> DEFINE t == [Top EXCEPT !.at = @ + 1, !.loc = l]
    <2>1. t = [Top EXCEPT !.at = @ + 1, !.loc = l]
      OBVIOUS
    <2> HIDE DEF t
    <2>2. t.node = n /\ t.at = Top.at + 1
      BY <1>1, <2>1, Advanced
    <2>3. Top.at < Len(n.nodes)
      BY <1>3, <1>6 DEF Descend
    <2>4. Within(t)
      BY <1>2, <1>3, <2>2, <2>3 DEF Within
    <2>5. /\ LocalsSum(n, Top.at) \in Nat /\ LocalsSum(n, Top.at + 1) \in Nat
          /\ LocalsSum(n, Top.at + 1) = LocalsSum(n, Top.at) + count_locals(n.nodes[Top.at + 1])
          /\ count_locals(n.nodes[Top.at + 1]) \in Nat /\ BlockLocals(n) \in Nat
      BY <1>2, <1>3, <2>3, SumStep, CountNat, BlockTyped
    <2>6. /\ Rem(Top) = BlockLocals(n) - LocalsSum(n, Top.at)
          /\ Rem(t) = BlockLocals(n) - LocalsSum(n, Top.at + 1)
      BY <1>2, <2>2 DEF Rem
    <2>7. cur_offset' = cur_offset
      BY <1>6 DEF scopeVars
    <2>8. Rem(t) + count_locals(n.nodes[Top.at + 1]) - cur_offset' <= Rem(Top) - cur_offset
      BY <1>2, <2>5, <2>6, <2>7
    <2>9. Nested(scope_stk', cur_offset')
      BY <1>2, <1>6 DEF scopeVars
    <2> QED
      BY <1>1, <1>3, <1>4, <1>6, <2>1, <2>4, <2>8, <2>9, SpaceDescend
  <1>7. CASE pop_scope /\ Return
    <2>1. Nested(scope_stk', cur_offset') /\ cur_offset <= cur_offset' /\ cur_offset' \in Int
      BY <1>2, <1>7, NestedPop
    <2>2. -cur_offset' <= Rem(Top) - cur_offset
      BY <1>2, <2>1
    <2> QED
      BY <1>1, <1>4, <1>7, <2>1, <2>2, SpaceReturn
  <1>8. 0 \in Int
    OBVIOUS
  <1> QED
    BY <1>5, <1>6, <1>7, <1>8 DEF gen_block

LEMMA stmt_space ==
  ASSUME Inv, SpaceInv, gen_stmt
  PROVE  SpaceInv'
  <1>0. Fresh \in Int
    BY DEF Fresh
  <1>1. CASE gen_return
    <2>1. /\ Running("AST_RETURN") /\ UNCHANGED <<walkVars, scopeVars>>
          /\ Return \/ Descend(Fresh, push_depth)
      BY <1>1 DEF gen_return
    <2> QED
      BY <1>0, <2>1, FlatReturn, FlatDescend DEF Flat
  <1>2. CASE gen_comment
    <2>1. Running("AST_COMMENT") /\ UNCHANGED <<walkVars, scopeVars>> /\ Return
      BY <1>2 DEF gen_comment
    <2> QED
      BY <2>1, FlatReturn DEF Flat
  <1> QED
    BY <1>1, <1>2, var_decl_space, if_space, block_space DEF gen_stmt

\* compute_frame_size makes room for the parameters and for every local.
LEMMA FrameCovers ==
  ASSUME NEW fr, Framed(fr), Within(fr), fr.node.type = "AST_FUNC_DECL"
  PROVE  Rem(fr) <= compute_frame_size(fr.node)
  <1> DEFINE n == fr.node
             b == fr.node.block
             ps == Len(fr.node.func_t.params)
             size == BlockLocals(b) + 8 * ps
  <1>1. WellFormed(n)
    BY ProgramsAssumption DEF Framed
  <1>2. IsBlock(b) /\ ps \in Nat
    BY <1>1 DEF WellFormed
  <1>3. Len(b.nodes) \in Nat /\ BlockLocals(b) \in Nat /\ b.type = "AST_BLOCK"
    BY <1>2, BlockTyped
  <1>4. fr.at \in 0..Len(b.nodes)
    BY <1>3 DEF Framed, Within, Subs
  <1>5. LocalsSum(b, fr.at) \in Nat /\ LocalsSum(b, fr.at) <= BlockLocals(b)
    BY <1>2, <1>4, SumsGrow
  <1>6. Stored(fr) \in 0..ps
    BY <1>2 DEF Within, Stored
  <1>7. Rem(fr) = BlockLocals(b) - LocalsSum(b, fr.at) + 8 * (ps - Stored(fr))
    BY DEF Rem
  <1>8. count_locals(b) = BlockLocals(b)
    BY <1>3 DEF count_locals
  <1>9. compute_frame_size(n) = IF size % 16 # 0 THEN size + (16 - (size % 16)) ELSE size
    BY <1>8 DEF compute_frame_size
  <1> HIDE DEF b, ps, n
  <1>10. Rem(fr) <= size /\ size \in Nat /\ Rem(fr) \in Int
    BY <1>2, <1>3, <1>5, <1>6, <1>7
  <1> HIDE DEF size
  <1>11. size <= compute_frame_size(n) /\ compute_frame_size(n) \in Int
    BY <1>9, <1>10
  <1>12. Rem(fr) <= compute_frame_size(n)
    BY <1>10, <1>11
  <1> QED
    BY <1>12 DEF n

\* Before its prologue a function has entered no scope.
LEMMA OnlyGlobals ==
  ASSUME Inv, SpaceInv, Running("AST_FUNC_DECL"), Top.loc = Fresh
  PROVE  Len(scope_stk) = 1
  <1>1. Len(frames) = 1 /\ Top = frames[1] /\ frames \in Seq(frame_t)
    BY TopSpace
  <1>2. Opened(frames) = {}
    BY <1>1 DEF Opened, Entered
  <1>3. Cardinality(Opened(frames)) = 0
    BY <1>2, FS_EmptySet
  <1> QED
    BY <1>3, InText DEF Inv

LEMMA func_space ==
  ASSUME Inv, SpaceInv, gen_func_decl
  PROVE  SpaceInv'
  <1>0. Fresh \in Int /\ 0 \in Int
    BY DEF Fresh
  <1>1. Running("AST_FUNC_DECL")
    BY DEF gen_func_decl, gen_func_enter, gen_func_param, gen_func_stmt, gen_func_return
  <1> DEFINE n == Top.node
             b == Top.node.block
             ps == Len(Top.node.func_t.params)
  <1>2. /\ n \in Node /\ n.type = "AST_FUNC_DECL" /\ Top.at \in Nat /\ Top.loc \in Int
        /\ Top \in frame_t /\ Within(Top) /\ WellFormed(n)
        /\ frames \in Seq(frame_t) /\ Len(frames) = 1 /\ Top = frames[1]
        /\ cur_offset \in Int /\ phase = "text" /\ Rem(Top) \in Nat
        /\ scope_stk \in Seq(ScopeType) /\ Len(scope_stk) > 0
        /\ Nested(scope_stk, cur_offset)
    BY <1>1, TopSpace DEF SpaceInv
  <1>3. IsBlock(b) /\ ps \in Nat
    BY <1>2 DEF WellFormed
  <1>4. /\ Subs(n) = b.nodes /\ Len(b.nodes) \in Nat /\ BlockLocals(b) \in Nat
    BY <1>2, <1>3, BlockTyped DEF Subs
  <1>5. FramesInv /\ frames # <<>>
    BY <1>1 DEF Inv, IInv, Running
  <1>6. CASE gen_func_enter
    <2>1. /\ Top.loc = Fresh /\ SetLoc(0) /\ phase' = "text"
          /\ cur_offset' = 0 /\ scope_stk' = Append(scope_stk, Scope(0))
      BY <1>2, <1>6 DEF gen_func_enter, walkVars
    <2> DEFINE t == [Top EXCEPT !.loc = 0]
    <2>2. t = [Top EXCEPT !.loc = 0]
      OBVIOUS
    <2> HIDE DEF t
    <2>3. /\ t \in frame_t /\ t.node = n /\ t.at = Top.at /\ t.loc = 0
          /\ frames' = [frames EXCEPT ![Len(frames)] = t]
      BY <1>0, <1>5, <2>1, <2>2, SettingLoc
    <2>4. Framed(t) /\ Within(t)
      BY <1>2, <1>3, <2>3 DEF Framed, Within
    <2>5. Nested(scope_stk', cur_offset')
      <3>1. Len(scope_stk) = 1
        BY <1>1, <2>1, OnlyGlobals
      <3>2. Nested(Append(scope_stk, Scope(0)), 0)
        BY <1>0, <1>2, <3>1, NestedPush
      <3> QED
        BY <2>1, <3>2
    <2>6. Len(frames') = 1 /\ frames'[1] = t
      BY <1>2, <2>3
    <2>7. FrameSize' = compute_frame_size(n) /\ compute_frame_size(n) \in Nat
      BY <1>2, <2>3, <2>6, FrameSizeRounded DEF FrameSize
    <2>8. Rem(t) <= compute_frame_size(n) /\ Rem(t) \in Nat
      BY <1>2, <2>3, <2>4, FrameCovers, RemNat
    <2>9. Room(frames', cur_offset', FrameSize')
      <3> DEFINE size == compute_frame_size(n)
                 lim == [k \in 1..1 |-> size]
      <3>1. lim \in [1..Len(frames') -> Int]
        BY <2>6, <2>7
      <3>2. \A k \in 1..Len(frames') : lim[k] <= size
        BY <2>6, <2>7
      <3>3. 1..Len(frames') - 1 = {}
        BY <2>6
      <3>4. lim[Len(frames')] = size
        BY <2>6
      <3> HIDE DEF lim, size
      <3>5. Rem(frames'[Len(frames')]) - 0 <= lim[Len(frames')]
        <4>1. Rem(frames'[Len(frames')]) = Rem(t)
          BY <2>6
        <4>2. Rem(t) <= size /\ size \in Nat /\ Rem(t) \in Nat
          BY <2>7, <2>8 DEF size
        <4> QED
          BY <3>4, <4>1, <4>2
      <3>6. Room(frames', 0, size)
        BY <3>1, <3>2, <3>3, <3>5 DEF Room
      <3> QED
        BY <2>1, <2>7, <3>6 DEF size
    <2> QED
      BY <2>1, <2>4, <2>5, <2>6, <2>9 DEF SpaceInv
  <1>7. CASE gen_func_param /\ ~std_compile_error
    <2> DEFINE k == Top.loc + 1
    <2>1. /\ Top.loc \in 0..ps - 1 /\ define_local(n.func_t.params[k].ident.name)
          /\ SetLoc(k) /\ phase' = "text"
      BY <1>2, <1>7 DEF gen_func_param, walkVars
    <2>2. k \in 1..ps /\ k \in Int /\ Top.loc # Fresh /\ k # Fresh /\ Top.loc \in Nat
      BY <1>3, <2>1 DEF Fresh
    <2>3. Nested(scope_stk', cur_offset') /\ cur_offset' = cur_offset - 8
      BY <1>2, <2>1, NestedLocal
    <2> DEFINE t == [Top EXCEPT !.loc = k]
    <2>4. t = [Top EXCEPT !.loc = k]
      OBVIOUS
    <2> HIDE DEF t
    <2>5. /\ t \in frame_t /\ t.node = n /\ t.at = Top.at /\ t.loc = k
          /\ frames' = [frames EXCEPT ![Len(frames)] = t]
      BY <1>5, <2>1, <2>2, <2>4, SettingLoc
    <2>6. Within(t) /\ Framed(t)
      <3>1. k \in 0..ps
        BY <1>3, <2>2
      <3> QED
        BY <1>2, <2>2, <2>5, <3>1 DEF Within, Framed
    <2>7. Rem(t) = Rem(Top) - 8
      <3> DEFINE rest == BlockLocals(b) - LocalsSum(b, Top.at)
      <3>1. Rem(Top) = rest + 8 * (ps - Top.loc)
        BY <1>2, <2>2 DEF Rem, Stored
      <3>2. Rem(t) = rest + 8 * (ps - k)
        BY <1>2, <2>2, <2>5 DEF Rem, Stored
      <3>3. rest \in Int
        <4>1. Top.at \in 0..Len(b.nodes)
          BY <1>2, <1>4 DEF Within
        <4> QED
          BY <1>3, <1>4, <4>1, SumsGrow
      <3> HIDE DEF rest, b, n, ps
      <3> QED
        BY <1>2, <1>3, <3>1, <3>2, <3>3, SMTT(30)
    <2>8. Rem(t) - cur_offset' <= Rem(Top) - cur_offset
      BY <1>2, <2>3, <2>7
    <2> QED
      BY <1>1, <2>1, <2>2, <2>3, <2>5, <2>6, <2>8, SpaceUpdate
  <1>8. CASE gen_func_stmt
    <2>1. UNCHANGED <<walkVars, scopeVars>> /\ Descend(Top.loc, push_depth) /\ Top.loc = ps
      BY <1>8 DEF gen_func_stmt, AllParams
    <2>2. Top.loc # Fresh
      BY <1>3, <2>1 DEF Fresh
    <2>0. PICK l \in Int : l = Top.loc
      BY <1>2
    <2> DEFINE t == [Top EXCEPT !.at = @ + 1, !.loc = l]
    <2>3. t = [Top EXCEPT !.at = @ + 1, !.loc = l]
      OBVIOUS
    <2> HIDE DEF t
    <2>4. t.node = n /\ t.at = Top.at + 1 /\ t.loc = Top.loc
      <3>1. t.node = Top.node /\ t.at = Top.at + 1 /\ t.loc = l
        BY <1>1, <2>3, Advanced
      <3> QED
        BY <2>0, <3>1
    <2>5. Top.at < Len(b.nodes)
      BY <1>4, <2>1 DEF Descend
    <2>6. Within(t)
      BY <1>2, <1>4, <2>4, <2>5 DEF Within
    <2> DEFINE c == count_locals(b.nodes[Top.at + 1])
    <2>7. /\ LocalsSum(b, Top.at) \in Nat /\ LocalsSum(b, Top.at + 1) \in Nat
          /\ LocalsSum(b, Top.at + 1) = LocalsSum(b, Top.at) + c
          /\ c \in Nat
      BY <1>2, <1>3, <2>5, SumStep, CountNat
    <2> DEFINE rest == 8 * (ps - Top.loc)
    <2>8. /\ Rem(Top) = BlockLocals(b) - LocalsSum(b, Top.at) + rest
          /\ Rem(t) = BlockLocals(b) - LocalsSum(b, Top.at + 1) + rest
      BY <1>2, <2>2, <2>4 DEF Rem, Stored
    <2>9. rest \in Int
      BY <1>2, <1>3
    <2>10. phase' = "text" /\ Nested(scope_stk', cur_offset') /\ cur_offset' = cur_offset
      BY <1>1, <2>1, Unscoping
    <2>11. Rem(t) + c - cur_offset' <= Rem(Top) - cur_offset
      <3> HIDE DEF rest, c, b
      <3> QED
        BY <1>2, <1>4, <2>7, <2>8, <2>9, <2>10, SMTT(30)
    <2> QED
      <3>1. Descend(l, push_depth)
        BY <2>0, <2>1
      <3> QED
        BY <1>1, <1>4, <2>2, <2>3, <2>6, <2>10, <2>11, <3>1, SpaceDescend
  <1>9. CASE gen_func_return
    <2>1. pop_scope /\ Return /\ phase' = "text"
      BY <1>2, <1>9 DEF gen_func_return, walkVars
    <2>2. Nested(scope_stk', cur_offset')
      BY <1>2, <2>1, NestedPop
    <2>3. Len(frames') = 0 /\ frames' \in Seq(frame_t)
      <3>1. frames \in Seq(frame_t) /\ Len(frames) > 0 /\ Len(frames) - 1 = 0
        BY <1>2
      <3>2. Len(frames') = Len(frames) - 1 /\ frames' \in Seq(frame_t)
        BY <2>1, <3>1, RemoveLast DEF Return
      <3> QED
        BY <3>1, <3>2
    <2>4. frames' = <<>>
      BY <2>3
    <2> QED
      BY <2>1, <2>2, <2>3, <2>4 DEF SpaceInv, InBody
  <1>10. std_compile_error => SpaceInv'
    BY SpaceError
  <1> QED
    BY <1>6, <1>7, <1>8, <1>9, <1>10 DEF gen_func_decl

LEMMA program_space ==
  ASSUME Inv, SpaceInv, gen_program
  PROVE  SpaceInv'
  <1>1. /\ cur_offset \in Int /\ scope_stk \in Seq(ScopeType) /\ Nested(scope_stk, cur_offset)
        /\ phase = "start" => scope_stk = <<>>
        /\ phase = "data" => Len(scope_stk) = 1
        /\ phase \in {"start", "data", "done"} => frames = <<>>
    BY DEF Inv, IInv, ScopeInv, SpaceInv, WalkInv
  <1>2. ASSUME frames' = <<>>, phase' # "start", Nested(scope_stk', cur_offset')
        PROVE  SpaceInv'
    BY <1>2 DEF SpaceInv, InBody
  <1>3. ASSUME phase = "start", push_scope, UNCHANGED cur_offset
        PROVE  Nested(scope_stk', cur_offset')
    <2>1. cur_offset = 0 /\ Len(scope_stk) = 0 /\ cur_offset <= 0
      BY <1>1, <1>3 DEF SpaceInv
    <2>2. Nested(Append(scope_stk, Scope(cur_offset)), cur_offset)
      BY <1>1, <2>1, NestedPush
    <2> QED
      BY <1>3, <2>2 DEF push_scope
  <1>4. CASE StartData
    BY <1>1, <1>2, <1>3, <1>4 DEF StartData
  <1>5. CASE StartText
    <2>1. frames' = <<>> /\ phase' # "start" /\ UNCHANGED cur_offset
      BY <1>1, <1>5 DEF StartText
    <2>2. Nested(scope_stk', cur_offset')
      BY <1>1, <1>3, <1>5, <2>1 DEF StartText
    <2> QED
      BY <1>2, <2>1, <2>2
  <1>6. CASE DataStep
    <2>1. /\ phase = "data" /\ phase' = phase /\ frames' = frames
          /\ define_global(program[i].ident.name)
      BY <1>6 DEF DataStep, gen_global
    <2>2. frames' = <<>> /\ phase' # "start" /\ Len(scope_stk) > 0
      BY <1>1, <2>1
    <2>3. Nested(scope_stk', cur_offset')
      BY <1>1, <2>1, <2>2, NestedGlobal
    <2> QED
      BY <1>2, <2>2, <2>3
  <1>7. CASE DataSkip
    BY <1>1, <1>2, <1>7 DEF DataSkip, scopeVars
  <1>8. CASE TextStep
    <2>1. /\ phase = "text" /\ phase' = "text" /\ Nested(scope_stk', cur_offset')
          /\ i \in 1..Len(program) /\ program \in Seq(Node)
      BY <1>1, <1>8, ProgramsAssumption DEF TextStep, scopeVars, Inv, IInv, WalkInv
    <2> DEFINE f == Frame(program[i], push_depth)
    <2>2. frames' = <<>> \/ (frames' = <<f>> /\ program[i].type = "AST_FUNC_DECL")
      BY <1>8 DEF TextStep
    <2>3. CASE frames' = <<>>
      BY <1>2, <2>1, <2>3
    <2>4. CASE frames' = <<f>> /\ program[i].type = "AST_FUNC_DECL"
      <3>1. f.at = 0 /\ f.loc = Fresh /\ f.node = program[i]
        BY DEF Frame
      <3> HIDE DEF f
      <3>2. program[i] \in Node
        BY <2>1
      <3>3. Len(Subs(program[i])) \in Nat
        BY <3>2, SubsTyped
      <3>4. Within(f)
        BY <3>1, <3>3 DEF Within
      <3>5. Len(frames') = 1 /\ frames'[1] = f
        BY <2>4
      <3> QED
        BY <2>1, <3>1, <3>4, <3>5 DEF SpaceInv, InBody
    <2> QED
      BY <2>2, <2>3, <2>4
  <1>9. CASE FinishProgram
    <2>1. frames' = <<>> /\ phase' # "start" /\ pop_scope /\ phase = "text"
      BY <1>9 DEF FinishProgram
    <2>2. Len(scope_stk) > 0
      <3>1. frames = <<>> /\ Len(scope_stk) = 1 + Cardinality(Opened(frames))
        BY <1>9 DEF FinishProgram, Inv, ScopeInv
      <3> QED
        BY <3>1, NoneOpened
    <2>3. Nested(scope_stk', cur_offset')
      BY <1>1, <2>1, <2>2, NestedPop
    <2> QED
      BY <1>2, <2>1, <2>3
  <1> QED
    BY <1>4, <1>5, <1>6, <1>7, <1>8, <1>9 DEF gen_program

LEMMA SpaceKept ==
  ASSUME Inv, SpaceInv, [Next]_vars
  PROVE  SpaceInv'
  <1>1. CASE UNCHANGED vars
    BY <1>1 DEF vars, walkVars, scopeVars, SpaceInv, InBody, FrameSize
  <1> QED
    BY <1>1, expr_space, stmt_space, func_space, program_space DEF Next, Generate, Terminated

(***************************************************************************)
(* The frame is big enough, for every function of every program: whatever  *)
(* nesting of blocks and ifs declares them, each local's slot lies between *)
(* the saved %rbp and the first pushed value, so no store to a local       *)
(* overwrites an operand or an argument in the making.                     *)
(***************************************************************************)
THEOREM LocalsStayInFrame == Spec => []LocalsInFrame
  <1>1. Init => SpaceInv
    <2> SUFFICES ASSUME Init
                 PROVE  SpaceInv
      OBVIOUS
    <2>1. cur_offset = 0 /\ Len(scope_stk) = 0 /\ Len(frames) = 0 /\ frames = <<>>
      BY DEF Init
    <2>2. Nested(scope_stk, cur_offset)
      BY <2>1 DEF Nested
    <2> QED
      BY <2>1, <2>2 DEF SpaceInv, InBody
  <1>2. Inv /\ SpaceInv /\ [Next]_vars => SpaceInv'
    BY SpaceKept
  <1>3. Inv /\ SpaceInv => LocalsInFrame
    <2> SUFFICES ASSUME Inv, SpaceInv, InBody
                 PROVE  cur_offset \in -FrameSize..0
      BY DEF LocalsInFrame
    <2>1. FramesInv /\ frames # <<>> /\ frames \in Seq(frame_t)
      BY DEF Inv, IInv, FramesInv, InBody
    <2>2. /\ Len(frames) \in Nat /\ Len(frames) > 0 /\ Top = frames[Len(frames)]
          /\ Top \in frame_t
      BY <2>1, TopTyped
    <2>3. Within(Top) /\ Framed(Top)
      <3>1. Within(Top)
        BY <2>2 DEF SpaceInv
      <3> QED
        BY <2>2, <3>1 DEF Framed, frame_t
    <2>4. Rem(frames[Len(frames)]) \in Nat
      BY <2>2, <2>3, RemNat
    <2>5. cur_offset \in Int /\ cur_offset <= 0 /\ Room(frames, cur_offset, FrameSize)
      BY DEF SpaceInv, Nested
    <2>6. FrameSize \in Int
      <3>1. 1 \in 1..Len(frames) /\ frames[1] \in frame_t
        BY <2>1, <2>2
      <3>2. frames[1].node \in Node /\ frames[1].node.type = "AST_FUNC_DECL"
        BY <2>1, <3>1 DEF frame_t, FramesInv, IsWalk
      <3> QED
        BY <3>2, FrameSizeRounded DEF FrameSize
    <2>7. -cur_offset <= FrameSize
      BY <2>2, <2>4, <2>5, <2>6, RoomEnough
    <2> QED
      BY <2>5, <2>6, <2>7
  <1> QED
    BY <1>1, <1>2, <1>3, Invariance, PTL DEF Spec

-----------------------------------------------------------------------------
(* The labels of the emitted lines *)

\* A line that neither jumps, nor defines a local label, nor opens a function.
Mute(x) ==
  /\ x.op \notin {"jmp", "je", ".globl"}
  /\ x.op = "label" => x.dst.name # NoName

Defines(x) == x.op = "label" /\ x.dst.name = NoName
SameFunctionUpTo(s, k, l) == \A j \in k+1..l : s[j].op # ".globl"

(***************************************************************************)
(* What LabelsResolve says of a program that is not finished: `n` labels   *)
(* have been made, the ones in `due` are still to be defined, each of the  *)
(* others at most once, and a jump goes to a label defined further on or   *)
(* to one that is due, in the function that is being generated.            *)
(***************************************************************************)
Resolved(s, due, n) ==
  /\ due \subseteq 0..n-1
  /\ \A k \in 1..Len(s) :
       Defines(s[k]) => \E m \in 0..n-1 : m \notin due /\ s[k].dst = mk_local_label(m)
  /\ \A k, l \in 1..Len(s) : Defines(s[k]) /\ Defines(s[l]) /\ s[k].dst = s[l].dst => k = l
  /\ \A k \in 1..Len(s) :
       s[k].op \in {"jmp", "je"} =>
         \/ /\ s[k].src.num \in due
            /\ SameFunctionUpTo(s, k, Len(s))
         \/ \E l \in 1..Len(s) :
              /\ l > k
              /\ s[l].op = "label" /\ s[l].dst = mk_local_label(s[k].src.num)
              /\ SameFunctionUpTo(s, k, l)

\* t is s with some lines added.
Grows(s, t) ==
  /\ Len(s) \in Nat /\ Len(t) \in Nat /\ Len(s) <= Len(t)
  /\ \A k \in 1..Len(s) : t[k] = s[k]
Adds(s, t, x) == Grows(s, t) /\ Len(t) = Len(s) + 1 /\ t[Len(t)] = x
AddsMute(s, t) == Grows(s, t) /\ \A k \in Len(s)+1..Len(t) : Mute(t[k])

LEMMA LabelNumber ==
  ASSUME NEW m, NEW k
  PROVE  /\ mk_local_label(m).name = NoName /\ mk_local_label(m).num = m
         /\ mk_local_label(m) = mk_local_label(k) => m = k
  BY DEF mk_local_label, NoOperand

LEMMA KeepsJumps ==
  ASSUME NEW s, NEW t, Grows(s, t), NEW k \in 1..Len(s), NEW l \in 1..Len(s),
         SameFunctionUpTo(s, k, l)
  PROVE  SameFunctionUpTo(t, k, l)
  BY DEF SameFunctionUpTo, Grows

LEMMA ResolvedMute ==
  ASSUME NEW s, NEW t, AddsMute(s, t), NEW due, NEW n \in Nat, Resolved(s, due, n)
  PROVE  Resolved(t, due, n)
  <1>1. /\ Len(s) \in Nat /\ Len(t) \in Nat /\ Len(s) <= Len(t)
        /\ \A k \in 1..Len(s) : t[k] = s[k]
        /\ \A k \in 1..Len(t) : k \notin 1..Len(s) => Mute(t[k])
    BY DEF AddsMute, Grows
  <1>2. \A k \in 1..Len(t) : Defines(t[k]) => k \in 1..Len(s) /\ Defines(s[k])
    BY <1>1 DEF Mute, Defines
  <1>3. \A k \in 1..Len(t) : t[k].op \in {"jmp", "je"} => k \in 1..Len(s) /\ t[k] = s[k]
    BY <1>1 DEF Mute
  <1>4. \A k \in 1..Len(s) : SameFunctionUpTo(s, k, Len(s)) => SameFunctionUpTo(t, k, Len(t))
    BY <1>1 DEF SameFunctionUpTo, Mute
  <1>5. \A k, l \in 1..Len(s) : SameFunctionUpTo(s, k, l) => SameFunctionUpTo(t, k, l)
    BY KeepsJumps DEF AddsMute
  <1>6. ASSUME NEW k \in 1..Len(t), t[k].op \in {"jmp", "je"}
        PROVE  \/ t[k].src.num \in due /\ SameFunctionUpTo(t, k, Len(t))
               \/ \E l \in 1..Len(t) :
                    /\ l > k
                    /\ t[l].op = "label" /\ t[l].dst = mk_local_label(t[k].src.num)
                    /\ SameFunctionUpTo(t, k, l)
    <2>1. k \in 1..Len(s) /\ t[k] = s[k]
      BY <1>3, <1>6
    <2>2. CASE s[k].src.num \in due /\ SameFunctionUpTo(s, k, Len(s))
      BY <1>4, <2>1, <2>2
    <2>3. ASSUME NEW l \in 1..Len(s), l > k, s[l].op = "label",
                 s[l].dst = mk_local_label(s[k].src.num), SameFunctionUpTo(s, k, l)
          PROVE  /\ l \in 1..Len(t) /\ t[l].op = "label"
                 /\ t[l].dst = mk_local_label(t[k].src.num) /\ SameFunctionUpTo(t, k, l)
      BY <1>1, <1>5, <2>1, <2>3
    <2> QED
      BY <1>6, <2>1, <2>2, <2>3 DEF Resolved
  <1>7. \A k \in 1..Len(t) :
          Defines(t[k]) => \E m \in 0..n-1 : m \notin due /\ t[k].dst = mk_local_label(m)
    BY <1>1, <1>2 DEF Resolved
  <1>8. \A k, l \in 1..Len(t) : Defines(t[k]) /\ Defines(t[l]) /\ t[k].dst = t[l].dst => k = l
    BY <1>1, <1>2 DEF Resolved
  <1> QED
    BY <1>6, <1>7, <1>8 DEF Resolved

\* A jump to a label that is due.
LEMMA ResolvedJump ==
  ASSUME NEW s, NEW t, NEW x, Adds(s, t, x), x.op \in {"jmp", "je"},
         NEW due, NEW n \in Nat, Resolved(s, due, n), x.src.num \in due
  PROVE  Resolved(t, due, n)
  <1>1. /\ Len(s) \in Nat /\ Len(t) \in Nat /\ Len(s) <= Len(t) /\ Len(t) = Len(s) + 1
        /\ \A k \in 1..Len(s) : t[k] = s[k]
        /\ \A k \in 1..Len(t) : k \notin 1..Len(s) => k = Len(t) /\ t[k] = x
    BY DEF Adds, Grows
  <1>2. \A k \in 1..Len(t) : Defines(t[k]) => k \in 1..Len(s) /\ Defines(s[k])
    BY <1>1 DEF Defines
  <1>4. \A k \in 1..Len(s) : SameFunctionUpTo(s, k, Len(s)) => SameFunctionUpTo(t, k, Len(t))
    BY <1>1 DEF SameFunctionUpTo
  <1>5. \A k, l \in 1..Len(s) : SameFunctionUpTo(s, k, l) => SameFunctionUpTo(t, k, l)
    BY KeepsJumps DEF Adds
  <1>6. ASSUME NEW k \in 1..Len(t), t[k].op \in {"jmp", "je"}
        PROVE  \/ t[k].src.num \in due /\ SameFunctionUpTo(t, k, Len(t))
               \/ \E l \in 1..Len(t) :
                    /\ l > k
                    /\ t[l].op = "label" /\ t[l].dst = mk_local_label(t[k].src.num)
                    /\ SameFunctionUpTo(t, k, l)
    <2>1. CASE k \notin 1..Len(s)
      BY <1>1, <2>1 DEF SameFunctionUpTo
    <2>2. CASE k \in 1..Len(s) /\ s[k].src.num \in due /\ SameFunctionUpTo(s, k, Len(s))
      BY <1>1, <1>4, <2>2
    <2>3. ASSUME k \in 1..Len(s), NEW l \in 1..Len(s), l > k, s[l].op = "label",
                 s[l].dst = mk_local_label(s[k].src.num), SameFunctionUpTo(s, k, l)
          PROVE  /\ l \in 1..Len(t) /\ t[l].op = "label"
                 /\ t[l].dst = mk_local_label(t[k].src.num) /\ SameFunctionUpTo(t, k, l)
      BY <1>1, <1>5, <2>3
    <2> QED
      BY <1>1, <1>6, <2>1, <2>2, <2>3 DEF Resolved
  <1>7. \A k \in 1..Len(t) :
          Defines(t[k]) => \E m \in 0..n-1 : m \notin due /\ t[k].dst = mk_local_label(m)
    BY <1>1, <1>2 DEF Resolved
  <1>8. \A k, l \in 1..Len(t) : Defines(t[k]) /\ Defines(t[l]) /\ t[k].dst = t[l].dst => k = l
    BY <1>1, <1>2 DEF Resolved
  <1> QED
    BY <1>6, <1>7, <1>8 DEF Resolved

\* The definition of a label that is due: it no longer is.
LEMMA ResolvedLabel ==
  ASSUME NEW s, NEW t, NEW m, Adds(s, t, Label(mk_local_label(m))),
         NEW due, NEW n \in Nat, Resolved(s, due, n), m \in due
  PROVE  Resolved(t, due \ {m}, n)
  <1> DEFINE x == Label(mk_local_label(m))
  <1>0. x.op = "label" /\ x.dst = mk_local_label(m) /\ m \in 0..n-1
    BY DEF Label, Line, Resolved
  <1>1. /\ Len(s) \in Nat /\ Len(t) \in Nat /\ Len(s) <= Len(t) /\ Len(t) = Len(s) + 1
        /\ \A k \in 1..Len(s) : t[k] = s[k]
        /\ \A k \in 1..Len(t) : k \notin 1..Len(s) => k = Len(t) /\ t[k] = x
        /\ t[Len(t)] = x
    BY DEF Adds, Grows
  <1> HIDE DEF x
  <1>4. \A k \in 1..Len(s) : SameFunctionUpTo(s, k, Len(s)) => SameFunctionUpTo(t, k, Len(t))
    BY <1>0, <1>1 DEF SameFunctionUpTo
  <1>5. \A k, l \in 1..Len(s) : SameFunctionUpTo(s, k, l) => SameFunctionUpTo(t, k, l)
    BY KeepsJumps DEF Adds
  <1>6. ASSUME NEW k \in 1..Len(t), t[k].op \in {"jmp", "je"}
        PROVE  \/ t[k].src.num \in due \ {m} /\ SameFunctionUpTo(t, k, Len(t))
               \/ \E l \in 1..Len(t) :
                    /\ l > k
                    /\ t[l].op = "label" /\ t[l].dst = mk_local_label(t[k].src.num)
                    /\ SameFunctionUpTo(t, k, l)
    <2>1. k \in 1..Len(s) /\ t[k] = s[k]
      BY <1>0, <1>1, <1>6
    <2>2. CASE s[k].src.num \in due /\ SameFunctionUpTo(s, k, Len(s)) /\ s[k].src.num # m
      BY <1>4, <2>1, <2>2
    <2>3. CASE s[k].src.num = m /\ SameFunctionUpTo(s, k, Len(s))
      <3>1. /\ Len(t) \in 1..Len(t) /\ Len(t) > k /\ t[Len(t)].op = "label"
            /\ t[Len(t)].dst = mk_local_label(t[k].src.num)
        BY <1>0, <1>1, <2>1, <2>3
      <3> QED
        BY <1>4, <2>1, <2>3, <3>1
    <2>4. ASSUME NEW l \in 1..Len(s), l > k, s[l].op = "label",
                 s[l].dst = mk_local_label(s[k].src.num), SameFunctionUpTo(s, k, l)
          PROVE  /\ l \in 1..Len(t) /\ t[l].op = "label"
                 /\ t[l].dst = mk_local_label(t[k].src.num) /\ SameFunctionUpTo(t, k, l)
      BY <1>1, <1>5, <2>1, <2>4
    <2> QED
      BY <1>6, <2>1, <2>2, <2>3, <2>4 DEF Resolved
  <1>7. \A k \in 1..Len(s) :
          Defines(s[k]) => \E j \in 0..n-1 : j \notin due /\ s[k].dst = mk_local_label(j)
    BY DEF Resolved
  <1>8. \A k \in 1..Len(s) : Defines(s[k]) => s[k].dst # x.dst
    BY <1>0, <1>7, LabelNumber
  <1>9. \A k \in 1..Len(t) :
          Defines(t[k]) => \E j \in 0..n-1 : j \notin due \ {m} /\ t[k].dst = mk_local_label(j)
    BY <1>0, <1>1, <1>7
  <1>10. \A k, l \in 1..Len(t) : Defines(t[k]) /\ Defines(t[l]) /\ t[k].dst = t[l].dst => k = l
    <2>1. \A k, l \in 1..Len(s) : Defines(s[k]) /\ Defines(s[l]) /\ s[k].dst = s[l].dst => k = l
      BY DEF Resolved
    <2> QED
      BY <1>1, <1>8, <2>1
  <1> QED
    BY <1>6, <1>9, <1>10 DEF Resolved

\* A function begins when no label is due.
LEMMA ResolvedGlobl ==
  ASSUME NEW s, NEW t, NEW x, Adds(s, t, x), x.op = ".globl", NEW n \in Nat, Resolved(s, {}, n)
  PROVE  Resolved(t, {}, n)
  <1>1. /\ Len(s) \in Nat /\ Len(t) \in Nat /\ Len(s) <= Len(t) /\ Len(t) = Len(s) + 1
        /\ \A k \in 1..Len(s) : t[k] = s[k]
        /\ \A k \in 1..Len(t) : k \notin 1..Len(s) => t[k] = x
    BY DEF Adds, Grows
  <1>2. \A k \in 1..Len(t) : Defines(t[k]) => k \in 1..Len(s) /\ Defines(s[k])
    BY <1>1 DEF Defines
  <1>3. \A k, l \in 1..Len(s) : SameFunctionUpTo(s, k, l) => SameFunctionUpTo(t, k, l)
    BY KeepsJumps DEF Adds
  <1>4. ASSUME NEW k \in 1..Len(t), t[k].op \in {"jmp", "je"}
        PROVE  \E l \in 1..Len(t) :
                 /\ l > k
                 /\ t[l].op = "label" /\ t[l].dst = mk_local_label(t[k].src.num)
                 /\ SameFunctionUpTo(t, k, l)
    <2>1. k \in 1..Len(s) /\ t[k] = s[k]
      BY <1>1, <1>4
    <2>2. PICK l \in 1..Len(s) :
            /\ l > k
            /\ s[l].op = "label" /\ s[l].dst = mk_local_label(s[k].src.num)
            /\ SameFunctionUpTo(s, k, l)
      BY <1>4, <2>1 DEF Resolved
    <2>3. l \in 1..Len(t) /\ t[l] = s[l] /\ SameFunctionUpTo(t, k, l)
      BY <1>1, <1>3, <2>1, <2>2
    <2> QED
      BY <2>1, <2>2, <2>3
  <1>5. \A k \in 1..Len(t) :
          Defines(t[k]) => \E m \in 0..n-1 : m \notin {} /\ t[k].dst = mk_local_label(m)
    BY <1>1, <1>2 DEF Resolved
  <1>6. \A k, l \in 1..Len(t) : Defines(t[k]) /\ Defines(t[l]) /\ t[k].dst = t[l].dst => k = l
    BY <1>1, <1>2 DEF Resolved
  <1> QED
    BY <1>4, <1>5, <1>6 DEF Resolved

\* New labels are due from the start.
LEMMA ResolvedFresh ==
  ASSUME NEW s, NEW due, NEW n \in Nat, Resolved(s, due, n),
         NEW c \in Nat, NEW more, more \subseteq n..n+c-1
  PROVE  Resolved(s, due \cup more, n + c)
  <1>1. due \subseteq 0..n-1 /\ 0..n-1 \subseteq 0..n+c-1 /\ more \subseteq 0..n+c-1
    BY DEF Resolved
  <1>2. \A m \in 0..n-1 : m \notin more
    OBVIOUS
  <1>3. ASSUME NEW k \in 1..Len(s), Defines(s[k])
        PROVE  \E m \in 0..n+c-1 : m \notin due \cup more /\ s[k].dst = mk_local_label(m)
    <2>1. PICK m \in 0..n-1 : m \notin due /\ s[k].dst = mk_local_label(m)
      BY <1>3 DEF Resolved
    <2> QED
      BY <1>1, <1>2, <2>1
  <1> QED
    BY <1>1, <1>3 DEF Resolved

-----------------------------------------------------------------------------
(* The lines an action emits *)

LEMMA Joined ==
  ASSUME NEW S, NEW s \in Seq(S), NEW T, NEW l \in Seq(T)
  PROVE  /\ Len(s) \in Nat /\ Len(l) \in Nat /\ Len(s \o l) = Len(s) + Len(l)
         /\ \A k \in 1..Len(s) : (s \o l)[k] = s[k]
         /\ \A k \in 1..Len(l) : (s \o l)[Len(s) + k] = l[k]
  OBVIOUS

LEMMA TailMute ==
  ASSUME NEW S, NEW s \in Seq(S), NEW T, NEW l \in Seq(T), \A k \in 1..Len(l) : Mute(l[k])
  PROVE  AddsMute(s, s \o l)
  <1> DEFINE t == s \o l
  <1>1. /\ Len(s) \in Nat /\ Len(l) \in Nat /\ Len(t) = Len(s) + Len(l)
        /\ \A k \in 1..Len(s) : t[k] = s[k]
        /\ \A k \in 1..Len(l) : t[Len(s) + k] = l[k]
    BY Joined
  <1> HIDE DEF t
  <1>2. ASSUME NEW k \in Len(s)+1..Len(t)
        PROVE  Mute(t[k])
    <2>1. k - Len(s) \in 1..Len(l) /\ k = Len(s) + (k - Len(s))
      BY <1>1
    <2> QED
      BY <1>1, <2>1
  <1>3. AddsMute(s, t)
    BY <1>1, <1>2 DEF AddsMute, Grows
  <1> QED
    BY <1>3 DEF t

LEMMA TuplesMute ==
  ASSUME NEW S, NEW s \in Seq(S), NEW a, NEW b, NEW c, NEW d, NEW e,
         Mute(a), Mute(b), Mute(c), Mute(d), Mute(e)
  PROVE  /\ AddsMute(s, s \o <<>>)
         /\ AddsMute(s, s \o <<a>>)
         /\ AddsMute(s, s \o <<a, b>>)
         /\ AddsMute(s, s \o <<a, b, c>>)
         /\ AddsMute(s, s \o <<a, b, c, d>>)
         /\ AddsMute(s, s \o <<a, b, c, d, e>>)
  <1> DEFINE T == {a, b, c, d, e}
  <1>1. /\ <<>> \in Seq(T) /\ <<a>> \in Seq(T) /\ <<a, b>> \in Seq(T) /\ <<a, b, c>> \in Seq(T)
        /\ <<a, b, c, d>> \in Seq(T) /\ <<a, b, c, d, e>> \in Seq(T)
    OBVIOUS
  <1>2. \A l \in Seq(T) : \A k \in 1..Len(l) : Mute(l[k])
    <2> SUFFICES ASSUME NEW l \in Seq(T), NEW k \in 1..Len(l)
                 PROVE  Mute(l[k])
      OBVIOUS
    <2>1. l[k] \in T
      OBVIOUS
    <2> QED
      BY <2>1
  <1> HIDE DEF T
  <1>3. \A l \in Seq(T) : AddsMute(s, s \o l)
    BY <1>2, TailMute
  <1> QED
    BY <1>1, <1>3

\* Written-out lines are emitted one after the other.
LEMMA TuplesAdd ==
  ASSUME NEW S, NEW s \in Seq(S), NEW a, NEW b, NEW c
  PROVE  /\ Adds(s, s \o <<a>>, a)
         /\ Adds(s \o <<a>>, s \o <<a, b>>, b)
         /\ Adds(s \o <<a, b>>, s \o <<a, b, c>>, c)
  <1> DEFINE T == {a, b, c}
             la == <<a>>
             lb == <<a, b>>
             lc == <<a, b, c>>
             t1 == s \o la
             t2 == s \o lb
             t3 == s \o lc
             n == Len(s)
  <1>1. la \in Seq(T) /\ lb \in Seq(T) /\ lc \in Seq(T)
    OBVIOUS
  <1>2. /\ Len(la) = 1 /\ Len(lb) = 2 /\ Len(lc) = 3
        /\ la[1] = a /\ lb[1] = a /\ lb[2] = b /\ lc[1] = a /\ lc[2] = b /\ lc[3] = c
    OBVIOUS
  <1> HIDE DEF T, la, lb, lc
  <1>0. /\ n \in Nat
        /\ Len(t1) = n + Len(la) /\ Len(t2) = n + Len(lb) /\ Len(t3) = n + Len(lc)
        /\ \A k \in 1..n : t1[k] = s[k] /\ t2[k] = s[k] /\ t3[k] = s[k]
        /\ \A k \in 1..Len(la) : t1[n + k] = la[k]
        /\ \A k \in 1..Len(lb) : t2[n + k] = lb[k]
        /\ \A k \in 1..Len(lc) : t3[n + k] = lc[k]
    BY <1>1, Joined
  <1> HIDE DEF t1, t2, t3, n
  <1>3. Len(t1) = n + 1 /\ t1[n + 1] = a
    BY <1>0, <1>2
  <1>4. Len(t2) = n + 2 /\ t2[n + 1] = a /\ t2[n + 2] = b
    BY <1>0, <1>2
  <1>5. Len(t3) = n + 3 /\ t3[n + 1] = a /\ t3[n + 2] = b /\ t3[n + 3] = c
    BY <1>0, <1>2
  <1>6. Adds(s, t1, a)
    BY <1>0, <1>3 DEF Adds, Grows, n
  <1>7. Adds(t1, t2, b)
    <2>1. \A k \in 1..n + 1 : t2[k] = t1[k]
      <3>1. \A k \in 1..n + 1 : k \in 1..n \/ k = n + 1
        BY <1>0
      <3>2. \A k \in 1..n : t2[k] = t1[k]
        BY <1>0
      <3> QED
        BY <1>3, <1>4, <3>1, <3>2
    <2> QED
      BY <1>0, <1>3, <1>4, <2>1 DEF Adds, Grows
  <1>8. Adds(t2, t3, c)
    <2>1. \A k \in 1..n + 2 : t3[k] = t2[k]
      <3>1. \A k \in 1..n + 2 : k \in 1..n \/ k = n + 1 \/ k = n + 2
        BY <1>0
      <3>2. \A k \in 1..n : t3[k] = t2[k]
        BY <1>0
      <3> QED
        BY <1>4, <1>5, <3>1, <3>2
    <2> QED
      BY <1>0, <1>4, <1>5, <2>1 DEF Adds, Grows
  <1> QED
    BY <1>6, <1>7, <1>8 DEF t1, t2, t3, la, lb, lc

\* The lines after the first.
LEMMA RestMute ==
  ASSUME NEW S, NEW s \in Seq(S), NEW T, NEW l \in Seq(T), NEW a, Len(l) > 0, l[1] = a,
         \A k \in 2..Len(l) : Mute(l[k])
  PROVE  Adds(s, s \o <<a>>, a) /\ AddsMute(s \o <<a>>, s \o l)
  <1> DEFINE t1 == s \o <<a>>
             t == s \o l
             n == Len(s)
  <1>1. /\ n \in Nat /\ Len(l) \in Nat /\ Len(t) = n + Len(l)
        /\ \A k \in 1..n : t[k] = s[k]
        /\ \A k \in 1..Len(l) : t[n + k] = l[k]
    BY Joined
  <1>2. Adds(s, t1, a)
    BY TuplesAdd
  <1> HIDE DEF t, t1
  <1>3. Len(t1) = n + 1 /\ t1[n + 1] = a /\ \A k \in 1..n : t1[k] = s[k]
    BY <1>2 DEF Adds, Grows
  <1>4. t[n + 1] = a
    BY <1>1
  <1>5. \A k \in 1..n + 1 : t[k] = t1[k]
    BY <1>1, <1>3, <1>4
  <1>6. ASSUME NEW k \in n+2..Len(t)
        PROVE  Mute(t[k])
    <2>1. k - n \in 2..Len(l) /\ k - n \in 1..Len(l) /\ k = n + (k - n)
      BY <1>1
    <2> QED
      BY <1>1, <2>1
  <1> HIDE DEF n
  <1>7. AddsMute(t1, t)
    BY <1>1, <1>3, <1>5, <1>6 DEF AddsMute, Grows
  <1> QED
    BY <1>2, <1>7 DEF t, t1

-----------------------------------------------------------------------------
(* The labels the frames still have to define *)

\* gen_if makes else_lbl and end_lbl before the condition and defines them
\* after the branches.
Owed(fr) ==
  CASE fr.node.type = "AST_IF" /\ fr.at \in {1, 2} -> {fr.loc, fr.loc + 1}
    [] fr.node.type = "AST_IF" /\ fr.at = 3        -> {fr.loc + 1}
    [] OTHER                                       -> {}

OwedAt(fs, k) == IF k \in 1..Len(fs) THEN Owed(fs[k]) ELSE {}
Due(fs, e) == ({e} \ {NoLabel}) \cup UNION {OwedAt(fs, k) : k \in Nat}

(***************************************************************************)
(* No two frames, and no frame and the function, are to define the same    *)
(* label.  A function has its epilogue label while its body is generated.  *)
(***************************************************************************)
Apart(fs, e) ==
  /\ \A j, k \in Nat : j # k => OwedAt(fs, j) \cap OwedAt(fs, k) = {}
  /\ \A k \in Nat : e \notin OwedAt(fs, k)

LabelInv ==
  phase # "error" =>
    /\ Apart(frames, epilogue_label)
    /\ InBody <=> epilogue_label # NoLabel
    /\ Resolved(out, Due(frames, epilogue_label), label_count)

\* A step after which the frames owe what they owed.
SameOwed == \A k \in Nat : OwedAt(frames', k) = OwedAt(frames, k)

LEMMA OwedKept ==
  ASSUME SameOwed, NEW e
  PROVE  /\ Due(frames', e) = Due(frames, e)
         /\ Apart(frames, e) => Apart(frames', e)
  BY DEF SameOwed, Due, Apart

\* A step of the youngest frame, which defines the labels in `gone`.
LEMMA OwedLess ==
  ASSUME NEW n \in Nat, \A k \in Nat : k # n => OwedAt(frames', k) = OwedAt(frames, k),
         NEW gone, gone \subseteq OwedAt(frames, n),
         OwedAt(frames', n) = OwedAt(frames, n) \ gone,
         NEW e, Apart(frames, e)
  PROVE  /\ Due(frames', e) = Due(frames, e) \ gone
         /\ Apart(frames', e)
  <1>1. \A k \in Nat : OwedAt(frames', k) = OwedAt(frames, k) \ gone
    BY DEF Apart
  <1>2. e \notin gone
    BY DEF Apart
  <1>3. Apart(frames', e)
    BY <1>1 DEF Apart
  <1>4. \A x : x \in Due(frames', e) <=> x \in Due(frames, e) \ gone
    BY <1>1, <1>2 DEF Due
  <1> QED
    BY <1>3, <1>4

\* A step of the youngest frame, which makes the labels in `more`.
LEMMA OwedMore ==
  ASSUME NEW n \in Nat, \A k \in Nat : k # n => OwedAt(frames', k) = OwedAt(frames, k),
         NEW more, OwedAt(frames, n) = {}, OwedAt(frames', n) = more,
         NEW e, Apart(frames, e), more \cap Due(frames, e) = {}, NoLabel \notin more
  PROVE  /\ Due(frames', e) = Due(frames, e) \cup more
         /\ Apart(frames', e)
  <1>1. \A k \in Nat : more \cap OwedAt(frames, k) = {}
    BY DEF Due
  <1>2. e \notin more
    BY DEF Due
  <1>3. Apart(frames', e)
    BY <1>1, <1>2 DEF Apart
  <1>4. \A x : x \in Due(frames', e) <=> x \in Due(frames, e) \cup more
    BY DEF Due
  <1> QED
    BY <1>3, <1>4

-----------------------------------------------------------------------------
(* How the steps change what the frames owe *)

\* What the step of a frame that is not a function's does to the frames.
Moves ==
  \/ Return
  \/ \E l \in Int : \E depth : Descend(l, depth)
  \/ \E t \in frame_t : t.node = Top.node /\ frames' = [frames EXCEPT ![Len(frames)] = t]

LEMMA SetLocMoves ==
  ASSUME FramesInv, frames # <<>>, NEW l \in Int, SetLoc(l)
  PROVE  Moves
  <1> DEFINE t == [Top EXCEPT !.loc = l]
  <1>1. t = [Top EXCEPT !.loc = l]
    OBVIOUS
  <1> HIDE DEF t
  <1> QED
    BY <1>1, SettingLoc DEF Moves

LEMMA ReturnOwed ==
  ASSUME FramesInv, frames # <<>>, Return
  PROVE  /\ Len(frames) \in Nat
         /\ \A k \in Nat : k # Len(frames) => OwedAt(frames', k) = OwedAt(frames, k)
         /\ OwedAt(frames, Len(frames)) = Owed(Top)
         /\ OwedAt(frames', Len(frames)) = {}
  <1> DEFINE n == Len(frames)
  <1>1. frames \in Seq(frame_t) /\ n \in Nat /\ n > 0 /\ Top = frames[n]
    BY TopTyped DEF FramesInv
  <1>2. Len(frames') = n - 1 /\ \A k \in 1..n - 1 : frames'[k] = frames[k]
    BY <1>1, RemoveLast DEF Return
  <1>3. n \in 1..n /\ n \notin 1..n - 1 /\ \A k \in Nat : k # n => (k \in 1..n <=> k \in 1..n - 1)
    BY <1>1
  <1> QED
    BY <1>1, <1>2, <1>3 DEF OwedAt

LEMMA DescendOwed ==
  ASSUME FramesInv, frames # <<>>, NEW l \in Int, NEW depth, Descend(l, depth),
         NEW t, t = [Top EXCEPT !.at = @ + 1, !.loc = l]
  PROVE  /\ Len(frames) \in Nat
         /\ \A k \in Nat : k # Len(frames) => OwedAt(frames', k) = OwedAt(frames, k)
         /\ OwedAt(frames, Len(frames)) = Owed(Top)
         /\ OwedAt(frames', Len(frames)) = Owed(t)
  <1> DEFINE n == Len(frames)
             new == Frame(Subs(Top.node)[Top.at + 1], depth)
  <1>1. frames \in Seq(frame_t) /\ n \in Nat /\ n > 0 /\ Top = frames[n]
    BY TopTyped DEF FramesInv
  <1>2. /\ Len(frames') = n + 1
        /\ \A k \in 1..n : frames'[k] = IF k = n THEN t ELSE frames[k]
        /\ frames'[n + 1] = new
    BY DescendShape
  <1>3. Owed(new) = {}
    BY DEF Owed, Frame
  <1>4. /\ n \in 1..n /\ n \in 1..n + 1 /\ n + 1 \in 1..n + 1 /\ n + 1 \notin 1..n
        /\ \A k \in Nat : k # n + 1 => (k \in 1..n <=> k \in 1..n + 1)
    BY <1>1
  <1> HIDE DEF new
  <1>5. OwedAt(frames', n + 1) = OwedAt(frames, n + 1)
    BY <1>2, <1>3, <1>4 DEF OwedAt
  <1>6. \A k \in Nat : k # n /\ k # n + 1 => OwedAt(frames', k) = OwedAt(frames, k)
    BY <1>2, <1>4 DEF OwedAt
  <1> QED
    BY <1>1, <1>2, <1>4, <1>5, <1>6 DEF OwedAt

\* The frames of anything but an if owe nothing.
LEMMA MovesOwed ==
  ASSUME IInv, NEW ty, Running(ty), ty # "AST_IF", Moves
  PROVE  SameOwed
  <1>1. FramesInv /\ frames # <<>> /\ Top.node.type = ty /\ Top \in frame_t
    BY RunningTop DEF IInv
  <1>2. Owed(Top) = {}
    BY <1>1 DEF Owed
  <1>3. CASE Return
    BY <1>1, <1>2, <1>3, ReturnOwed DEF SameOwed
  <1>4. ASSUME NEW l \in Int, NEW depth, Descend(l, depth)
        PROVE  SameOwed
    <2> DEFINE t == [Top EXCEPT !.at = @ + 1, !.loc = l]
    <2>1. t = [Top EXCEPT !.at = @ + 1, !.loc = l] /\ t.node = Top.node
      BY <1>1 DEF frame_t
    <2> HIDE DEF t
    <2>2. Owed(t) = {}
      BY <1>1, <2>1 DEF Owed
    <2> QED
      BY <1>1, <1>2, <1>4, <2>1, <2>2, DescendOwed DEF SameOwed
  <1>5. ASSUME NEW t \in frame_t, t.node = Top.node, frames' = [frames EXCEPT ![Len(frames)] = t]
        PROVE  SameOwed
    <2>1. frames \in Seq(frame_t) /\ Len(frames) > 0 /\ Top = frames[Len(frames)]
      BY <1>1, TopTyped DEF FramesInv
    <2>2. /\ Len(frames') = Len(frames)
          /\ \A k \in 1..Len(frames) : frames'[k] = IF k = Len(frames) THEN t ELSE frames[k]
      BY <1>5, <2>1, ReplaceLast
    <2>3. Owed(t) = {}
      BY <1>1, <1>5 DEF Owed
    <2> QED
      BY <1>2, <2>1, <2>2, <2>3 DEF SameOwed, OwedAt
  <1> QED
    BY <1>3, <1>4, <1>5 DEF Moves

\* Below a function's frame everything is the body of the function.
LEMMA MovesInBody ==
  ASSUME IInv, NEW ty, Running(ty), ty # "AST_FUNC_DECL", Moves
  PROVE  InBody /\ InBody'
  <1> DEFINE n == Len(frames)
  <1>1. /\ FramesInv /\ frames # <<>> /\ Top.node.type = ty /\ frames \in Seq(frame_t)
        /\ n \in Nat /\ n > 0 /\ (ty = "AST_FUNC_DECL" <=> n = 1)
    BY RunningTop, TopTyped DEF IInv, FramesInv
  <1>2. n > 1
    BY <1>1, Positive
  <1>3. frames[1].loc # Fresh
    BY <1>1, <1>2 DEF FramesInv, IsWalk
  <1>4. CASE Return
    <2>1. /\ frames' \in Seq(frame_t) /\ Len(frames') = n - 1
          /\ \A k \in 1..n - 1 : frames'[k] = frames[k]
      BY <1>1, <1>4, RemoveLast DEF Return
    <2>2. frames' # <<>> /\ frames'[1] = frames[1]
      BY <1>2, <2>1
    <2> QED
      BY <1>1, <1>3, <2>2 DEF InBody
  <1>5. ASSUME NEW l \in Int, NEW depth, Descend(l, depth)
        PROVE  InBody /\ InBody'
    <2>1. /\ Len(frames') = n + 1
          /\ \A k \in 1..n : frames'[k] = IF k = n THEN [Top EXCEPT !.at = @ + 1, !.loc = l]
                                            ELSE frames[k]
      BY <1>1, <1>5, DescendShape
    <2>2. frames' # <<>> /\ frames'[1] = frames[1]
      BY <1>2, <2>1
    <2> QED
      BY <1>1, <1>3, <2>2 DEF InBody
  <1>6. ASSUME NEW t \in frame_t, frames' = [frames EXCEPT ![Len(frames)] = t]
        PROVE  InBody /\ InBody'
    <2>1. /\ Len(frames') = n
          /\ \A k \in 1..n : frames'[k] = IF k = n THEN t ELSE frames[k]
      BY <1>1, <1>6, ReplaceLast
    <2>2. frames' # <<>> /\ frames'[1] = frames[1]
      BY <1>2, <2>1
    <2> QED
      BY <1>1, <1>3, <2>2 DEF InBody
  <1> QED
    BY <1>4, <1>5, <1>6 DEF Moves

\* A step of anything but an if or a function, whatever lines it emits.
LEMMA MovesLabels ==
  ASSUME IInv, LabelInv, NEW ty, Running(ty), ty \notin {"AST_IF", "AST_FUNC_DECL"}, Moves,
         UNCHANGED labelVars,
         LET due == Due(frames, epilogue_label)
         IN Resolved(out, due, label_count) /\ epilogue_label \in due =>
              Resolved(out', due, label_count)
  PROVE  LabelInv'
  <1>1. /\ Apart(frames, epilogue_label)
        /\ InBody <=> epilogue_label # NoLabel
        /\ Resolved(out, Due(frames, epilogue_label), label_count)
    BY RunningTop DEF LabelInv
  <1>2. SameOwed /\ InBody /\ InBody'
    BY MovesOwed, MovesInBody
  <1>3. epilogue_label' = epilogue_label /\ label_count' = label_count
    BY DEF labelVars
  <1>4. /\ Due(frames', epilogue_label) = Due(frames, epilogue_label)
        /\ Apart(frames', epilogue_label)
    BY <1>1, <1>2, OwedKept
  <1>5. epilogue_label \in Due(frames, epilogue_label)
    BY <1>1, <1>2 DEF Due
  <1> QED
    BY <1>1, <1>2, <1>3, <1>4, <1>5 DEF LabelInv

-----------------------------------------------------------------------------
(* The actions that touch no label *)

LEMMA MuteLine ==
  ASSUME NEW o, NEW z, NEW a, NEW b, o \notin {"jmp", "je", ".globl", "label"}
  PROVE  Mute(Line(o, z, a, b))
  BY DEF Mute, Line

LEMMA MuteEmits ==
  ASSUME NEW a, NEW b
  PROVE  /\ Mute(emit_mov(a, b)) /\ Mute(emit_push(a)) /\ Mute(emit_pop(a))
         /\ Mute(emit_add(a, b)) /\ Mute(emit_sub(a, b)) /\ Mute(emit_imul(a, b))
         /\ Mute(emit_idiv(a)) /\ Mute(emit_cmp(a, b)) /\ Mute(emit_call(a)) /\ Mute(leaq(a))
         /\ Mute(negq) /\ Mute(movzbq) /\ Mute(cqto) /\ Mute(ret)
  BY MuteLine
  DEF emit_mov, emit_push, emit_pop, emit_add, emit_sub, emit_imul, emit_idiv, emit_cmp,
      emit_call, leaq, negq, movzbq, cqto, ret

LEMMA MuteSets ==
  ASSUME NEW o \in comparison_t
  PROVE  Mute(setcc(setcc_of(o)))
  BY MuteLine DEF setcc, setcc_of, comparison_t

LEMMA MuteOthers ==
  /\ Mute(setcc("sete"))
  /\ \A x \in {".data", ".text", ".byte", ".word", ".long", ".quad"} :
       \A a : Mute(Directive(x, a))
  /\ \A x \in Name : Mute(Label(mk_label(x)))
  <1>1. \A x \in Name : mk_label(x).name # NoName
    BY ProgramsAssumption DEF mk_label, NoOperand
  <1> QED
    BY <1>1, MuteLine DEF setcc, Directive, Label, Line, Mute

\* At most five lines, all mute.
MuteLines(l) ==
  \E a, b, c, d, e :
    /\ Mute(a) /\ Mute(b) /\ Mute(c) /\ Mute(d) /\ Mute(e)
    /\ l \in {<<>>, <<a>>, <<a, b>>, <<a, b, c>>, <<a, b, c, d>>, <<a, b, c, d, e>>}

\* What an action that emits only such lines does to them and to the stack.
Silent == \E l : MuteLines(l) /\ out' = out \o l /\ rsp' = StackAfterAll(rsp, l)

LEMMA TuplesSilent ==
  ASSUME NEW a, NEW b, NEW c, NEW d, NEW e, Mute(a), Mute(b), Mute(c), Mute(d), Mute(e)
  PROVE  /\ MuteLines(<<>>) /\ MuteLines(<<a>>) /\ MuteLines(<<a, b>>)
         /\ MuteLines(<<a, b, c>>) /\ MuteLines(<<a, b, c, d>>)
         /\ MuteLines(<<a, b, c, d, e>>)
  BY DEF MuteLines

LEMMA SilentAdds ==
  ASSUME out \in Seq(LineType), Silent
  PROVE  AddsMute(out, out')
  <1>1. PICK l : MuteLines(l) /\ out' = out \o l
    BY DEF Silent
  <1>2. PICK a, b, c, d, e :
          /\ Mute(a) /\ Mute(b) /\ Mute(c) /\ Mute(d) /\ Mute(e)
          /\ l \in {<<>>, <<a>>, <<a, b>>, <<a, b, c>>, <<a, b, c, d>>, <<a, b, c, d, e>>}
    BY <1>1 DEF MuteLines
  <1> HIDE DEF LineType
  <1> QED
    BY <1>1, <1>2, TuplesMute

\* One line.
LEMMA EmitsOne ==
  ASSUME NEW a, Mute(a), Emit(<<a>>)
  PROVE  Silent
  BY TuplesSilent DEF Emit, Silent

LEMMA EmitsNothing ==
  ASSUME out \in Seq(LineType), UNCHANGED outVars
  PROVE  Silent
  <1>1. MuteLines(<<>>)
    BY MuteEmits, TuplesSilent
  <1>2. out' = out \o <<>>
    BY ConcatEmptySeq DEF outVars
  <1>3. rsp' = StackAfterAll(rsp, <<>>)
    BY EmittingNone DEF outVars
  <1> QED
    BY <1>1, <1>2, <1>3 DEF Silent

LEMMA UnaryMute ==
  ASSUME NEW o \in {"U_NEG", "U_NOT", "U_POS"}
  PROVE  MuteLines(UnaryLines(o))
  <1> DEFINE a == emit_cmp(mk_immutable(0), RAX)
             b == setcc("sete")
  <1>1. Mute(a) /\ Mute(b) /\ Mute(movzbq) /\ Mute(negq)
    BY MuteEmits, MuteOthers
  <1>2. UnaryLines(o) \in {<<negq>>, <<a, b, movzbq>>, <<>>}
    BY DEF UnaryLines
  <1> HIDE DEF a, b
  <1>3. MuteLines(<<negq>>) /\ MuteLines(<<>>) /\ MuteLines(<<a, b, movzbq>>)
    BY <1>1, TuplesSilent
  <1> QED
    BY <1>2, <1>3

LEMMA BinaryMute ==
  ASSUME NEW o \in binary_expr_t
  PROVE  MuteLines(<<emit_mov(RAX, RCX), pop_into("REG_RAX")>> \o BinaryLines(o))
  <1> DEFINE a == emit_mov(RAX, RCX)
             b == pop_into("REG_RAX")
  <1>1. Mute(a) /\ Mute(b)
    BY MuteEmits DEF pop_into
  <1> HIDE DEF a, b
  <1>2. \/ \E x : Mute(x) /\ BinaryLines(o) = <<x>>
        \/ \E x, y : Mute(x) /\ Mute(y) /\ BinaryLines(o) = <<x, y>>
        \/ \E x, y, z : Mute(x) /\ Mute(y) /\ Mute(z) /\ BinaryLines(o) = <<x, y, z>>
    <2>1. CASE o \in {"B_ADD", "B_SUB", "B_MUL"}
      BY <2>1, MuteEmits DEF BinaryLines
    <2>2. CASE o = "B_DIV"
      BY <2>2, MuteEmits DEF BinaryLines
    <2>3. CASE o \in comparison_t
      <3>1. BinaryLines(o) = <<emit_cmp(RCX, RAX), setcc(setcc_of(o)), movzbq>>
        BY <2>3 DEF BinaryLines, comparison_t
      <3> QED
        BY <2>3, <3>1, MuteEmits, MuteSets
    <2> QED
      BY <2>1, <2>2, <2>3 DEF binary_expr_t, arithmetic_t
  <1>3. ASSUME NEW x, Mute(x), BinaryLines(o) = <<x>>
        PROVE  MuteLines(<<a, b>> \o BinaryLines(o))
    <2>1. <<a, b>> \o BinaryLines(o) = <<a, b, x>>
      BY <1>3, ConcatThree, Zenon
    <2> QED
      BY <1>1, <1>3, <2>1, TuplesSilent
  <1>4. ASSUME NEW x, NEW y, Mute(x), Mute(y), BinaryLines(o) = <<x, y>>
        PROVE  MuteLines(<<a, b>> \o BinaryLines(o))
    <2>1. <<a, b>> \o BinaryLines(o) = <<a, b, x, y>>
      BY <1>4, ConcatFour, Zenon
    <2> QED
      BY <1>1, <1>4, <2>1, TuplesSilent
  <1>5. ASSUME NEW x, NEW y, NEW z, Mute(x), Mute(y), Mute(z), BinaryLines(o) = <<x, y, z>>
        PROVE  MuteLines(<<a, b>> \o BinaryLines(o))
    <2>1. <<a, b>> \o BinaryLines(o) = <<a, b, x, y, z>>
      BY <1>5, ConcatFive, ZenonT(60)
    <2> QED
      BY <1>1, <1>5, <2>1, TuplesSilent
  <1>6. MuteLines(<<a, b>> \o BinaryLines(o))
    BY <1>2, <1>3, <1>4, <1>5
  <1> QED
    BY <1>6 DEF a, b

LEMMA CallMute ==
  ASSUME NEW fr, NEW x
  PROVE  /\ MuteLines(PadLines(fr))
         /\ MuteLines(<<emit_call(x)>> \o UnpadLines(fr))
  <1> DEFINE a == emit_call(x)
             b == emit_add(mk_immutable(8), RSP)
             c == emit_sub(mk_immutable(8), RSP)
  <1>1. Mute(a) /\ Mute(b) /\ Mute(c)
    BY MuteEmits
  <1>2. PadLines(fr) \in {<<>>, <<c>>} /\ UnpadLines(fr) \in {<<>>, <<b>>}
    BY DEF PadLines, UnpadLines
  <1>3. <<a>> \o <<>> = <<a>> /\ <<a>> \o <<b>> = <<a, b>>
    <2> HIDE DEF a, b
    <2>1. <<a>> \o <<>> = <<a>>
      BY ConcatNone, Zenon
    <2>2. <<a>> \o <<b>> = <<a, b>>
      BY ConcatTwo, Zenon
    <2> QED
      BY <2>1, <2>2
  <1> HIDE DEF a, b, c
  <1>4. MuteLines(<<>>) /\ MuteLines(<<a>>) /\ MuteLines(<<a, b>>) /\ MuteLines(<<c>>)
    BY <1>1, TuplesSilent
  <1>5. MuteLines(PadLines(fr))
    BY <1>2, <1>4
  <1>6. MuteLines(<<a>> \o UnpadLines(fr))
    <2>1. <<a>> \o UnpadLines(fr) \in {<<a>>, <<a, b>>}
      BY <1>2, <1>3, Zenon
    <2> QED
      BY <1>4, <2>1
  <1> QED
    BY <1>5, <1>6 DEF a

\* A step of a frame that is no function's and no if's.
Silently(ty) == /\ Running(ty) /\ ty \notin {"AST_IF", "AST_FUNC_DECL"} /\ Moves
                /\ UNCHANGED labelVars /\ Silent

LEMMA SilentLabels ==
  ASSUME TypeInv, LabelInv, NEW ty, Silently(ty)
  PROVE  LabelInv'
  <1>1. label_count \in Nat /\ IInv /\ out \in Seq(LineType)
    BY DEF TypeInv, Inv, ScopeInv
  <1>2. AddsMute(out, out')
    BY <1>1, SilentAdds DEF Silently
  <1> QED
    BY <1>1, <1>2, MovesLabels, ResolvedMute DEF Silently

LEMMA expr_silent ==
  ASSUME TypeInv, gen_expr, ~std_compile_error
  PROVE  \E ty : Silently(ty)
  <1>0. /\ Inv /\ IInv /\ out \in Seq(LineType) /\ Fresh \in Int /\ 0 \in Int
        /\ FramesInv
    BY DEF TypeInv, Inv, IInv, Fresh
  <1>1. ~std_compile_error
    OBVIOUS
  <1>2. CASE gen_literal
    <2>1. Emit(<<load_imm(Top.node.num_value)>>)
      BY <1>2 DEF gen_literal
    <2>2. Silent
      BY <1>0, <2>1, EmitsOne, MuteEmits DEF load_imm
    <2>3. Silently("AST_LITERAL")
      BY <1>2, <2>2 DEF gen_literal, Moves, Silently
    <2> QED
      BY <2>3
  <1>3. CASE gen_identifier
    <2>1. Emit(<<emit_mov(Place(Top.node.name), RAX)>>)
      BY <1>1, <1>3 DEF gen_identifier
    <2>2. Silent
      BY <1>0, <2>1, EmitsOne, MuteEmits
    <2>3. Silently("AST_IDENTIFIER")
      BY <1>1, <1>3, <2>2 DEF gen_identifier, Moves, Silently
    <2> QED
      BY <2>3
  <1>4. CASE gen_address
    <2>1. Emit(<<leaq(Place(Top.node.expr.name))>>)
      BY <1>1, <1>4 DEF gen_address
    <2>2. Silent
      BY <1>0, <2>1, EmitsOne, MuteEmits
    <2>3. Silently("AST_UNARY")
      BY <1>1, <1>4, <2>2 DEF gen_address, Moves, Silently
    <2> QED
      BY <2>3
  <1>5. CASE gen_unary
    <2>1. Silent
      <3>1. \/ UNCHANGED outVars
            \/ Top.node.op \in {"U_NEG", "U_NOT", "U_POS"} /\ Emit(UnaryLines(Top.node.op))
        BY <1>1, <1>5 DEF gen_unary
      <3> QED
        BY <1>0, <3>1, EmitsNothing, UnaryMute DEF Emit, Silent
    <2>2. /\ Running("AST_UNARY") /\ (Return \/ Descend(Fresh, push_depth))
          /\ UNCHANGED labelVars
      BY <1>1, <1>5 DEF gen_unary
    <2>3. Silently("AST_UNARY")
      BY <1>0, <2>1, <2>2 DEF Moves, Silently
    <2> QED
      BY <2>3
  <1>6. CASE gen_binary
    <2>1. Running("AST_BINARY") /\ UNCHANGED labelVars
      BY <1>6 DEF gen_binary
    <2>2. Top.node.op \in binary_expr_t
      BY <1>0, <2>1, RunningTop DEF WellFormed
    <2>3. Silent
      <3>1. \/ UNCHANGED outVars
            \/ Emit(<<push_rax>>)
            \/ Emit(<<emit_mov(RAX, RCX), pop_into("REG_RAX")>> \o BinaryLines(Top.node.op))
        BY <1>6 DEF gen_binary
      <3>2. Mute(push_rax)
        BY MuteEmits DEF push_rax
      <3> QED
        BY <1>0, <2>2, <3>1, <3>2, EmitsNothing, EmitsOne, BinaryMute DEF Emit, Silent
    <2>4. Return \/ Descend(Fresh, push_depth) \/ Descend(Fresh, push_depth + 1)
      BY <1>6 DEF gen_binary
    <2>5. Silently("AST_BINARY")
      BY <1>0, <2>1, <2>3, <2>4 DEF Moves, Silently
    <2> QED
      BY <2>5
  <1>7. CASE gen_call_enter
    <2>1. Running("AST_CALL") /\ Emit(PadLines(Top)) /\ SetLoc(0) /\ UNCHANGED labelVars
      BY <1>1, <1>7 DEF gen_call_enter
    <2>2. Silent
      BY <1>0, <2>1, CallMute DEF Emit, Silent
    <2>3. Moves
      BY <1>0, <2>1, RunningTop, SetLocMoves
    <2>4. Silently("AST_CALL")
      BY <2>1, <2>2, <2>3 DEF Silently
    <2> QED
      BY <2>4
  <1>8. CASE gen_call_arg
    <2>1. Running("AST_CALL") /\ UNCHANGED labelVars
      BY <1>8 DEF gen_call_arg
    <2>2. Top.loc \in Int /\ Top.loc + 1 \in Int /\ frames # <<>>
      BY <1>0, <2>1, RunningTop
    <2>3. Moves
      <3>1. Descend(Top.loc, push_depth) \/ SetLoc(Top.loc + 1)
        BY <1>8 DEF gen_call_arg
      <3> QED
        BY <1>0, <2>2, <3>1, SetLocMoves DEF Moves
    <2>4. Silent
      <3>1. UNCHANGED outVars \/ Emit(<<push_rax>>)
        BY <1>8 DEF gen_call_arg
      <3>2. Mute(push_rax)
        BY MuteEmits DEF push_rax
      <3> QED
        BY <1>0, <3>1, <3>2, EmitsNothing, EmitsOne
    <2>5. Silently("AST_CALL")
      BY <2>1, <2>3, <2>4 DEF Silently
    <2> QED
      BY <2>5
  <1>9. CASE gen_call_pop
    <2>1. Running("AST_CALL") /\ Emit(<<pop_into(arg_regs[Top.loc])>>) /\ UNCHANGED labelVars
      BY <1>9 DEF gen_call_pop
    <2>2. Silent
      BY <1>0, <2>1, EmitsOne, MuteEmits DEF pop_into
    <2>3. Moves
      BY <1>0, <1>9, CallPopped DEF Moves
    <2>4. Silently("AST_CALL")
      BY <2>1, <2>2, <2>3 DEF Silently
    <2> QED
      BY <2>4
  <1>10. CASE gen_call_return
    <2>1. Running("AST_CALL") /\ Return /\ UNCHANGED labelVars
      BY <1>10 DEF gen_call_return
    <2>2. Silent
      <3> DEFINE l == <<emit_call(mk_label(Top.node.callee.name))>> \o UnpadLines(Top)
      <3>1. out' = out \o l /\ rsp' = StackAfterAll(rsp, l)
        BY <1>10 DEF gen_call_return
      <3>2. MuteLines(l)
        BY CallMute
      <3> HIDE DEF l
      <3> QED
        BY <3>1, <3>2 DEF Silent
    <2>3. Silently("AST_CALL")
      BY <2>1, <2>2 DEF Moves, Silently
    <2> QED
      BY <2>3
  <1>11. CASE gen_assign
    <2>1. Running("AST_ASSIGN") /\ UNCHANGED labelVars /\ (Return \/ Descend(Fresh, push_depth))
      BY <1>1, <1>11 DEF gen_assign
    <2>2. Silent
      <3>1. UNCHANGED outVars \/ Emit(<<emit_mov(RAX, Place(Top.node.target.name))>>)
        BY <1>1, <1>11 DEF gen_assign
      <3> QED
        BY <1>0, <3>1, EmitsNothing, EmitsOne, MuteEmits
    <2>3. Silently("AST_ASSIGN")
      BY <1>0, <2>1, <2>2 DEF Moves, Silently
    <2> QED
      BY <2>3
  <1>12. CASE gen_cast
    <2>1. /\ Running("AST_CAST") /\ UNCHANGED <<labelVars, outVars>>
          /\ Return \/ Descend(Fresh, push_depth)
      BY <1>12 DEF gen_cast
    <2>2. Silently("AST_CAST")
      BY <1>0, <2>1, EmitsNothing DEF Moves, Silently
    <2> QED
      BY <2>2
  <1>13. CASE gen_unsupported
    BY <1>1, <1>13 DEF gen_unsupported
  <1> QED
    BY <1>2, <1>3, <1>4, <1>5, <1>6, <1>7, <1>8, <1>9, <1>10, <1>11, <1>12, <1>13 DEF gen_expr

\* The statements but gen_if, and but for the jump of gen_return.
LEMMA stmt_silent ==
  ASSUME TypeInv, TypeInv',
         gen_var_decl \/ gen_block \/ gen_comment \/ (gen_return /\ UNCHANGED outVars)
  PROVE  \E ty : Silently(ty)
  <1>0. /\ FramesInv /\ out \in Seq(LineType) /\ Fresh \in Int /\ 0 \in Int /\ cur_offset' \in Int
        /\ IInv
    BY DEF TypeInv, Inv, IInv, ScopeInv, Fresh
  <1>1. CASE gen_var_decl
    <2>1. /\ Running("AST_VAR_DECL") /\ UNCHANGED labelVars
          /\ Return \/ Descend(cur_offset', push_depth)
          /\ UNCHANGED outVars \/ Emit(<<store_local(Top.loc)>>)
      BY <1>1 DEF gen_var_decl
    <2>2. Silent
      BY <1>0, <2>1, EmitsNothing, EmitsOne, MuteEmits DEF store_local
    <2>3. Moves
      BY <1>0, <2>1 DEF Moves
    <2> QED
      BY <2>1, <2>2, <2>3 DEF Silently
  <1>2. CASE gen_return /\ UNCHANGED outVars
    <2>1. /\ Running("AST_RETURN") /\ UNCHANGED labelVars
          /\ Return \/ Descend(Fresh, push_depth)
      BY <1>2 DEF gen_return
    <2>2. Moves
      BY <1>0, <2>1 DEF Moves
    <2>3. Silent
      BY <1>0, <1>2, EmitsNothing
    <2> QED
      BY <2>1, <2>2, <2>3 DEF Silently
  <1>3. CASE gen_block
    <2>1. /\ Running("AST_BLOCK") /\ UNCHANGED <<labelVars, outVars>>
          /\ SetLoc(0) \/ Return \/ Descend(0, push_depth)
      BY <1>3 DEF gen_block
    <2>2. Moves
      BY <1>0, <2>1, RunningTop, SetLocMoves DEF Moves
    <2>3. Silent
      BY <1>0, <2>1, EmitsNothing
    <2> QED
      BY <2>1, <2>2, <2>3 DEF Silently
  <1>4. CASE gen_comment
    <2>1. Running("AST_COMMENT") /\ UNCHANGED <<labelVars, outVars>> /\ Return
      BY <1>4 DEF gen_comment
    <2>2. Silent
      BY <1>0, <2>1, EmitsNothing
    <2> QED
      BY <2>1, <2>2 DEF Silently, Moves
  <1> QED
    BY <1>1, <1>2, <1>3, <1>4

LEMMA program_silent ==
  ASSUME TypeInv, gen_program
  PROVE  Silent
  <1>0. IInv /\ out \in Seq(LineType)
    BY DEF TypeInv, Inv
  <1>1. CASE StartData \/ StartText
    <2>1. PICK x \in {".data", ".text"} : Emit(<<Directive(x, NoOperand)>>)
      BY <1>1 DEF StartData, StartText
    <2> QED
      BY <1>0, <2>1, EmitsOne, MuteOthers
  <1>2. CASE DataStep
    <2> DEFINE n == program[i]
               d == directive_of(type_size(n.var_t))
    <2>1. n.ident.name \in Name
      BY <1>0, <1>2, ProgramsAssumption DEF DataStep, IsGlobal, WellFormed, Idents, IInv, WalkInv
    <2>2. d \in {".byte", ".word", ".long", ".quad"}
      BY DEF directive_of, type_size
    <2>3. PICK v : Emit(<<Label(mk_label(n.ident.name)), Directive(d, v)>>)
      BY <1>2 DEF DataStep, gen_global
    <2> DEFINE a == Label(mk_label(n.ident.name))
               b == Directive(d, v)
    <2>4. Mute(a) /\ Mute(b) /\ Emit(<<a, b>>)
      BY <2>1, <2>2, <2>3, MuteOthers
    <2> HIDE DEF a, b
    <2>5. MuteLines(<<a, b>>)
      BY <2>4, TuplesSilent
    <2> QED
      BY <2>4, <2>5 DEF Emit, Silent
  <1>3. CASE DataSkip \/ TextStep \/ FinishProgram
    BY <1>0, <1>3, EmitsNothing DEF DataSkip, TextStep, FinishProgram
  <1> QED
    BY <1>1, <1>2, <1>3 DEF gen_program
-----------------------------------------------------------------------------
(* Every action keeps the labels *)

LEMMA LabelsError == ASSUME std_compile_error PROVE LabelInv'
  BY DEF std_compile_error, LabelInv

\* The lines of gen_if and of gen_return.
LEMMA ReturnLines ==
  ASSUME out \in Seq(LineType), NEW due, NEW n \in Nat, Resolved(out, due, n),
         NEW e \in due, Emit(<<jmp(e)>>)
  PROVE  Resolved(out', due, n)
  <1>1. jmp(e).op = "jmp" /\ jmp(e).src.num = e
    BY LabelNumber DEF jmp, Line
  <1> DEFINE a == jmp(e)
  <1>2. out' = out \o <<a>>
    BY DEF Emit
  <1> HIDE DEF a, LineType
  <1>3. Adds(out, out', a)
    BY <1>2, TuplesAdd
  <1> QED
    BY <1>1, <1>3, ResolvedJump DEF a

LEMMA IfLines ==
  ASSUME out \in Seq(LineType), NEW due, NEW n \in Nat, Resolved(out, due, n), NEW l, NEW m, l # m
  PROVE  /\ l \in due /\ Emit(<<emit_cmp(mk_immutable(0), RAX), je(l)>>) =>
              Resolved(out', due, n)
         /\ l \in due /\ m \in due /\ Emit(<<jmp(m), Label(mk_local_label(l))>>) =>
              Resolved(out', due \ {l}, n)
         /\ l \in due /\ m \in due
            /\ Emit(<<jmp(m), Label(mk_local_label(l)), Label(mk_local_label(m))>>) =>
              Resolved(out', due \ {l, m}, n)
         /\ m \in due /\ Emit(<<Label(mk_local_label(m))>>) => Resolved(out', due \ {m}, n)
  <1> DEFINE c == emit_cmp(mk_immutable(0), RAX)
             j == je(l)
             g == jmp(m)
             a == Label(mk_local_label(l))
             b == Label(mk_local_label(m))
  <1>1. /\ Mute(c) /\ j.op = "je" /\ j.src.num = l /\ g.op = "jmp" /\ g.src.num = m
    BY MuteEmits, LabelNumber DEF je, jmp, Line
  <1>2. a = Label(mk_local_label(l)) /\ b = Label(mk_local_label(m))
    OBVIOUS
  <1> HIDE DEF c, j, g, a, b, LineType
  <1>3. ASSUME l \in due, Emit(<<c, j>>)
        PROVE  Resolved(out', due, n)
    <2>1. Adds(out, out \o <<c>>, c) /\ Adds(out \o <<c>>, out', j)
      BY <1>3, TuplesAdd DEF Emit
    <2>2. AddsMute(out, out \o <<c>>)
      BY <1>1, TuplesMute
    <2> QED
      BY <1>1, <1>3, <2>1, <2>2, ResolvedMute, ResolvedJump
  <1>4. ASSUME l \in due, m \in due
        PROVE  Resolved(out \o <<g, a>>, due \ {l}, n)
    <2>1. Adds(out, out \o <<g>>, g) /\ Adds(out \o <<g>>, out \o <<g, a>>, a)
      BY TuplesAdd
    <2>2. Resolved(out \o <<g>>, due, n)
      BY <1>1, <1>4, <2>1, ResolvedJump
    <2> QED
      BY <1>2, <1>4, <2>1, <2>2, ResolvedLabel
  <1>5. ASSUME l \in due, m \in due, Emit(<<g, a, b>>)
        PROVE  Resolved(out', due \ {l, m}, n)
    <2>1. Adds(out \o <<g, a>>, out', b)
      BY <1>5, TuplesAdd DEF Emit
    <2>2. Resolved(out', (due \ {l}) \ {m}, n)
      BY <1>2, <1>4, <1>5, <2>1, ResolvedLabel
    <2>3. (due \ {l}) \ {m} = due \ {l, m}
      OBVIOUS
    <2> QED
      BY <2>2, <2>3
  <1>6. ASSUME m \in due, Emit(<<b>>)
        PROVE  Resolved(out', due \ {m}, n)
    <2>1. Adds(out, out', b)
      BY <1>6, TuplesAdd DEF Emit
    <2> QED
      BY <1>2, <1>6, <2>1, ResolvedLabel
  <1> QED
    BY <1>3, <1>4, <1>5, <1>6 DEF Emit, c, j, g, a, b

\* The labels an if owes after its next recursive call.
LEMMA IfDescends ==
  ASSUME IInv, Running("AST_IF"), NEW k \in Int, NEW depth, Descend(k, depth)
  PROVE  /\ \A p \in Nat : p # Len(frames) => OwedAt(frames', p) = OwedAt(frames, p)
         /\ OwedAt(frames', Len(frames)) =
              IF Top.at \in {0, 1} THEN {k, k + 1} ELSE IF Top.at = 2 THEN {k + 1} ELSE {}
  <1>1. /\ FramesInv /\ frames # <<>> /\ Top \in frame_t /\ Top.node.type = "AST_IF"
        /\ Top.at \in Nat
    BY RunningTop DEF IInv
  <1> DEFINE t == [Top EXCEPT !.at = @ + 1, !.loc = k]
  <1>2. t = [Top EXCEPT !.at = @ + 1, !.loc = k]
    OBVIOUS
  <1> HIDE DEF t
  <1>3. t.node = Top.node /\ t.at = Top.at + 1 /\ t.loc = k
    <2>1. PICK f \in frame_t : f = Top
      BY <1>1
    <2>2. GoesOn(f, t, f.at + 1, k)
      BY <1>2, <2>1 DEF GoesOn
    <2>3. t.node = f.node /\ t.at = f.at + 1 /\ t.loc = k
      BY <2>2, GoneOn
    <2> QED
      BY <2>1, <2>3
  <1>4. Owed(t) = IF Top.at \in {0, 1} THEN {k, k + 1} ELSE IF Top.at = 2 THEN {k + 1} ELSE {}
    BY <1>1, <1>3 DEF Owed
  <1> QED
    BY <1>1, <1>2, <1>4, DescendOwed

LEMMA if_labels ==
  ASSUME TypeInv, LabelInv, gen_if
  PROVE  LabelInv'
  <1> DEFINE e == epilogue_label
             n == Len(frames)
             due == Due(frames, e)
             l == Top.loc
             m == Top.loc + 1
  <1>1. /\ Inv /\ IInv /\ FramesInv /\ out \in Seq(LineType) /\ Running("AST_IF")
        /\ epilogue_label' = e
    BY DEF TypeInv, Inv, IInv, gen_if
  <1>2. /\ phase # "error" /\ frames # <<>> /\ Top \in frame_t /\ Top.node.type = "AST_IF"
        /\ l \in Int /\ m \in Int /\ l # m /\ Top.at \in Nat
    BY <1>1, RunningTop
  <1>3. label_count \in Nat
    BY <1>1 DEF Inv, ScopeInv
  <1>4. Apart(frames, e) /\ (InBody <=> e # NoLabel) /\ Resolved(out, due, label_count)
    BY <1>2 DEF LabelInv
  <1>5. n \in Nat /\ OwedAt(frames, n) = Owed(Top)
    <2>1. n \in 1..n /\ n \in Nat /\ Top = frames[n]
      BY <1>1, <1>2, TopTyped
    <2> QED
      BY <2>1 DEF OwedAt
  <1>6. Owed(Top) \subseteq due
    BY <1>5 DEF Due
  <1>7. SUFFICES ASSUME Moves
                 PROVE  /\ Apart(frames', e)
                        /\ Resolved(out', Due(frames', e), label_count')
    <2>1. Moves
      <3>1. \/ Descend(label_count, push_depth) \/ Descend(l, push_depth) \/ Return
        BY DEF gen_if
      <3> QED
        BY <1>2, <1>3, <3>1 DEF Moves
    <2>2. InBody /\ InBody'
      BY <1>1, <2>1, MovesInBody
    <2> QED
      BY <1>1, <1>4, <1>7, <2>1, <2>2 DEF LabelInv
  <1>8. ASSUME NEW k \in Int, Descend(k, push_depth)
        PROVE  /\ \A p \in Nat : p # n => OwedAt(frames', p) = OwedAt(frames, p)
               /\ OwedAt(frames', n) =
                    IF Top.at \in {0, 1} THEN {k, k + 1} ELSE IF Top.at = 2 THEN {k + 1} ELSE {}
    BY <1>1, <1>8, IfDescends
  <1>9. CASE Top.at = 0
    <2>1. label_count' = label_count + 2 /\ out' = out /\ Descend(label_count, push_depth)
      BY <1>9, <1>2 DEF gen_if, new_label, outVars
    <2> DEFINE more == {label_count, label_count + 1}
    <2>2. Owed(Top) = {}
      BY <1>2, <1>9 DEF Owed
    <2>3. due \subseteq 0..label_count - 1
      BY <1>4 DEF Resolved
    <2>4. /\ more \cap due = {} /\ NoLabel \notin more
          /\ more \subseteq label_count..label_count + 2 - 1
      BY <1>3, <2>3 DEF NoLabel
    <2>5. \A p \in Nat : p # n => OwedAt(frames', p) = OwedAt(frames, p)
      BY <1>3, <1>8, <2>1
    <2>6. OwedAt(frames', n) = more
      BY <1>3, <1>8, <1>9, <2>1
    <2> HIDE DEF more
    <2>7. Due(frames', e) = due \cup more /\ Apart(frames', e)
      BY <1>4, <1>5, <2>2, <2>4, <2>5, <2>6, OwedMore
    <2>8. Resolved(out, due \cup more, label_count + 2)
      BY <1>3, <1>4, <2>4, ResolvedFresh
    <2> QED
      BY <2>1, <2>7, <2>8
  <1>10. ASSUME NEW gone, gone \subseteq Owed(Top),
                \A p \in Nat : p # n => OwedAt(frames', p) = OwedAt(frames, p),
                OwedAt(frames', n) = Owed(Top) \ gone,
                Resolved(out', due \ gone, label_count), label_count' = label_count
         PROVE  Apart(frames', e) /\ Resolved(out', Due(frames', e), label_count')
    <2>1. Due(frames', e) = due \ gone /\ Apart(frames', e)
      BY <1>4, <1>5, <1>10, OwedLess
    <2> QED
      BY <1>10, <2>1
  <1>11. ASSUME Return
         PROVE  /\ \A p \in Nat : p # n => OwedAt(frames', p) = OwedAt(frames, p)
                /\ OwedAt(frames', n) = {}
    BY <1>1, <1>2, <1>11, ReturnOwed
  <1>12. CASE Top.at = 1
    <2>1. /\ label_count' = label_count /\ Descend(l, push_depth)
          /\ Emit(<<emit_cmp(mk_immutable(0), RAX), je(l)>>)
      BY <1>12, <1>2 DEF gen_if
    <2>2. Owed(Top) = {l, m}
      BY <1>2, <1>12 DEF Owed
    <2>3. Resolved(out', due, label_count)
      BY <1>1, <1>2, <1>3, <1>4, <1>6, <2>1, <2>2, IfLines
    <2> DEFINE gone == {}
    <2>4. due \ gone = due /\ OwedAt(frames', n) = Owed(Top) \ gone /\ gone \subseteq Owed(Top)
      BY <1>2, <1>8, <1>12, <2>1, <2>2
    <2>5. \A p \in Nat : p # n => OwedAt(frames', p) = OwedAt(frames, p)
      BY <1>2, <1>8, <2>1
    <2> HIDE DEF due, gone
    <2>6. Resolved(out', due \ gone, label_count)
      BY <2>3, <2>4
    <2> QED
      BY <1>10, <2>1, <2>4, <2>5, <2>6
  <1>13. CASE Top.at = 2
    <2>1. Owed(Top) = {l, m}
      BY <1>2, <1>13 DEF Owed
    <2>2. CASE /\ Descend(l, push_depth) /\ label_count' = label_count
               /\ Emit(<<jmp(m), Label(mk_local_label(l))>>)
      <3>1. Resolved(out', due \ {l}, label_count)
        BY <1>1, <1>2, <1>3, <1>4, <1>6, <2>1, <2>2, IfLines
      <3>2. OwedAt(frames', n) = Owed(Top) \ {l}
        BY <1>2, <1>8, <1>13, <2>1, <2>2
      <3>3. \A p \in Nat : p # n => OwedAt(frames', p) = OwedAt(frames, p)
        BY <1>2, <1>8, <2>2
      <3> HIDE DEF due
      <3> QED
        BY <1>10, <2>1, <2>2, <3>1, <3>2, <3>3
    <2>3. CASE /\ Return /\ label_count' = label_count
               /\ Emit(<<jmp(m), Label(mk_local_label(l)), Label(mk_local_label(m))>>)
      <3>1. Resolved(out', due \ {l, m}, label_count)
        BY <1>1, <1>2, <1>3, <1>4, <1>6, <2>1, <2>3, IfLines
      <3>2. OwedAt(frames', n) = Owed(Top) \ {l, m}
        BY <1>11, <2>1, <2>3
      <3> HIDE DEF due
      <3> QED
        BY <1>10, <1>11, <2>1, <2>3, <3>1, <3>2
    <2>4. /\ label_count' = label_count
          /\ \/ Descend(l, push_depth) /\ Emit(<<jmp(m), Label(mk_local_label(l))>>)
             \/ Return /\ Emit(<<jmp(m), Label(mk_local_label(l)), Label(mk_local_label(m))>>)
      BY <1>2, <1>13 DEF gen_if
    <2> QED
      BY <2>2, <2>3, <2>4
  <1>14. CASE Top.at = 3
    <2>1. Return /\ label_count' = label_count /\ Emit(<<Label(mk_local_label(m))>>)
      BY <1>2, <1>14 DEF gen_if
    <2>2. Owed(Top) = {m}
      BY <1>2, <1>14 DEF Owed
    <2>3. Resolved(out', due \ {m}, label_count)
      BY <1>1, <1>2, <1>3, <1>4, <1>6, <2>1, <2>2, IfLines
    <2>4. OwedAt(frames', n) = Owed(Top) \ {m}
      BY <1>11, <2>1, <2>2
    <2> HIDE DEF due
    <2> QED
      BY <1>10, <1>11, <2>1, <2>2, <2>3, <2>4
  <1> QED
    BY <1>9, <1>12, <1>13, <1>14 DEF gen_if

LEMMA stmt_labels ==
  ASSUME TypeInv, TypeInv', LabelInv, gen_stmt
  PROVE  LabelInv'
  <1>1. CASE gen_var_decl \/ gen_block \/ gen_comment \/ (gen_return /\ UNCHANGED outVars)
    BY <1>1, stmt_silent, SilentLabels
  <1>2. CASE gen_return /\ ~UNCHANGED outVars
    <2>0. IInv /\ out \in Seq(LineType) /\ label_count \in Nat
      BY DEF TypeInv, Inv, ScopeInv
    <2>1. /\ Running("AST_RETURN") /\ UNCHANGED labelVars /\ Return
          /\ Emit(<<jmp(epilogue_label)>>)
      BY <1>2 DEF gen_return
    <2>2. Moves
      BY <2>1 DEF Moves
    <2>3. LET due == Due(frames, epilogue_label)
          IN Resolved(out, due, label_count) /\ epilogue_label \in due =>
               Resolved(out', due, label_count)
      BY <2>0, <2>1, ReturnLines
    <2> QED
      BY <2>0, <2>1, <2>2, <2>3, MovesLabels
  <1> QED
    BY <1>1, <1>2, if_labels DEF gen_stmt

-----------------------------------------------------------------------------
(* Functions and the program *)

\* The first line opens the function; the others are mute.
LEMMA PrologueIs ==
  ASSUME NEW x \in Name, NEW size
  PROVE  \E a, b, c, d, e :
           /\ a.op = ".globl" /\ Mute(b) /\ Mute(c) /\ Mute(d) /\ Mute(e)
           /\ Prologue(mk_label(x), size) \in {<<a, b, c, d>>, <<a, b, c, d, e>>}
  <1> DEFINE a == Directive(".globl", mk_label(x))
             b == Label(mk_label(x))
             c == emit_push(RBP)
             d == emit_mov(RSP, RBP)
             e == emit_sub(mk_immutable(size), RSP)
  <1>1. a.op = ".globl" /\ Mute(b) /\ Mute(c) /\ Mute(d) /\ Mute(e)
    BY MuteEmits, MuteOthers DEF Directive, Line
  <1>2. Prologue(mk_label(x), size) = <<a, b, c, d>> \o (IF size > 0 THEN <<e>> ELSE <<>>)
    BY DEF Prologue
  <1> HIDE DEF a, b, c, d, e
  <1>3. Prologue(mk_label(x), size) \in {<<a, b, c, d>>, <<a, b, c, d, e>>}
    <2>1. <<a, b, c, d>> \o <<>> = <<a, b, c, d>>
      BY ConcatNone, Zenon
    <2>2. <<a, b, c, d>> \o <<e>> = <<a, b, c, d, e>>
      BY ConcatLast, Zenon
    <2> QED
      BY <1>2, <2>1, <2>2
  <1> QED
    BY <1>1, <1>3

LEMMA PrologueLines ==
  ASSUME out \in Seq(LineType), NEW n \in Nat, Resolved(out, {}, n),
         NEW x \in Name, NEW size, Emit(Prologue(mk_label(x), size))
  PROVE  Resolved(out', {}, n)
  <1>1. PICK a, b, c, d, e :
          /\ a.op = ".globl" /\ Mute(b) /\ Mute(c) /\ Mute(d) /\ Mute(e)
          /\ Prologue(mk_label(x), size) \in {<<a, b, c, d>>, <<a, b, c, d, e>>}
    BY PrologueIs
  <1> DEFINE T == {a, b, c, d, e}
             Good(q) == /\ q \in Seq(T) /\ Len(q) > 0 /\ q[1] = a
                        /\ \A k \in 2..Len(q) : q[k] \in {b, c, d, e}
             l == Prologue(mk_label(x), size)
  <1>2. out' = out \o l
    BY DEF Emit
  <1>3. l \in {<<a, b, c, d>>, <<a, b, c, d, e>>}
    BY <1>1
  <1>4. Good(<<a, b, c, d, e>>) /\ Good(<<a, b, c, d>>)
    OBVIOUS
  <1> HIDE DEF l, LineType, T
  <1>5. Good(l)
    BY <1>3, <1>4
  <1>6. \A k \in 2..Len(l) : Mute(l[k])
    BY <1>1, <1>5
  <1>7. Adds(out, out \o <<a>>, a) /\ AddsMute(out \o <<a>>, out')
    BY <1>2, <1>5, <1>6, RestMute
  <1>8. Resolved(out \o <<a>>, {}, n)
    BY <1>1, <1>7, ResolvedGlobl
  <1> QED
    BY <1>7, <1>8, ResolvedMute

LEMMA EpilogueLines ==
  ASSUME out \in Seq(LineType), NEW n \in Nat, NEW m, Resolved(out, {m}, n), Emit(Epilogue(m))
  PROVE  Resolved(out', {}, n)
  <1> DEFINE a == Label(mk_local_label(m))
             b == emit_mov(RBP, RSP)
             c == emit_pop(RBP)
             d == ret
             l == <<a, b, c, d>>
  <1>1. Mute(b) /\ Mute(c) /\ Mute(d)
    BY MuteEmits
  <1>2. Epilogue(m) = l /\ a = Label(mk_local_label(m))
    BY DEF Epilogue
  <1> HIDE DEF a, b, c, d
  <1>3. l \in Seq({a, b, c, d}) /\ Len(l) > 0 /\ l[1] = a /\ \A k \in 2..Len(l) : l[k] \in {b, c, d}
    OBVIOUS
  <1>4. \A k \in 2..Len(l) : Mute(l[k])
    BY <1>1, <1>3
  <1> HIDE DEF l, LineType
  <1>5. Adds(out, out \o <<a>>, a) /\ AddsMute(out \o <<a>>, out')
    BY <1>2, <1>3, <1>4, RestMute DEF Emit
  <1>6. Resolved(out \o <<a>>, {m} \ {m}, n)
    BY <1>2, <1>5, ResolvedLabel
  <1> QED
    BY <1>5, <1>6, ResolvedMute

\* A function's frame owes nothing but the epilogue label.
LEMMA FunctionOwes ==
  ASSUME IInv, Running("AST_FUNC_DECL")
  PROVE  /\ \A k \in Nat : OwedAt(frames, k) = {}
         /\ Moves => \A k \in Nat : OwedAt(frames', k) = {}
  <1>1. /\ FramesInv /\ frames # <<>> /\ Top.node.type = "AST_FUNC_DECL"
    BY RunningTop DEF IInv
  <1>2. Len(frames) = 1 /\ Top = frames[1]
    BY <1>1, TopTyped DEF FramesInv
  <1>3. \A k \in Nat : OwedAt(frames, k) = {}
    BY <1>1, <1>2 DEF OwedAt, Owed
  <1> QED
    BY <1>3, MovesOwed DEF SameOwed

LEMMA NothingElseDue ==
  ASSUME NEW fs, \A k \in Nat : OwedAt(fs, k) = {}, NEW l
  PROVE  Apart(fs, l) /\ Due(fs, l) = {l} \ {NoLabel}
  BY DEF Apart, Due

LEMMA func_labels ==
  ASSUME TypeInv, LabelInv, gen_func_decl
  PROVE  LabelInv'
  <1> DEFINE e == epilogue_label
  <1>1. Running("AST_FUNC_DECL")
    BY DEF gen_func_decl, gen_func_enter, gen_func_param, gen_func_stmt, gen_func_return
  <1>2. /\ Inv /\ IInv /\ FramesInv /\ out \in Seq(LineType) /\ Fresh \in Int /\ 0 \in Int
        /\ label_count \in Nat /\ 0 # Fresh
    BY DEF TypeInv, Inv, IInv, ScopeInv, Fresh
  <1>3. /\ phase # "error" /\ frames # <<>> /\ Top \in frame_t /\ WellFormed(Top.node)
        /\ Top.node.type = "AST_FUNC_DECL" /\ Top.loc \in Int
    BY <1>1, <1>2, RunningTop
  <1>4. frames \in Seq(frame_t) /\ Len(frames) = 1 /\ Top = frames[1]
    BY <1>2, <1>3, TopTyped DEF FramesInv
  <1>5. InBody <=> Top.loc # Fresh
    BY <1>3, <1>4 DEF InBody
  <1>6. /\ Apart(frames, e) /\ (InBody <=> e # NoLabel)
        /\ Resolved(out, Due(frames, e), label_count)
    BY <1>3 DEF LabelInv
  <1>7. \A k \in Nat : OwedAt(frames, k) = {}
    BY <1>1, <1>2, FunctionOwes
  <1>8. ASSUME NEW fs, \A k \in Nat : OwedAt(fs, k) = {}, NEW l
        PROVE  Apart(fs, l) /\ Due(fs, l) = {l} \ {NoLabel}
    BY <1>8, NothingElseDue
  <1>9. ASSUME Moves
        PROVE  \A k \in Nat : OwedAt(frames', k) = {}
    BY <1>1, <1>2, <1>9, FunctionOwes
  <1>10. ASSUME NEW l \in Int, SetLoc(l)
         PROVE  Moves /\ (InBody' <=> l # Fresh)
    <2> DEFINE t == [Top EXCEPT !.loc = l]
    <2>1. t = [Top EXCEPT !.loc = l]
      OBVIOUS
    <2> HIDE DEF t
    <2>2. t \in frame_t /\ t.loc = l /\ frames' = [frames EXCEPT ![Len(frames)] = t]
      BY <1>2, <1>3, <1>10, <2>1, SettingLoc
    <2>3. Len(frames') = 1 /\ frames'[1] = t
      BY <1>4, <2>2, ReplaceLast
    <2> QED
      BY <1>2, <1>3, <1>10, <2>2, <2>3, SetLocMoves DEF InBody
  <1>11. CASE gen_func_enter
    <2> DEFINE x == Top.node.func_t.ident.name
    <2>1. /\ Top.loc = Fresh /\ Emit(Prologue(mk_label(x), compute_frame_size(Top.node)))
          /\ epilogue_label' = label_count /\ label_count' = label_count + 1 /\ SetLoc(0)
      BY <1>11 DEF gen_func_enter, new_label
    <2>2. x \in Name
      BY <1>3 DEF WellFormed, Idents
    <2>3. Due(frames, e) = {}
      BY <1>5, <1>6, <1>7, <1>8, <2>1
    <2> HIDE DEF x
    <2>4. Resolved(out', {}, label_count)
      BY <1>2, <1>6, <2>1, <2>2, <2>3, PrologueLines
    <2>5. Resolved(out', {} \cup {label_count}, label_count + 1)
      <3>1. {label_count} \subseteq label_count..label_count + 1 - 1 /\ 1 \in Nat
        BY <1>2
      <3> QED
        BY <1>2, <2>4, <3>1, ResolvedFresh
    <2>6. InBody' /\ label_count # NoLabel
      BY <1>2, <1>10, <2>1 DEF NoLabel
    <2>7. Apart(frames', label_count) /\ Due(frames', label_count) = {} \cup {label_count}
      BY <1>2, <1>8, <1>9, <1>10, <2>1, <2>6
    <2> QED
      BY <2>1, <2>5, <2>6, <2>7 DEF LabelInv
  <1>12. CASE gen_func_param
    <2>1. CASE std_compile_error
      BY <2>1, LabelsError
    <2>2. CASE ~std_compile_error
      <3>1. /\ Top.loc \in 0..Len(Top.node.func_t.params) - 1
            /\ SetLoc(Top.loc + 1) /\ UNCHANGED labelVars
            /\ \E r : Emit(<<emit_mov(mk_register(r, "SZ_64"), Slot(cur_offset'))>>)
        BY <1>12, <2>2 DEF gen_func_param
      <3>2. Top.loc + 1 \in Int /\ Top.loc + 1 # Fresh /\ Top.loc # Fresh
        BY <1>3, <3>1 DEF Fresh, WellFormed
      <3>3. Moves /\ InBody' /\ InBody
        BY <1>5, <1>10, <3>1, <3>2
      <3>4. AddsMute(out, out')
        BY <1>2, <3>1, EmitsOne, MuteEmits, SilentAdds
      <3>5. Apart(frames', e) /\ Due(frames', e) = Due(frames, e)
        BY <1>7, <1>8, <1>9, <3>3
      <3> QED
        BY <1>2, <1>6, <3>1, <3>3, <3>4, <3>5, ResolvedMute DEF LabelInv, labelVars
    <2> QED
      BY <2>1, <2>2
  <1>13. CASE gen_func_stmt
    <2>1. AllParams /\ UNCHANGED <<labelVars, outVars>> /\ Descend(Top.loc, push_depth)
      BY <1>13 DEF gen_func_stmt
    <2>2. Top.loc # Fresh
      BY <1>3, <2>1 DEF AllParams, WellFormed, Fresh
    <2>3. Moves
      BY <1>3, <2>1 DEF Moves
    <2>4. InBody /\ InBody'
      <3>0. PICK l \in Int : l = Top.loc /\ Descend(l, push_depth)
        BY <1>3, <2>1
      <3>1. /\ Len(frames') = Len(frames) + 1
            /\ \A k \in 1..Len(frames) :
                 frames'[k] = IF k = Len(frames)
                                THEN [Top EXCEPT !.at = @ + 1, !.loc = l]
                                ELSE frames[k]
        BY ONLY <1>2, <1>3, <3>0, DescendShape
      <3>2. Len(frames') = 2 /\ frames'[1] = [Top EXCEPT !.at = @ + 1, !.loc = l]
        BY <1>4, <3>1
      <3>3. frames'[1].loc = Top.loc
        BY <1>3, <3>0, <3>2 DEF frame_t
      <3> QED
        BY <1>5, <2>2, <3>2, <3>3 DEF InBody
    <2>5. Apart(frames', e) /\ Due(frames', e) = Due(frames, e)
      BY <1>7, <1>8, <1>9, <2>3
    <2> QED
      BY <1>6, <2>1, <2>4, <2>5 DEF LabelInv, labelVars, outVars
  <1>14. CASE gen_func_return
    <2>1. /\ AllParams /\ Emit(Epilogue(e)) /\ epilogue_label' = NoLabel /\ Return
          /\ label_count' = label_count
      BY <1>14 DEF gen_func_return
    <2>2. Top.loc # Fresh
      BY <1>3, <2>1 DEF AllParams, WellFormed, Fresh
    <2>3. Due(frames, e) = {e}
      BY <1>5, <1>6, <1>7, <1>8, <2>2
    <2>4. Resolved(out', {}, label_count)
      BY <1>2, <1>6, <2>1, <2>3, EpilogueLines
    <2>5. ~InBody'
      <3>0. Len(frames) > 0 /\ frames' = Front(frames)
        BY <1>4, <2>1 DEF Return
      <3>1. frames' \in Seq(frame_t) /\ Len(frames') = Len(frames) - 1
        BY <1>4, <3>0, RemoveLast
      <3>2. frames' \in Seq(frame_t) /\ Len(frames') = 0
        BY <1>4, <3>1
      <3> QED
        BY <3>2 DEF InBody
    <2>6. Apart(frames', NoLabel) /\ Due(frames', NoLabel) = {}
      <3>1. Moves
        BY <2>1 DEF Moves
      <3> QED
        BY <1>8, <1>9, <3>1
    <2> QED
      BY <2>1, <2>4, <2>5, <2>6 DEF LabelInv
  <1> QED
    BY <1>11, <1>12, <1>13, <1>14 DEF gen_func_decl

\* No step of gen_program is in the body of a function.
LEMMA program_outside ==
  ASSUME IInv, gen_program
  PROVE  ~InBody'
  <1>1. frames = <<>> /\ (frames' = <<>> \/ TextStep)
    BY DEF gen_program, StartData, DataStep, DataSkip, StartText, TextStep, FinishProgram,
           IInv, WalkInv
  <1>2. Frame(program[i], push_depth).loc = Fresh
    BY DEF Frame
  <1>3. frames' = <<>> \/ frames' = <<Frame(program[i], push_depth)>>
    BY <1>1 DEF TextStep
  <1> QED
    BY <1>2, <1>3 DEF InBody

LEMMA program_labels ==
  ASSUME TypeInv, LabelInv, gen_program
  PROVE  LabelInv'
  <1>1. /\ Inv /\ IInv /\ out \in Seq(LineType) /\ label_count \in Nat
        /\ frames \in Seq(frame_t)
    BY DEF TypeInv, Inv, IInv, ScopeInv, FramesInv
  <1>2. /\ frames = <<>> /\ phase # "error" /\ phase' # "error" /\ UNCHANGED labelVars
        /\ frames' = <<>> \/ TextStep
    BY <1>1 DEF gen_program, StartData, DataStep, DataSkip, StartText, TextStep, FinishProgram,
                IInv, WalkInv
  <1>3. ~InBody /\ epilogue_label = NoLabel /\ Resolved(out, Due(frames, NoLabel), label_count)
    BY <1>2 DEF InBody, LabelInv
  <1>4. \A k \in Nat : OwedAt(frames, k) = {} /\ OwedAt(frames', k) = {}
    <2>1. OwedAt(<<>>, 1) = {} /\ \A k \in Nat : OwedAt(<<>>, k) = {}
      BY DEF OwedAt
    <2>2. CASE TextStep
      <3>1. \/ frames' = <<>>
            \/ frames' = <<Frame(program[i], push_depth)>> /\ program[i].type = "AST_FUNC_DECL"
        BY <2>2 DEF TextStep
      <3>2. program[i].type = "AST_FUNC_DECL" => Owed(Frame(program[i], push_depth)) = {}
        BY DEF Owed, Frame
      <3> QED
        BY <1>2, <2>1, <3>1, <3>2 DEF OwedAt
    <2> QED
      BY <1>2, <2>1, <2>2
  <1>5. ~InBody'
    BY <1>1, program_outside
  <1>6. AddsMute(out, out')
    BY <1>1, program_silent, SilentAdds
  <1>7. Apart(frames', NoLabel) /\ Due(frames', NoLabel) = Due(frames, NoLabel)
    BY <1>4 DEF Apart, Due
  <1> QED
    BY <1>1, <1>2, <1>3, <1>5, <1>6, <1>7, ResolvedMute DEF LabelInv, labelVars

LEMMA LabelsKept ==
  ASSUME TypeInv, TypeInv', LabelInv, [Next]_vars
  PROVE  LabelInv'
  <1>1. CASE UNCHANGED vars
    BY <1>1 DEF vars, walkVars, labelVars, outVars, LabelInv, InBody
  <1> QED
    BY <1>1, expr_silent, SilentLabels, LabelsError, stmt_labels, func_labels, program_labels
    DEF Next, Generate, Terminated

\* What is resolved with nothing due is what the property says.
LEMMA ResolvedAll ==
  ASSUME out \in Seq(LineType), Resolved(out, {}, label_count), label_count \in Nat
  PROVE  LabelsResolve
  <1>1. DOMAIN out = 1..Len(out) /\ Len(out) \in Nat
    OBVIOUS
  <1>2. \A k, l \in DOMAIN out :
          IsLocalLabel(k) /\ IsLocalLabel(l) /\ out[k].dst = out[l].dst => k = l
    BY <1>1 DEF Resolved, IsLocalLabel, Defines
  <1>3. ASSUME NEW k \in DOMAIN out, IsJump(k)
        PROVE  \E l \in DOMAIN out : /\ IsLabel(l, Target(k))
                                     /\ FunctionOf(l) = FunctionOf(k)
                                     /\ l > k
    <2>1. PICK l \in 1..Len(out) :
            /\ l > k
            /\ out[l].op = "label" /\ out[l].dst = mk_local_label(out[k].src.num)
            /\ SameFunctionUpTo(out, k, l)
      BY <1>1, <1>3 DEF Resolved, IsJump
    <2>2. IsLabel(l, Target(k))
      BY <2>1 DEF IsLabel, Target
    <2>3. {j \in 1..l : out[j].op = ".globl"} = {j \in 1..k : out[j].op = ".globl"}
      BY <1>1, <2>1 DEF SameFunctionUpTo
    <2>4. FunctionOf(l) = FunctionOf(k)
      BY <2>3 DEF FunctionOf
    <2> QED
      BY <1>1, <2>1, <2>2, <2>4
  <1> QED
    BY <1>2, <1>3 DEF LabelsResolve

LEMMA LabelsMean ==
  ASSUME TypeInv, LabelInv
  PROVE  LabelsResolve
  <1> SUFFICES ASSUME phase = "done"
               PROVE  LabelsResolve
    BY DEF LabelsResolve
  <1>1. /\ out \in Seq(LineType) /\ label_count \in Nat /\ frames = <<>>
    BY DEF TypeInv, Inv, ScopeInv, IInv, WalkInv
  <1>2. epilogue_label = NoLabel /\ Resolved(out, Due(frames, NoLabel), label_count)
    BY <1>1 DEF LabelInv, InBody
  <1>3. Due(frames, NoLabel) = {}
    BY <1>1 DEF Due, OwedAt
  <1> QED
    BY <1>1, <1>2, <1>3, ResolvedAll

LEMMA LabelsBegin ==
  ASSUME Init
  PROVE  LabelInv
  <1>1. /\ out = <<>> /\ frames = <<>> /\ epilogue_label = NoLabel /\ label_count = 0
    BY DEF Init
  <1>2. \A k \in Nat : OwedAt(frames, k) = {}
    BY <1>1 DEF OwedAt
  <1>3. Apart(frames, NoLabel) /\ Due(frames, NoLabel) = {}
    BY <1>2 DEF Apart, Due
  <1>4. Resolved(out, {}, label_count)
    BY <1>1 DEF Resolved
  <1> QED
    BY <1>1, <1>3, <1>4 DEF LabelInv, InBody

(***************************************************************************)
(* The labels of every generated program fit: none is defined twice, and   *)
(* every jump that gen_if and gen_return emit goes to one label, further   *)
(* on in the function it is in, however ifs, blocks and returns are nested *)
(* and however many functions share label_count.                           *)
(***************************************************************************)
THEOREM JumpsHaveLabels == Spec => []LabelsResolve
  <1>1. Init => LabelInv
    BY LabelsBegin
  <1>2. TypeInv /\ LabelInv /\ [Next]_vars => LabelInv'
    BY TypesKept, LabelsKept
  <1>3. TypeInv /\ LabelInv => LabelsResolve
    BY LabelsMean
  <1> QED
    BY <1>1, <1>2, <1>3, TypesHold, PTL DEF Spec

-----------------------------------------------------------------------------
(***************************************************************************)
(* Lookups of the code generator are lexical, and the stack is as high at  *)
(* a jump as at its label.  The scopes are described by the sequence of    *)
(* names that the calls in progress have declared (Match); every action    *)
(* keeps the description true, and what find_symbol finds in scopes so     *)
(* described is the latest declaration of the name, in the slot of its     *)
(* position.  The same path of calls shows that no statement is generated  *)
(* while values are pushed, so every label and every jump is met with the  *)
(* frame of its function on the stack and nothing else.                    *)
(***************************************************************************)
(* The locals in scope, and the scopes that hold them *)

LocalAt(p) == [kind |-> "local", off |-> -8 * p]
GlobalSymbol == [kind |-> "global", off |-> 0]

\* After the position b, the sequence s has x at p for the last time.
LastFrom(s, b, x, p) ==
  p \in b+1..Len(s) /\ s[p] = x /\ \A q \in p+1..Len(s) : s[q] # x
NeverFrom(s, b, x) == \A q \in b+1..Len(s) : s[q] # x

\* The scope sc holds the locals that s has after its first b.
Describes(sc, b, s) ==
  /\ sc.base_offset = -8 * b
  /\ \A x \in Name :
       \/ NeverFrom(s, b, x) /\ sc.symbols[x] = NoSymbol
       \/ \E p \in Nat : LastFrom(s, b, x, p) /\ sc.symbols[x] = LocalAt(p)

\* live[k] is what the first k frames declare, dec[k] what the k-th one does.
IsLive(live, n, dec) ==
  /\ live[0] = <<>>
  /\ \A k \in 0..n : live[k] \in Seq(Name)
  /\ \A k \in 1..n : live[k] = live[k-1] \o dec[k]

\* e[j] is the frame that has opened the j-th scope, and 0 opens the globals'.
Opens(e, top, opened) ==
  /\ top \in Nat /\ top > 0
  /\ e[1] = 0
  /\ \A j \in 2..top : e[j] \in opened
  /\ \A j, l \in 1..top : j < l => e[j] < e[l]
  /\ \A k \in opened : \E j \in 2..top : e[j] = k

(***************************************************************************)
(* n frames that declare dec, those in `opened` in a scope of their own,   *)
(* are what the stack of scopes stk and the offset off stand for.          *)
(***************************************************************************)
Holds(n, dec, opened, stk, off, globals, live, e) ==
  /\ IsLive(live, n, dec)
  /\ Opens(e, Len(stk), opened)
  /\ off = -8 * Len(live[n])
  /\ \A j \in 2..Len(stk) : Describes(stk[j], Len(live[e[j]-1]), live[e[j]])
  /\ \A x \in Name : stk[1].symbols[x] = IF x \in globals THEN GlobalSymbol ELSE NoSymbol

Match(n, dec, opened, stk, off, globals) ==
  \E live, e : Holds(n, dec, opened, stk, off, globals, live, e)

LEMMA ConcatNothing ==
  ASSUME NEW S, NEW s \in Seq(S)
  PROVE  s \o <<>> = s
  OBVIOUS

LEMMA MatchSame ==
  ASSUME NEW n \in Nat, NEW dec, NEW dec2, \A k \in 1..n : dec2[k] = dec[k],
         NEW opened, NEW stk, NEW off, NEW globals, Match(n, dec, opened, stk, off, globals)
  PROVE  Match(n, dec2, opened, stk, off, globals)
  BY DEF Match, Holds, IsLive

\* A new frame declares nothing.
LEMMA MatchGrow ==
  ASSUME NEW n \in Nat, NEW dec, dec[n+1] = <<>>, NEW opened, opened \subseteq 1..n,
         NEW stk, NEW off, NEW globals, Match(n, dec, opened, stk, off, globals)
  PROVE  Match(n + 1, dec, opened, stk, off, globals)
  <1>1. PICK live, e :
          /\ IsLive(live, n, dec)
          /\ Opens(e, Len(stk), opened)
          /\ off = -8 * Len(live[n])
          /\ \A j \in 2..Len(stk) : Describes(stk[j], Len(live[e[j]-1]), live[e[j]])
          /\ \A x \in Name : stk[1].symbols[x] = IF x \in globals THEN GlobalSymbol ELSE NoSymbol
    BY DEF Match, Holds
  <1> DEFINE lv == [k \in 0..n+1 |-> IF k = n + 1 THEN live[n] ELSE live[k]]
  <1>2. lv[n+1] = live[n] /\ \A k \in 0..n : lv[k] = live[k]
    OBVIOUS
  <1> HIDE DEF lv
  <1>3. IsLive(lv, n + 1, dec)
    <2>1. live[n] \in Seq(Name) /\ n \in 0..n /\ 0 \in 0..n
      BY <1>1 DEF IsLive
    <2>2. live[n] \o <<>> = live[n]
      BY <2>1, ConcatNothing
    <2>3. lv[n+1] = lv[n] \o dec[n+1]
      BY <1>2, <2>1, <2>2, Zenon
    <2>4. ASSUME NEW k \in 1..n
          PROVE  lv[k] = lv[k-1] \o dec[k]
      <3>1. k \in 0..n /\ k - 1 \in 0..n
        OBVIOUS
      <3>2. lv[k] = live[k] /\ lv[k-1] = live[k-1] /\ live[k] = live[k-1] \o dec[k]
        BY <1>1, <1>2, <3>1 DEF IsLive
      <3> QED
        BY <3>2, Zenon
    <2>5. ASSUME NEW k \in 1..n+1
          PROVE  lv[k] = lv[k-1] \o dec[k]
      <3>1. CASE k = n + 1
        <4>1. k - 1 = n
          BY <3>1
        <4> QED
          BY <2>3, <3>1, <4>1, Zenon
      <3>2. CASE k # n + 1
        <4>1. k \in 1..n
          BY <3>2
        <4> QED
          BY <2>4, <4>1, Zenon
      <3> QED
        BY <3>1, <3>2
    <2>6. ASSUME NEW k \in 0..n+1
          PROVE  lv[k] \in Seq(Name)
      <3>1. k = n + 1 \/ k \in 0..n
        OBVIOUS
      <3> QED
        BY <1>1, <1>2, <2>1, <3>1 DEF IsLive
    <2> QED
      BY <1>1, <1>2, <2>1, <2>5, <2>6 DEF IsLive
  <1>4. \A j \in 2..Len(stk) : lv[e[j]] = live[e[j]] /\ lv[e[j]-1] = live[e[j]-1]
    BY <1>1, <1>2 DEF Opens
  <1>5. \A j \in 2..Len(stk) : Describes(stk[j], Len(lv[e[j]-1]), lv[e[j]])
    BY <1>1, <1>4
  <1> QED
    BY <1>1, <1>2, <1>3, <1>5 DEF Match, Holds

\* A frame that declared nothing and opened no scope is left.
LEMMA MatchShrink ==
  ASSUME NEW n \in Nat, n > 0, NEW dec, dec[n] = <<>>, NEW opened, opened \subseteq 1..n,
         n \notin opened, NEW stk, NEW off, NEW globals, Match(n, dec, opened, stk, off, globals)
  PROVE  Match(n - 1, dec, opened, stk, off, globals)
  <1>1. PICK live, e :
          /\ IsLive(live, n, dec)
          /\ Opens(e, Len(stk), opened)
          /\ off = -8 * Len(live[n])
          /\ \A j \in 2..Len(stk) : Describes(stk[j], Len(live[e[j]-1]), live[e[j]])
          /\ \A x \in Name : stk[1].symbols[x] = IF x \in globals THEN GlobalSymbol ELSE NoSymbol
    BY DEF Match, Holds
  <1>2. n \in 1..n /\ n - 1 \in 0..n /\ 0..n-1 \subseteq 0..n /\ 1..n-1 \subseteq 1..n
    OBVIOUS
  <1>3. live[n] = live[n-1]
    <2>1. live[n-1] \in Seq(Name) /\ live[n] = live[n-1] \o <<>>
      BY <1>1, <1>2 DEF IsLive
    <2> QED
      BY <2>1, ConcatNothing, Zenon
  <1>4. IsLive(live, n - 1, dec)
    BY <1>1, <1>2 DEF IsLive
  <1> QED
    BY <1>1, <1>3, <1>4 DEF Match, Holds

\* The youngest frame opens a scope.
LEMMA MatchPush ==
  ASSUME NEW n \in Nat, n > 0, NEW dec, dec[n] = <<>>, NEW opened, opened \subseteq 1..n,
         n \notin opened, NEW stk \in Seq(ScopeType), NEW off \in Int, NEW globals,
         Match(n, dec, opened, stk, off, globals)
  PROVE  Match(n, dec, opened \cup {n}, Append(stk, Scope(off)), off, globals)
  <1>1. PICK live, e :
          /\ IsLive(live, n, dec)
          /\ Opens(e, Len(stk), opened)
          /\ off = -8 * Len(live[n])
          /\ \A j \in 2..Len(stk) : Describes(stk[j], Len(live[e[j]-1]), live[e[j]])
          /\ \A x \in Name : stk[1].symbols[x] = IF x \in globals THEN GlobalSymbol ELSE NoSymbol
    BY DEF Match, Holds
  <1> DEFINE L == Len(stk)
             stk2 == Append(stk, Scope(off))
             f == [j \in 1..L+1 |-> IF j = L + 1 THEN n ELSE e[j]]
  <1>2. L \in Nat /\ L > 0
    BY <1>1 DEF Opens
  <1>3. Scope(off) \in ScopeType
    BY ScopeTyped
  <1>4. Len(stk2) = L + 1 /\ stk2[L+1] = Scope(off) /\ \A j \in 1..L : stk2[j] = stk[j]
    <2> HIDE DEF ScopeType, Scope
    <2>1. /\ Len(stk2) = L + 1
          /\ \A j \in 1..L+1 : stk2[j] = IF j = L + 1 THEN Scope(off) ELSE stk[j]
      BY <1>3, AddLast
    <2> QED
      BY <1>2, <2>1
  <1>5. f[L+1] = n /\ \A j \in 1..L : f[j] = e[j]
    BY <1>2
  <1> HIDE DEF L, stk2, f
  <1>6. Opens(f, L + 1, opened \cup {n})
    <2>1. /\ L \in Nat /\ L > 0 /\ e[1] = 0 /\ \A j \in 2..L : e[j] \in opened
          /\ \A j, l \in 1..L : j < l => e[j] < e[l]
          /\ \A k \in opened : \E j \in 2..L : e[j] = k
      BY <1>1, <1>2 DEF Opens, L
    <2>2. \A j \in 1..L : e[j] \in 0..n-1
      <3> TAKE j \in 1..L
      <3>1. CASE j = 1
        BY <2>1, <3>1
      <3>2. CASE j # 1
        <4>1. j \in 2..L
          BY <2>1, <3>2
        <4>2. e[j] \in opened
          BY <2>1, <4>1
        <4>3. ASSUME NEW k \in opened
              PROVE  k \in 0..n-1
          <5>1. k \in 1..n /\ k # n
            OBVIOUS
          <5> QED
            BY <5>1
        <4> QED
          BY <4>2, <4>3
      <3> QED
        BY <3>1, <3>2
    <2>3. f[1] = 0 /\ \A j \in 2..L+1 : f[j] \in opened \cup {n}
      <3>1. 1 \in 1..L
        BY <2>1
      <3>2. ASSUME NEW j \in 2..L+1
            PROVE  j = L + 1 \/ (j \in 2..L /\ j \in 1..L)
        BY <2>1
      <3> QED
        BY <1>5, <2>1, <3>1, <3>2
    <2>4. ASSUME NEW j \in 1..L+1, NEW l \in 1..L+1, j < l
          PROVE  f[j] < f[l]
      <3>1. j \in 1..L
        BY <1>2, <2>4
      <3>2. CASE l = L + 1
        BY <1>5, <2>2, <3>1, <3>2
      <3>3. CASE l # L + 1
        <4>1. l \in 1..L
          BY <1>2, <3>3
        <4> QED
          BY <1>5, <2>1, <2>4, <3>1, <4>1
      <3> QED
        BY <3>2, <3>3
    <2>5. ASSUME NEW k \in opened \cup {n}
          PROVE  \E j \in 2..L+1 : f[j] = k
      <3>1. CASE k = n
        BY <1>2, <1>5, <3>1
      <3>2. CASE k \in opened
        <4>1. PICK j \in 2..L : e[j] = k
          BY <2>1, <3>2
        <4>2. j \in 1..L /\ j \in 2..L+1
          BY <1>2
        <4> QED
          BY <1>5, <4>1, <4>2
      <3> QED
        BY <3>1, <3>2
    <2>6. L + 1 \in Nat /\ L + 1 > 0
      BY <1>2
    <2> QED
      BY <2>3, <2>4, <2>5, <2>6 DEF Opens
  <1>7. live[n] = live[n-1] /\ live[n] \in Seq(Name) /\ Len(live[n]) \in Nat
    <2>1. n \in 1..n /\ n - 1 \in 0..n /\ n \in 0..n
      OBVIOUS
    <2>2. live[n-1] \in Seq(Name) /\ live[n] = live[n-1] \o <<>> /\ live[n] \in Seq(Name)
      BY <1>1, <2>1 DEF IsLive
    <2>3. live[n] = live[n-1]
      BY <2>2, ConcatNothing, Zenon
    <2> QED
      BY <2>2, <2>3
  <1>8. Describes(Scope(off), Len(live[n-1]), live[n])
    <2>1. Scope(off).base_offset = -8 * Len(live[n-1])
      BY <1>1, <1>7 DEF Scope
    <2>2. \A x \in Name : Scope(off).symbols[x] = NoSymbol
      BY DEF Scope
    <2>3. \A x \in Name : NeverFrom(live[n], Len(live[n-1]), x)
      BY <1>7 DEF NeverFrom
    <2> QED
      BY <2>1, <2>2, <2>3 DEF Describes
  <1>9. ASSUME NEW j \in 2..L+1
        PROVE  Describes(stk2[j], Len(live[f[j]-1]), live[f[j]])
    <2>1. CASE j = L + 1
      BY <1>4, <1>5, <1>8, <2>1, Zenon
    <2>2. CASE j # L + 1
      <3>1. j \in 2..L /\ j \in 1..L
        BY <1>2, <2>2
      <3>2. Describes(stk[j], Len(live[e[j]-1]), live[e[j]])
        BY <1>1, <3>1 DEF L
      <3>3. stk2[j] = stk[j] /\ f[j] = e[j]
        BY <1>4, <1>5, <3>1
      <3> QED
        BY <3>2, <3>3, Zenon
    <2> QED
      BY <2>1, <2>2
  <1>10. stk2[1] = stk[1]
    BY <1>2, <1>4
  <1>11. Match(n, dec, opened \cup {n}, stk2, off, globals)
    BY <1>1, <1>4, <1>6, <1>9, <1>10 DEF Match, Holds
  <1> QED
    BY <1>11 DEF stk2

\* The youngest frame is left with its scope.
LEMMA MatchPop ==
  ASSUME NEW n \in Nat, NEW dec, NEW opened, opened \subseteq 1..n,
         n \in opened, NEW stk \in Seq(ScopeType), NEW off \in Int, NEW globals,
         Match(n, dec, opened, stk, off, globals)
  PROVE  Match(n - 1, dec, opened \ {n}, Front(stk), Last(stk).base_offset, globals)
  <1>1. PICK live, e :
          /\ IsLive(live, n, dec)
          /\ Opens(e, Len(stk), opened)
          /\ off = -8 * Len(live[n])
          /\ \A j \in 2..Len(stk) : Describes(stk[j], Len(live[e[j]-1]), live[e[j]])
          /\ \A x \in Name : stk[1].symbols[x] = IF x \in globals THEN GlobalSymbol ELSE NoSymbol
    BY DEF Match, Holds
  <1> DEFINE L == Len(stk)
             stk2 == Front(stk)
             base == Last(stk).base_offset
  <1>2. /\ L \in Nat /\ L > 0 /\ e[1] = 0 /\ \A j \in 2..L : e[j] \in opened
        /\ \A j, l \in 1..L : j < l => e[j] < e[l]
        /\ \A k \in opened : \E j \in 2..L : e[j] = k
    BY <1>1 DEF Opens
  <1>3. PICK m \in 2..L : e[m] = n
    BY <1>2
  <1>4. L \in 2..L /\ e[L] = n
    <2>1. m \in 1..L /\ L \in 1..L /\ L \in 2..L
      BY <1>2
    <2>2. CASE m = L
      BY <1>3, <2>1, <2>2
    <2>3. CASE m # L
      <3>1. m < L /\ n < e[L]
        BY <1>2, <1>3, <2>1, <2>3
      <3>2. PICK k \in 1..n : k = e[L]
        BY <1>2, <2>1
      <3> QED
        BY <3>1, <3>2
    <2> QED
      BY <2>2, <2>3
  <1>5. Len(stk2) = L - 1 /\ \A j \in 1..L-1 : stk2[j] = stk[j]
    <2> HIDE DEF ScopeType
    <2> QED
      BY <1>2, RemoveLast
  <1>6. base = -8 * Len(live[n-1])
    <2>1. Last(stk) = stk[L]
      BY <1>2 DEF Last
    <2>2. Describes(stk[L], Len(live[n-1]), live[n])
      <3>1. Describes(stk[L], Len(live[e[L]-1]), live[e[L]])
        BY <1>1, <1>4
      <3> QED
        BY <1>4, <3>1, Zenon
    <2> QED
      BY <2>1, <2>2 DEF Describes
  <1> HIDE DEF L, stk2, base
  <1>7. Opens(e, L - 1, opened \ {n})
    <2>1. L - 1 \in Nat /\ L - 1 > 0 /\ 2..L-1 \subseteq 2..L /\ 1..L-1 \subseteq 1..L /\ L \in 1..L
      BY <1>2, <1>4
    <2>2. ASSUME NEW j \in 2..L-1
          PROVE  e[j] \in opened \ {n}
      <3>1. j \in 2..L /\ j \in 1..L /\ j < L /\ L \in 1..L
        BY <1>2
      <3>2. e[j] < n /\ e[j] \in opened
        BY <1>2, <1>4, <3>1
      <3> QED
        BY <3>2
    <2>3. ASSUME NEW k \in opened \ {n}
          PROVE  \E j \in 2..L-1 : e[j] = k
      <3>1. PICK j \in 2..L : e[j] = k
        BY <1>2
      <3>2. j # L
        BY <1>4, <3>1
      <3>3. j \in 2..L-1
        BY <1>2, <3>2
      <3> QED
        BY <3>1, <3>3
    <2>4. \A j, l \in 1..L-1 : j < l => e[j] < e[l]
      BY <1>2, <2>1
    <2> QED
      BY <1>2, <2>1, <2>2, <2>3, <2>4 DEF Opens
  <1>8. n \in 1..n /\ 0..n-1 \subseteq 0..n /\ 1..n-1 \subseteq 1..n
    OBVIOUS
  <1>9. IsLive(live, n - 1, dec)
    BY <1>1, <1>8 DEF IsLive
  <1>10. ASSUME NEW j \in 2..L-1
         PROVE  Describes(stk2[j], Len(live[e[j]-1]), live[e[j]])
    <2>1. j \in 1..L-1 /\ j \in 2..L
      BY <1>2
    <2>2. Describes(stk[j], Len(live[e[j]-1]), live[e[j]])
      BY <1>1, <2>1 DEF L
    <2>3. stk2[j] = stk[j]
      BY <1>5, <2>1
    <2> QED
      BY <2>2, <2>3, Zenon
  <1>11. stk2[1] = stk[1]
    BY <1>2, <1>4, <1>5
  <1>12. Match(n - 1, dec, opened \ {n}, stk2, base, globals)
    BY <1>1, <1>5, <1>6, <1>7, <1>9, <1>10, <1>11 DEF Match, Holds
  <1> QED
    BY <1>12 DEF stk2, base

\* The youngest frame, in whose scope it is, declares x.
LEMMA MatchDeclare ==
  ASSUME NEW n \in Nat, NEW dec, NEW dec2, NEW x \in Name, \A k \in 1..n-1 : dec2[k] = dec[k],
         dec[n] \in Seq(Name), dec2[n] = Append(dec[n], x),
         NEW opened, opened \subseteq 1..n, n \in opened,
         NEW stk \in Seq(ScopeType), NEW off \in Int, NEW globals,
         Match(n, dec, opened, stk, off, globals),
         NEW stk2, stk2 = [stk EXCEPT ![Len(stk)].symbols[x] = [kind |-> "local", off |-> off - 8]]
  PROVE  Match(n, dec2, opened, stk2, off - 8, globals)
  <1>1. PICK live, e :
          /\ IsLive(live, n, dec)
          /\ Opens(e, Len(stk), opened)
          /\ off = -8 * Len(live[n])
          /\ \A j \in 2..Len(stk) : Describes(stk[j], Len(live[e[j]-1]), live[e[j]])
          /\ \A y \in Name : stk[1].symbols[y] = IF y \in globals THEN GlobalSymbol ELSE NoSymbol
    BY DEF Match, Holds
  <1> DEFINE L == Len(stk)
             new == Append(live[n], x)
             lv == [k \in 0..n |-> IF k = n THEN new ELSE live[k]]
             sym == [kind |-> "local", off |-> off - 8]
  <1>2. /\ L \in Nat /\ L > 0 /\ e[1] = 0 /\ \A j \in 2..L : e[j] \in opened
        /\ \A j, l \in 1..L : j < l => e[j] < e[l]
        /\ \A k \in opened : \E j \in 2..L : e[j] = k
    BY <1>1 DEF Opens
  <1>3. PICK m \in 2..L : e[m] = n
    BY <1>2
  <1>4. L \in 2..L /\ L \in 1..L /\ e[L] = n
    <2>1. m \in 1..L /\ L \in 1..L /\ L \in 2..L
      BY <1>2
    <2>2. CASE m = L
      BY <1>3, <2>1, <2>2
    <2>3. CASE m # L
      <3>1. m < L /\ n < e[L]
        BY <1>2, <1>3, <2>1, <2>3
      <3>2. PICK k \in 1..n : k = e[L]
        BY <1>2, <2>1
      <3> QED
        BY ONLY <3>1, <3>2, n \in Nat
    <2> QED
      BY <2>1, <2>2, <2>3
  <1>5. ASSUME NEW j \in 1..L-1
        PROVE  e[j] \in 0..n-1
    <2>1. j \in 1..L /\ j < L /\ e[j] < n
      BY <1>2, <1>4, SMTT(30)
    <2>2. CASE j = 1
      BY <1>2, <2>2
    <2>3. CASE j # 1
      <3>1. j \in 2..L
        BY <1>2, <2>3
      <3>2. PICK k \in 1..n : k = e[j]
        BY <1>2, <3>1
      <3> QED
        BY <2>1, <3>2
    <2> QED
      BY <2>2, <2>3
  <1>6. live[n] \in Seq(Name) /\ Len(live[n]) \in Nat
    <2>1. n \in 0..n
      OBVIOUS
    <2> QED
      BY <1>1, <2>1 DEF IsLive
  <1>7. /\ new \in Seq(Name) /\ Len(new) = Len(live[n]) + 1 /\ new[Len(new)] = x
        /\ \A k \in 1..Len(live[n]) : new[k] = live[n][k]
    BY <1>6
  <1>8. lv[n] = new /\ \A k \in 0..n-1 : lv[k] = live[k]
    OBVIOUS
  <1> HIDE DEF new, lv
  <1>9. IsLive(lv, n, dec2)
    <2>1. n \in 1..n /\ 0 \in 0..n-1 /\ n - 1 \in 0..n-1 /\ n - 1 \in 0..n
      OBVIOUS
    <2>2. /\ live[0] = <<>>
          /\ \A k \in 0..n : live[k] \in Seq(Name)
          /\ \A k \in 1..n : live[k] = live[k-1] \o dec[k]
      BY <1>1 DEF IsLive
    <2>3. lv[n] = lv[n-1] \o dec2[n]
      <3>1. lv[n-1] = live[n-1] /\ live[n-1] \in Seq(Name) /\ live[n] = live[n-1] \o dec[n]
        <4>1. lv[n-1] = live[n-1]
          BY <1>8, <2>1
        <4>2. live[n-1] \in Seq(Name)
          BY <2>1, <2>2
        <4>3. live[n] = live[n-1] \o dec[n]
          BY <2>1, <2>2
        <4> QED
          BY <4>1, <4>2, <4>3
      <3>2. PICK s \in Seq(Name) : s = live[n-1]
        BY <3>1
      <3>3. PICK t \in Seq(Name) : t = dec[n]
        OBVIOUS
      <3>4. Append(s \o t, x) = s \o Append(t, x)
        <4>1. s \o t \in Seq(Name) /\ <<x>> \in Seq(Name)
          OBVIOUS
        <4>2. Append(s \o t, x) = (s \o t) \o <<x>> /\ Append(t, x) = t \o <<x>>
          BY <4>1, AppendIsConcat
        <4>3. (s \o t) \o <<x>> = s \o (t \o <<x>>)
          BY ONLY s \in Seq(Name), t \in Seq(Name), x \in Name, <4>1, AppendIsConcat
        <4> QED
          BY <4>2, <4>3, Zenon
      <3>5. live[n] = s \o t /\ dec2[n] = Append(t, x)
        BY <3>1, <3>2, <3>3, Zenon
      <3>6. new = Append(s \o t, x)
        BY <3>5, Zenon DEF new
      <3>7. new = live[n-1] \o dec2[n]
        BY <3>2, <3>4, <3>5, <3>6, Zenon
      <3> QED
        BY <1>8, <3>1, <3>7, Zenon
    <2>4. ASSUME NEW k \in 1..n-1
          PROVE  lv[k] = lv[k-1] \o dec2[k]
      <3>1. k \in 0..n-1 /\ k - 1 \in 0..n-1 /\ k \in 1..n
        OBVIOUS
      <3>2. lv[k] = live[k] /\ lv[k-1] = live[k-1] /\ live[k] = live[k-1] \o dec[k] /\ dec2[k] = dec[k]
        BY <1>8, <2>2, <3>1
      <3> QED
        BY <3>2, Zenon
    <2>5. \A k \in 1..n : lv[k] = lv[k-1] \o dec2[k]
      <3> TAKE k \in 1..n
      <3>1. CASE k = n
        BY <2>3, <3>1, Zenon
      <3>2. CASE k # n
        <4>1. k \in 1..n-1
          BY <3>2
        <4> QED
          BY <2>4, <4>1, Zenon
      <3> QED
        BY <3>1, <3>2
    <2>6. \A k \in 0..n : lv[k] \in Seq(Name)
      <3> TAKE k \in 0..n
      <3>1. k = n \/ k \in 0..n-1
        OBVIOUS
      <3> QED
        BY <1>7, <1>8, <2>2, <3>1
    <2> QED
      BY <1>8, <2>1, <2>2, <2>5, <2>6 DEF IsLive
  <1>10. /\ Len(stk2) = L /\ \A j \in 1..L-1 : stk2[j] = stk[j]
         /\ stk2[L].base_offset = stk[L].base_offset
         /\ stk2[L].symbols[x] = sym
         /\ \A y \in Name : y # x => stk2[L].symbols[y] = stk[L].symbols[y]
    <2>1. PICK sc \in ScopeType : sc = stk[L]
      BY <1>2, <1>4
    <2>2. sc.symbols \in [Name -> symbol_t]
      BY DEF ScopeType
    <2> DEFINE t == [sc EXCEPT !.symbols[x] = sym]
    <2>3. stk2 = [stk EXCEPT ![L] = t]
      BY <1>4, <2>1
    <2>4. /\ t.base_offset = sc.base_offset /\ t.symbols = [sc.symbols EXCEPT ![x] = sym]
      BY DEF ScopeType
    <2>5. /\ t.symbols[x] = sym
          /\ \A y \in Name : y # x => t.symbols[y] = sc.symbols[y]
      BY <2>2, <2>4
    <2>7. t \in ScopeType
      <3>1. sym \in symbol_t
        BY DEF symbol_t
      <3>2. [sc.symbols EXCEPT ![x] = sym] \in [Name -> symbol_t]
        BY <2>2, <3>1
      <3> QED
        BY <3>2 DEF ScopeType
    <2> HIDE DEF t
    <2>6. /\ Len(stk2) = L /\ stk2[L] = t /\ \A j \in 1..L-1 : stk2[j] = stk[j]
      <3> DEFINE r == [stk EXCEPT ![Len(stk)] = t]
      <3> HIDE DEF ScopeType
      <3>1. /\ Len(r) = Len(stk)
            /\ \A j \in 1..Len(stk) : r[j] = IF j = Len(stk) THEN t ELSE stk[j]
        BY ONLY stk \in Seq(ScopeType), Len(stk) > 0, t \in ScopeType, ReplaceLast
      <3>2. Len(stk2) = L /\ \A j \in 1..L : stk2[j] = IF j = L THEN t ELSE stk[j]
        BY <2>3, <3>1
      <3> QED
        BY <1>2, <1>4, <3>2
    <2> QED
      BY <2>1, <2>4, <2>5, <2>6
  <1>11. Describes(stk2[L], Len(lv[n-1]), lv[n])
    <2> DEFINE b == Len(lv[n-1])
    <2>1. lv[n-1] = live[n-1] /\ b \in Nat /\ b <= Len(live[n])
      <3>1. n - 1 \in 0..n-1 /\ n - 1 \in 0..n /\ n \in 1..n
        OBVIOUS
      <3>2. lv[n-1] = live[n-1] /\ live[n-1] \in Seq(Name) /\ live[n] = live[n-1] \o dec[n]
        BY <1>1, <1>8, <3>1 DEF IsLive
      <3>3. \A s, t \in Seq(Name) : Len(s) \in Nat /\ Len(s) <= Len(s \o t)
        OBVIOUS
      <3>4. Len(live[n-1]) \in Nat /\ Len(live[n-1]) <= Len(live[n-1] \o dec[n])
        BY <3>2, <3>3
      <3> QED
        BY <3>2, <3>4
    <2> HIDE DEF b
    <2>2. Describes(stk[L], b, live[n])
      <3>1. Describes(stk[L], Len(live[e[L]-1]), live[e[L]])
        BY <1>1, <1>4
      <3> QED
        BY <1>4, <2>1, <3>1, Zenon DEF b
    <2>3. stk2[L].base_offset = -8 * b
      BY <1>10, <2>2 DEF Describes
    <2>4. LastFrom(new, b, x, Len(new)) /\ Len(new) \in Nat
      BY <1>6, <1>7, <2>1 DEF LastFrom
    <2>5. stk2[L].symbols[x] = LocalAt(Len(new))
      <3>1. -8 * Len(new) = off - 8
        <4>1. off = -8 * Len(live[n]) /\ Len(live[n]) \in Nat /\ Len(new) = Len(live[n]) + 1
          BY <1>1, <1>6, <1>7
        <4> QED
          BY ONLY <4>1
      <3> QED
        BY <1>10, <3>1 DEF LocalAt
    <2>6. ASSUME NEW y \in Name, y # x
          PROVE  \/ NeverFrom(new, b, y) /\ stk2[L].symbols[y] = NoSymbol
                 \/ \E p \in Nat : LastFrom(new, b, y, p) /\ stk2[L].symbols[y] = LocalAt(p)
      <3>1. stk2[L].symbols[y] = stk[L].symbols[y]
        BY <1>10, <2>6
      <3>2. CASE NeverFrom(live[n], b, y) /\ stk[L].symbols[y] = NoSymbol
        <4>1. NeverFrom(new, b, y)
          <5> SUFFICES ASSUME NEW q \in b+1..Len(new)
                       PROVE  new[q] # y
            BY DEF NeverFrom
          <5>1. CASE q = Len(new)
            BY <1>7, <2>6, <5>1
          <5>2. CASE q # Len(new)
            <6>2. Len(new) = Len(live[n]) + 1 /\ Len(live[n]) \in Nat
              BY <1>6, <1>7
            <6>3. b \in Nat /\ q \in b+1..Len(new)
              BY <2>1
            <6>1. q \in b+1..Len(live[n]) /\ q \in 1..Len(live[n])
              BY ONLY <5>2, <6>2, <6>3
            <6> QED
              BY <1>7, <3>2, <6>1 DEF NeverFrom
          <5> QED
            BY <5>1, <5>2
        <4> QED
          BY <3>1, <3>2, <4>1
      <3>3. ASSUME NEW p \in Nat, LastFrom(live[n], b, y, p), stk[L].symbols[y] = LocalAt(p)
            PROVE  LastFrom(new, b, y, p)
        <4>3. Len(new) = Len(live[n]) + 1 /\ Len(live[n]) \in Nat
          BY <1>6, <1>7
        <4>4. p \in b+1..Len(live[n]) /\ live[n][p] = y
          BY <3>3 DEF LastFrom
        <4>5. b \in Nat
          BY <2>1
        <4>1. /\ p \in b+1..Len(live[n]) /\ p \in 1..Len(live[n]) /\ p \in b+1..Len(new)
              /\ live[n][p] = y
          BY ONLY <4>3, <4>4, <4>5
        <4>2. ASSUME NEW q \in p+1..Len(new)
              PROVE  new[q] # y
          <5>1. CASE q = Len(new)
            BY <1>7, <2>6, <5>1
          <5>2. CASE q # Len(new)
            <6>1. Len(new) = Len(live[n]) + 1 /\ Len(live[n]) \in Nat
              BY <1>6, <1>7
            <6>2. q \in p+1..Len(live[n]) /\ q \in 1..Len(live[n])
              BY <3>3, <4>2, <5>2, <6>1
            <6> QED
              BY <1>7, <3>3, <6>2 DEF LastFrom
          <5> QED
            BY <5>1, <5>2
        <4> QED
          BY <1>7, <4>1, <4>2 DEF LastFrom
      <3> QED
        BY <2>2, <3>1, <3>2, <3>3 DEF Describes
    <2>7. Describes(stk2[L], b, new)
      BY <2>3, <2>4, <2>5, <2>6 DEF Describes
    <2> QED
      BY <1>8, <2>7, Zenon DEF b
  <1> HIDE DEF L
  <1>12. ASSUME NEW j \in 2..L
         PROVE  Describes(stk2[j], Len(lv[e[j]-1]), lv[e[j]])
    <2>1. CASE j = L
      BY <1>4, <1>11, <2>1, Zenon
    <2>2. CASE j # L
      <3>1. j \in 1..L-1 /\ j \in 2..L
        BY <1>2, <2>2
      <3>2. Describes(stk[j], Len(live[e[j]-1]), live[e[j]])
        BY <1>1, <3>1 DEF L
      <3>3. PICK k \in 1..n : k = e[j]
        BY <1>2, <3>1
      <3>4. e[j] \in 0..n-1 /\ e[j] - 1 \in 0..n-1
        <4>1. e[j] \in 0..n-1
          BY <1>5, <3>1
        <4>2. n \in Nat
          OBVIOUS
        <4> QED
          BY ONLY <3>3, <4>1, <4>2
      <3>5. stk2[j] = stk[j] /\ lv[e[j]] = live[e[j]] /\ lv[e[j]-1] = live[e[j]-1]
        BY <1>8, <1>10, <3>1, <3>4
      <3> QED
        BY <3>2, <3>5, Zenon
    <2> QED
      BY <2>1, <2>2
  <1>13. off - 8 = -8 * Len(lv[n])
    <2>1. Len(lv[n]) = Len(live[n]) + 1
      BY <1>7, <1>8
    <2> QED
      BY <1>1, <1>6, <2>1
  <1>14. stk2[1] = stk[1]
    BY <1>2, <1>4, <1>10
  <1> QED
    BY <1>1, <1>9, <1>10, <1>12, <1>13, <1>14 DEF Match, Holds, L

-----------------------------------------------------------------------------
(* What a search of the scopes finds *)

LEMMA MaxIs ==
  ASSUME NEW S, S \subseteq Int, NEW m \in S, \A k \in S : m >= k
  PROVE  Max(S) = m
  <1>1. ASSUME NEW j \in S, \A k \in S : j >= k
        PROVE  j = m
    <2>1. j \in Int /\ m \in Int /\ j >= m /\ m >= j
      BY <1>1
    <2> QED
      BY <2>1
  <1>2. \A j \in S : (\A k \in S : j >= k) <=> j = m
    BY <1>1
  <1> QED
    BY <1>2, Zenon DEF Max

\* Frames only add to what the ones below them declare.
DecsIn(dec, n, opened) == \A k \in 1..n : k \notin opened => dec[k] = <<>>
DecTyped(dec, n) == \A k \in 1..n : dec[k] \in Seq(Name)

LEMMA LiveGrows ==
  ASSUME NEW n \in Nat, NEW dec, DecTyped(dec, n),
         NEW live, IsLive(live, n, dec), NEW k \in 0..n, NEW l \in 0..n, k <= l
  PROVE  /\ Len(live[k]) \in Nat /\ Len(live[k]) <= Len(live[l])
         /\ \A p \in 1..Len(live[k]) : live[l][p] = live[k][p]
  <1> DEFINE Extends(m) == /\ Len(live[k]) <= Len(live[m])
                           /\ \A p \in 1..Len(live[k]) : live[m][p] = live[k][p]
             Bad == {m \in k..n : ~Extends(m)}
  <1>1. \A m \in 0..n : live[m] \in Seq(Name) /\ Len(live[m]) \in Nat
    BY DEF IsLive
  <1>2. Bad \subseteq Nat
    OBVIOUS
  <1> HIDE DEF Extends
  <1>3. SUFFICES ASSUME ~Extends(l)
                 PROVE  FALSE
    BY <1>1 DEF Extends
  <1>8. l \in Bad
    BY <1>3
  <1> HIDE DEF Bad
  <1>4. PICK m \in Bad : \A y \in Bad : m <= y
    BY <1>2, <1>8, Least
  <1>5. m \in k..n /\ ~Extends(m) /\ m \in 0..n
    BY <1>4 DEF Bad
  <1>6. CASE m = k
    BY <1>1, <1>5, <1>6 DEF Extends
  <1>7. CASE m # k
    <2>1. m - 1 \in k..n /\ m \in 1..n /\ m - 1 \in 0..n /\ ~(m <= m - 1)
      BY <1>5, <1>7
    <2>2. Extends(m - 1)
      BY <1>4, <2>1 DEF Bad
    <2>3. /\ live[m-1] \in Seq(Name) /\ dec[m] \in Seq(Name) /\ live[m] = live[m-1] \o dec[m]
          /\ Len(live[m-1]) \in Nat /\ Len(live[k]) \in Nat
      BY <1>1, <2>1 DEF IsLive, DecTyped
    <2>4. /\ Len(live[m-1]) <= Len(live[m])
          /\ \A p \in 1..Len(live[m-1]) : live[m][p] = live[m-1][p]
      <3>1. PICK s \in Seq(Name) : s = live[m-1]
        BY <2>3
      <3>2. PICK t \in Seq(Name) : t = dec[m]
        BY <2>3
      <3>3. Len(s) <= Len(s \o t) /\ \A p \in 1..Len(s) : (s \o t)[p] = s[p]
        BY ONLY s \in Seq(Name), t \in Seq(Name), ConcatProperties
      <3>4. live[m] = s \o t
        BY <2>3, <3>1, <3>2, Zenon
      <3> QED
        BY <3>1, <3>3, <3>4
    <2>5. Len(live[k]) <= Len(live[m-1]) /\ \A p \in 1..Len(live[k]) : live[m-1][p] = live[k][p]
      BY <2>2 DEF Extends
    <2>6. Len(live[m]) \in Nat
      BY <1>1, <1>5
    <2>10. Len(live[m-1]) \in Nat /\ Len(live[k]) \in Nat
      BY <2>3
    <2>7. \A p \in 1..Len(live[k]) : p \in 1..Len(live[m-1])
      BY <2>5, <2>10
    <2>8. Len(live[k]) <= Len(live[m])
      BY <2>4, <2>5, <2>6, <2>10
    <2>9. Extends(m)
      BY <2>4, <2>5, <2>7, <2>8 DEF Extends
    <2> QED
      BY <1>5, <2>9
  <1> QED
    BY <1>6, <1>7

\* The innermost scope that has x is the one find_symbol stops at.
LEMMA FindsInnermost ==
  ASSUME scope_stk \in Seq(ScopeType), NEW x \in Name, NEW j \in 1..Len(scope_stk),
         \A l \in j+1..Len(scope_stk) : scope_stk[l].symbols[x] = NoSymbol,
         scope_stk[j].symbols[x] # NoSymbol
  PROVE  find_symbol(x) = scope_stk[j].symbols[x]
  <1> DEFINE having == {k \in DOMAIN scope_stk : scope_stk[k].symbols[x] # NoSymbol}
  <1>1. Len(scope_stk) \in Nat /\ DOMAIN scope_stk = 1..Len(scope_stk)
    OBVIOUS
  <1>2. find_symbol(x) = IF having = {} THEN NoSymbol ELSE scope_stk[Max(having)].symbols[x]
    BY DEF find_symbol
  <1>3. j \in having /\ having \subseteq Int
    BY <1>1
  <1>4. ASSUME NEW k \in having
        PROVE  j >= k
    <2>1. k \in 1..Len(scope_stk) /\ scope_stk[k].symbols[x] # NoSymbol
      BY <1>1
    <2>2. k \notin j+1..Len(scope_stk)
      BY <2>1
    <2> QED
      BY <1>1, <2>1, <2>2
  <1> HIDE DEF having
  <1>5. Max(having) = j
    BY <1>3, <1>4, MaxIs
  <1> QED
    BY <1>2, <1>3, <1>5

LEMMA FindsNothing ==
  ASSUME scope_stk \in Seq(ScopeType), NEW x \in Name,
         \A l \in 1..Len(scope_stk) : scope_stk[l].symbols[x] = NoSymbol
  PROVE  find_symbol(x) = NoSymbol
  BY DEF find_symbol

\* What find_symbol has to return for x when the locals s are in scope.
Finds(s, globals, x) ==
  \/ /\ NeverFrom(s, 0, x)
     /\ find_symbol(x) = IF x \in globals THEN GlobalSymbol ELSE NoSymbol
  \/ \E p \in Nat : LastFrom(s, 0, x, p) /\ find_symbol(x) = LocalAt(p)

(***************************************************************************)
(* The search finds the last of the live declarations of a name, or else   *)
(* the global.                                                             *)
(***************************************************************************)
LEMMA Lookup ==
  ASSUME NEW n \in Nat, NEW dec, DecTyped(dec, n),
         NEW opened, opened \subseteq 1..n, DecsIn(dec, n, opened),
         scope_stk \in Seq(ScopeType), NEW off, NEW globals, NEW live, NEW e,
         Holds(n, dec, opened, scope_stk, off, globals, live, e), NEW x \in Name
  PROVE  Finds(live[n], globals, x)
  <1> SUFFICES \/ /\ NeverFrom(live[n], 0, x)
                  /\ find_symbol(x) = IF x \in globals THEN GlobalSymbol ELSE NoSymbol
               \/ \E p \in Nat : LastFrom(live[n], 0, x, p) /\ find_symbol(x) = LocalAt(p)
    BY DEF Finds
  <1> DEFINE L == Len(scope_stk)
             sym(j) == scope_stk[j].symbols[x]
  <1>0. /\ IsLive(live, n, dec) /\ Opens(e, Len(scope_stk), opened)
        /\ \A j \in 2..L : Describes(scope_stk[j], Len(live[e[j]-1]), live[e[j]])
        /\ \A y \in Name :
             scope_stk[1].symbols[y] = IF y \in globals THEN GlobalSymbol ELSE NoSymbol
        /\ \A k \in 1..n : k \notin opened => dec[k] = <<>>
    BY DEF Holds, DecsIn
  <1>1. /\ L \in Nat /\ L > 0 /\ e[1] = 0
        /\ \A j \in 2..L : e[j] \in opened
        /\ \A j, l \in 1..L : j < l => e[j] < e[l]
        /\ \A k \in opened : \E j \in 2..L : e[j] = k
    BY <1>0 DEF Opens
  <1>2. ASSUME NEW j \in 2..L
        PROVE  e[j] \in 1..n /\ e[j] \in 0..n /\ e[j] - 1 \in 0..n
    <2>1. PICK k \in 1..n : k = e[j]
      BY <1>1
    <2> QED
      BY <2>1
  <1>3. \A m \in 0..n : live[m] \in Seq(Name) /\ Len(live[m]) \in Nat
    BY <1>0 DEF IsLive
  <1>4. GlobalSymbol # NoSymbol /\ \A p : LocalAt(p) # NoSymbol
    BY DEF GlobalSymbol, LocalAt, NoSymbol
  <1>5. \A k, l \in 0..n : k <= l =>
          Len(live[k]) <= Len(live[l]) /\ \A p \in 1..Len(live[k]) : live[l][p] = live[k][p]
    <2> SUFFICES ASSUME NEW k \in 0..n, NEW l \in 0..n, k <= l
                 PROVE  /\ Len(live[k]) <= Len(live[l])
                        /\ \A p \in 1..Len(live[k]) : live[l][p] = live[k][p]
      OBVIOUS
    <2> QED
      BY <1>0, LiveGrows
  <1>6. n \in 0..n /\ Len(live[n]) \in Nat
    BY <1>3
  <1>7. CASE NeverFrom(live[n], 0, x)
    <2>1. ASSUME NEW j \in 2..L
          PROVE  sym(j) = NoSymbol
      <3>1. Describes(scope_stk[j], Len(live[e[j]-1]), live[e[j]])
        BY <1>0
      <3>2. ASSUME NEW p \in Nat, LastFrom(live[e[j]], Len(live[e[j]-1]), x, p)
            PROVE  FALSE
        <4>1. p \in Len(live[e[j]-1])+1..Len(live[e[j]]) /\ live[e[j]][p] = x
          BY <3>2 DEF LastFrom
        <4>2. p \in 1..Len(live[e[j]]) /\ Len(live[e[j]]) \in Nat
          BY <1>2, <1>3, <4>1
        <4>3. Len(live[e[j]]) <= Len(live[n]) /\ live[n][p] = x
          <5>1. e[j] \in 0..n /\ e[j] <= n
            BY <1>2
          <5>2. Len(live[e[j]]) <= Len(live[n]) /\ live[n][p] = live[e[j]][p]
            BY <1>5, <1>6, <4>2, <5>1
          <5> QED
            BY <4>1, <5>2
        <4>4. p \in 0+1..Len(live[n])
          BY <1>6, <4>2, <4>3
        <4> QED
          BY <1>7, <4>3, <4>4 DEF NeverFrom
      <3> QED
        BY <3>1, <3>2 DEF Describes
    <2>2. sym(1) = IF x \in globals THEN GlobalSymbol ELSE NoSymbol
      BY <1>0
    <2>3. CASE x \in globals
      <3>1. 1 \in 1..L /\ \A l \in 1+1..L : l \in 2..L
        BY <1>1
      <3>2. find_symbol(x) = sym(1)
        BY <1>4, <2>1, <2>2, <2>3, <3>1, FindsInnermost
      <3> QED
        BY <1>7, <2>2, <3>2
    <2>4. CASE x \notin globals
      <3>1. ASSUME NEW l \in 1..L
            PROVE  sym(l) = NoSymbol
        <4>1. l = 1 \/ l \in 2..L
          OBVIOUS
        <4> QED
          BY <2>1, <2>2, <2>4, <4>1
      <3>2. find_symbol(x) = NoSymbol
        BY <3>1, FindsNothing
      <3> QED
        BY <1>7, <2>4, <3>2
    <2> QED
      BY <2>3, <2>4
  <1>8. CASE ~NeverFrom(live[n], 0, x)
    <2> DEFINE At == {p \in 1..Len(live[n]) : live[n][p] = x}
    <2>1. At \subseteq 0..Len(live[n]) /\ At # {}
      BY <1>6, <1>8 DEF NeverFrom
    <2> HIDE DEF At
    <2>2. PICK p \in At : \A q \in At : p >= q
      BY <1>6, <2>1, Greatest
    <2>3. p \in 1..Len(live[n]) /\ live[n][p] = x
      BY <2>2 DEF At
    <2>4. ASSUME NEW q \in p+1..Len(live[n])
          PROVE  live[n][q] # x
      <3>1. q \in 1..Len(live[n]) /\ ~(p >= q)
        BY <1>6, <2>3
      <3> QED
        BY <2>2, <3>1 DEF At
    <2>5. LastFrom(live[n], 0, x, p) /\ p \in Nat
      BY <1>6, <2>3, <2>4 DEF LastFrom
    <2> DEFINE Past == {k \in 0..n : p <= Len(live[k])}
    <2>6. n \in Past /\ Past \subseteq Nat
      BY <1>6, <2>3
    <2> HIDE DEF Past
    <2>7. PICK k \in Past : \A m \in Past : k <= m
      BY <2>6, Least
    <2>8. k \in 0..n /\ p <= Len(live[k])
      BY <2>7 DEF Past
    <2>9. k # 0
      <3>1. Len(live[0]) = 0
        BY <1>0 DEF IsLive
      <3> QED
        BY <2>3, <2>8, <3>1
    <2>10. /\ k \in 1..n /\ k - 1 \in 0..n /\ ~(k <= k - 1) /\ k <= n
           /\ Len(live[k]) \in Nat /\ Len(live[k-1]) \in Nat
      <3>1. k \in 1..n /\ k - 1 \in 0..n /\ ~(k <= k - 1) /\ k <= n
        BY <2>8, <2>9
      <3> QED
        BY <1>3, <2>8, <3>1
    <2>11. Len(live[k-1]) < p
      <3>1. k - 1 \notin Past
        BY <2>7, <2>10
      <3> QED
        BY <2>3, <2>10, <3>1 DEF Past
    <2>12. k \in opened
      <3>1. SUFFICES ASSUME k \notin opened
                     PROVE  FALSE
        OBVIOUS
      <3>2. live[k] = live[k-1] \o <<>> /\ live[k-1] \in Seq(Name)
        BY <1>0, <1>3, <2>10, <3>1 DEF IsLive
      <3>3. live[k] = live[k-1]
        BY <3>2, ConcatNothing, Zenon
      <3> QED
        BY <2>3, <2>8, <2>10, <2>11, <3>3
    <2>13. PICK j \in 2..L : e[j] = k
      BY <1>1, <2>12
    <2>14. \A q \in 1..Len(live[k]) : live[n][q] = live[k][q] /\ q \in 1..Len(live[n])
      <3>1. Len(live[k]) <= Len(live[n]) /\ \A q \in 1..Len(live[k]) : live[n][q] = live[k][q]
        BY <1>5, <1>6, <2>8, <2>10
      <3> QED
        BY <1>6, <2>10, <3>1
    <2>15. LastFrom(live[k], Len(live[k-1]), x, p)
      <3>1. p \in Len(live[k-1])+1..Len(live[k]) /\ p \in 1..Len(live[k])
        BY <2>3, <2>8, <2>10, <2>11
      <3>2. ASSUME NEW q \in p+1..Len(live[k])
            PROVE  live[k][q] # x
        <4>1. q \in 1..Len(live[k])
          BY <2>3, <2>10
        <4>2. q \in p+1..Len(live[n]) /\ live[n][q] = live[k][q]
          BY <1>6, <2>3, <2>10, <2>14, <4>1
        <4> QED
          BY <2>4, <4>2
      <3> QED
        BY <2>3, <2>14, <3>1, <3>2 DEF LastFrom
    <2>16. sym(j) = LocalAt(p)
      <3>1. Describes(scope_stk[j], Len(live[k-1]), live[k])
        <4>1. Describes(scope_stk[j], Len(live[e[j]-1]), live[e[j]])
          BY <1>0
        <4> QED
          BY <2>13, <4>1, Zenon
      <3>2. PICK q \in Nat : LastFrom(live[k], Len(live[k-1]), x, q) /\ sym(j) = LocalAt(q)
        BY <2>15, <3>1 DEF Describes, NeverFrom, LastFrom
      <3>3. q = p
        <4>1. /\ q \in Len(live[k-1])+1..Len(live[k]) /\ p \in Len(live[k-1])+1..Len(live[k])
              /\ live[k][q] = x /\ live[k][p] = x
              /\ q \notin p+1..Len(live[k]) /\ p \notin q+1..Len(live[k])
          BY <2>15, <3>2 DEF LastFrom
        <4> QED
          BY <2>10, <4>1
      <3> QED
        BY <3>2, <3>3
    <2>17. ASSUME NEW l \in j+1..L
           PROVE  sym(l) = NoSymbol
      <3>1. l \in 2..L /\ j \in 1..L /\ l \in 1..L /\ j < l
        BY <1>1
      <3>2. k < e[l] /\ e[l] \in 1..n /\ e[l] - 1 \in 0..n
        BY <1>1, <1>2, <2>13, <3>1
      <3>3. k <= e[l] - 1 /\ e[l] \in 0..n /\ e[l] <= n
        BY <2>8, <3>2
      <3>4. Len(live[k]) <= Len(live[e[l]-1])
        BY <1>5, <2>8, <3>2, <3>3
      <3>5. ASSUME NEW q \in Nat, LastFrom(live[e[l]], Len(live[e[l]-1]), x, q)
            PROVE  FALSE
        <4>1. /\ q \in Len(live[e[l]-1])+1..Len(live[e[l]]) /\ live[e[l]][q] = x
              /\ Len(live[e[l]-1]) \in Nat /\ Len(live[e[l]]) \in Nat
          BY <1>3, <3>2, <3>3, <3>5 DEF LastFrom
        <4>2. q \in 1..Len(live[e[l]]) /\ q > p
          BY <2>3, <2>8, <2>10, <3>4, <4>1
        <4>3. Len(live[e[l]]) <= Len(live[n]) /\ live[n][q] = live[e[l]][q]
          BY <1>5, <1>6, <3>3, <4>2
        <4>4. q \in p+1..Len(live[n])
          BY <1>6, <2>3, <4>1, <4>2, <4>3
        <4> QED
          BY <2>4, <4>1, <4>3, <4>4
      <3>6. Describes(scope_stk[l], Len(live[e[l]-1]), live[e[l]])
        BY <1>0, <3>1
      <3> QED
        BY <3>5, <3>6 DEF Describes
    <2>18. find_symbol(x) = LocalAt(p)
      <3>1. j \in 1..L
        BY <1>1
      <3>2. find_symbol(x) = sym(j)
        BY <1>4, <2>16, <2>17, <3>1, FindsInnermost
      <3> QED
        BY <2>16, <3>2
    <2> QED
      BY <2>5, <2>18
  <1> QED
    BY <1>7, <1>8

-----------------------------------------------------------------------------
(* What the frames declare *)

\* The parameters a function has stored.
Params(fr) ==
  [k \in 1..IF fr.node.type = "AST_FUNC_DECL" THEN Stored(fr) ELSE 0 |->
     fr.node.func_t.params[k].ident.name]

\* What a frame has declared when it is past a of its node's sub-nodes.
Own(fr, a) ==
  IF fr.node.type \in {"AST_FUNC_DECL", "AST_BLOCK"} THEN Params(fr) \o LetsOf(fr.node)[a]
  ELSE <<>>

Undefined(fs, k) == k < Len(fs) /\ fs[k+1].node.type = "AST_VAR_DECL" /\ fs[k+1].at = 0

Reached(fs, k) == IF Undefined(fs, k) THEN fs[k].at - 1 ELSE fs[k].at

\* DeclaredBy, of any frames fs, and nothing beyond them.
Decs(fs) == [k \in Nat |-> IF k \in 1..Len(fs) THEN Own(fs[k], Reached(fs, k)) ELSE <<>>]

LEMMA NoneAbove ==
  ASSUME NEW fs, NEW n \in Nat, Len(fs) = n
  PROVE  ~Undefined(fs, n)
  BY DEF Undefined

LEMMA DecsAt ==
  ASSUME NEW fs, Len(fs) \in Nat, NEW k \in 1..Len(fs)
  PROVE  Decs(fs)[k] = Own(fs[k], Reached(fs, k))
  <1>1. k \in Nat
    OBVIOUS
  <1> QED
    BY <1>1 DEF Decs

\* F says how the k-th of n values is made from the one before it.
Builds(S, b, n, F) == b \in S /\ n \in Nat /\ F \in [1..n -> [S -> S]]

LEMMA Built ==
  ASSUME NEW S, NEW b, NEW n, NEW F, Builds(S, b, n, F)
  PROVE  \E f \in [0..n -> S] : f[0] = b /\ \A k \in 1..n : f[k] = F[k][f[k-1]]
  BY Recursion DEF Builds

LEMMA LetName ==
  ASSUME NEW n \in Node, NEW k \in 1..Len(Subs(n)), Subs(n)[k].type = "AST_VAR_DECL"
  PROVE  Subs(n)[k].ident.name \in Name
  <1>1. Subs(n)[k] \in Node
    BY SubsTyped
  <1> QED
    BY <1>1, ProgramsAssumption DEF WellFormed, Idents

LEMMA LetsBuilt ==
  ASSUME NEW n \in Node
  PROVE  /\ LetsOf(n)[0] = <<>>
         /\ \A k \in 0..Len(Subs(n)) : LetsOf(n)[k] \in Seq(Name)
         /\ \A k \in 1..Len(Subs(n)) :
              LetsOf(n)[k] = IF Subs(n)[k].type = "AST_VAR_DECL"
                             THEN Append(LetsOf(n)[k-1], Subs(n)[k].ident.name)
                             ELSE LetsOf(n)[k-1]
  <1> DEFINE L == Len(Subs(n))
             S == Seq(Name)
             none == <<>>
             IsLet(k) == Subs(n)[k].type = "AST_VAR_DECL"
             x(k) == Subs(n)[k].ident.name
             F == [k \in 1..L |-> [s \in S |-> IF IsLet(k) THEN Append(s, x(k)) ELSE s]]
             Unfolds(f) == f = [k \in 0..L |-> IF k = 0 THEN none
                                               ELSE IF IsLet(k) THEN Append(f[k-1], x(k))
                                               ELSE f[k-1]]
  <1>1. L \in Nat
    BY SubsTyped
  <1>2. \A k \in 1..L : IsLet(k) => x(k) \in Name
    BY LetName
  <1> HIDE DEF IsLet, x
  <1>13. none \in S /\ \A s \in S : \A k \in 1..L : IsLet(k) => Append(s, x(k)) \in S
    BY <1>2
  <1> HIDE DEF L, S, none
  <1>3. F \in [1..L -> [S -> S]]
    BY <1>13
  <1>4. \A k \in 1..L : \A s \in S : F[k][s] = IF IsLet(k) THEN Append(s, x(k)) ELSE s
    OBVIOUS
  <1> HIDE DEF F
  <1>6. PICK f \in [0..L -> S] : f[0] = none /\ \A k \in 1..L : f[k] = F[k][f[k-1]]
    <2>1. none \in S
      BY <1>13
    <2> QED
      <3>1. Builds(S, none, L, F)
        BY <1>1, <1>3, <2>1 DEF Builds
      <3> QED
        BY <3>1, Built
  <1>7. ASSUME NEW k \in 1..L
        PROVE  f[k] = IF IsLet(k) THEN Append(f[k-1], x(k)) ELSE f[k-1]
    <2>1. k - 1 \in 0..L
      BY <1>1
    <2>2. f[k-1] \in S
      BY <1>6, <2>1
    <2> QED
      BY <1>4, <1>6, <2>2
  <1>8. Unfolds(f)
    <2> DEFINE g == [k \in 0..L |-> IF k = 0 THEN none
                                    ELSE IF IsLet(k) THEN Append(f[k-1], x(k)) ELSE f[k-1]]
    <2>1. ASSUME NEW k \in 0..L
          PROVE  f[k] = g[k]
      <3>1. CASE k = 0
        BY <1>6, <3>1
      <3>2. CASE k # 0
        <4>1. k \in 1..L
          BY <1>1, <3>2
        <4> QED
          BY <1>7, <3>2, <4>1
      <3> QED
        BY <3>1, <3>2
    <2>2. f = [k \in 0..L |-> f[k]]
      OBVIOUS
    <2> QED
      BY <2>1, <2>2
  <1>9. LetsOf(n) = CHOOSE h : Unfolds(h)
    BY DEF LetsOf, L, IsLet, x, none
  <1>10. Unfolds(LetsOf(n))
    <2> HIDE DEF Unfolds
    <2> QED
      BY <1>8, <1>9
  <1> DEFINE ls == LetsOf(n)
  <1>11. /\ ls[0] = none
         /\ \A k \in 1..L : ls[k] = IF IsLet(k) THEN Append(ls[k-1], x(k)) ELSE ls[k-1]
    <2> HIDE DEF ls
    <2>1. Unfolds(ls)
      BY <1>10 DEF ls
    <2>2. 0 \in 0..L /\ \A k \in 1..L : k \in 0..L /\ k # 0
      BY <1>1
    <2> QED
      BY <2>1, <2>2
  <1> HIDE DEF ls
  <1>12. \A k \in 0..L : ls[k] \in S
    <2> DEFINE Bad == {k \in 0..L : ls[k] \notin S}
    <2> SUFFICES ASSUME Bad # {}
                 PROVE  FALSE
      OBVIOUS
    <2>1. Bad \subseteq Nat
      BY <1>1
    <2> HIDE DEF Bad
    <2>2. PICK k \in Bad : \A m \in Bad : k <= m
      <3>1. PICK m \in Bad : TRUE
        OBVIOUS
      <3> QED
        BY <2>1, <3>1, Least
    <2>3. k \in 0..L /\ ls[k] \notin S
      BY <2>2 DEF Bad
    <2>4. k # 0
      BY <1>11, <1>13, <2>3
    <2>5. k \in 1..L /\ k - 1 \in 0..L /\ ~(k <= k - 1)
      BY <1>1, <2>3, <2>4
    <2>6. ls[k-1] \in S
      BY <2>2, <2>5 DEF Bad
    <2> QED
      BY <1>11, <1>13, <2>3, <2>5, <2>6
  <1> QED
    BY <1>11, <1>12 DEF L, IsLet, x, ls, S, none

LEMMA ParamsTyped ==
  ASSUME NEW fr \in frame_t, Within(fr)
  PROVE  Params(fr) \in Seq(Name)
  <1>0. fr.node \in Node /\ WellFormed(fr.node)
    BY ProgramsAssumption DEF frame_t
  <1> DEFINE m == IF fr.node.type = "AST_FUNC_DECL" THEN Stored(fr) ELSE 0
  <1>1. m \in Nat /\ (fr.node.type = "AST_FUNC_DECL" => m <= Len(fr.node.func_t.params))
    <2>1. fr.node.type = "AST_FUNC_DECL" => Len(fr.node.func_t.params) \in Nat
      BY <1>0 DEF WellFormed
    <2> QED
      BY <2>1 DEF Within, Stored
  <1>2. ASSUME NEW k \in 1..m
        PROVE  fr.node.func_t.params[k].ident.name \in Name
    <2>1. fr.node.type = "AST_FUNC_DECL" /\ k \in 1..Len(fr.node.func_t.params)
      <3>1. fr.node.type = "AST_FUNC_DECL"
        BY <1>2
      <3>2. Len(fr.node.func_t.params) \in Nat
        BY <1>0, <3>1 DEF WellFormed
      <3> HIDE DEF m
      <3> QED
        BY <1>1, <3>1, <3>2
    <2> QED
      BY <1>0, <2>1 DEF WellFormed, Idents
  <1>3. Params(fr) = [k \in 1..m |-> fr.node.func_t.params[k].ident.name]
    BY DEF Params
  <1> HIDE DEF m
  <1> QED
    BY <1>1, <1>2, <1>3

LEMMA OwnTyped ==
  ASSUME NEW fr \in frame_t, Within(fr), NEW a \in 0..Len(Subs(fr.node))
  PROVE  Own(fr, a) \in Seq(Name)
  <1>1. fr.node \in Node /\ WellFormed(fr.node)
    BY ProgramsAssumption DEF frame_t
  <1>2. LetsOf(fr.node)[a] \in Seq(Name)
    BY <1>1, LetsBuilt
  <1>3. Params(fr) \in Seq(Name)
    BY ParamsTyped
  <1> QED
    BY <1>2, <1>3 DEF Own

\* A frame just entered has declared nothing, and no more has a block.
LEMMA OwnBegin ==
  ASSUME NEW fr, fr.node \in Node, fr.loc = Fresh \/ fr.node.type # "AST_FUNC_DECL"
  PROVE  Own(fr, 0) = <<>>
  <1>1. Params(fr) = <<>>
    BY DEF Params, Stored
  <1>2. LetsOf(fr.node)[0] = <<>>
    BY LetsBuilt
  <1>3. <<>> \o <<>> = <<>>
    OBVIOUS
  <1> QED
    BY <1>1, <1>2, <1>3, Zenon DEF Own

LEMMA OwnElse ==
  ASSUME NEW fr, Unscoped(fr.node.type), NEW a
  PROVE  Own(fr, a) = <<>>
  BY DEF Own, Unscoped

LEMMA OwnOf ==
  ASSUME NEW fr, NEW gr, gr.node = fr.node,
         fr.node.type = "AST_FUNC_DECL" => Stored(gr) = Stored(fr), NEW a
  PROVE  Own(gr, a) = Own(fr, a)
  BY DEF Own, Params

LEMMA ConcatAppend ==
  ASSUME NEW S, NEW s \in Seq(S), NEW t \in Seq(S), NEW x \in S
  PROVE  s \o Append(t, x) = Append(s \o t, x)
  OBVIOUS

LEMMA OwnStep ==
  ASSUME NEW fr \in frame_t, Within(fr), NEW a \in 1..Len(Subs(fr.node))
  PROVE  /\ Subs(fr.node)[a].type # "AST_VAR_DECL" => Own(fr, a) = Own(fr, a - 1)
         /\ Subs(fr.node)[a].type = "AST_VAR_DECL" /\ ~Unscoped(fr.node.type) =>
              Own(fr, a) = Append(Own(fr, a - 1), Subs(fr.node)[a].ident.name)
  <1>1. fr.node \in Node
    BY DEF frame_t
  <1>2. a \in 0..Len(Subs(fr.node)) /\ a - 1 \in 0..Len(Subs(fr.node))
    BY <1>1, SubsTyped
  <1>3. LetsOf(fr.node)[a] = IF Subs(fr.node)[a].type = "AST_VAR_DECL"
                             THEN Append(LetsOf(fr.node)[a-1], Subs(fr.node)[a].ident.name)
                             ELSE LetsOf(fr.node)[a-1]
    BY <1>1, LetsBuilt
  <1>4. CASE Subs(fr.node)[a].type # "AST_VAR_DECL"
    BY <1>3, <1>4 DEF Own
  <1>5. CASE Subs(fr.node)[a].type = "AST_VAR_DECL" /\ ~Unscoped(fr.node.type)
    <2>2. LetsOf(fr.node)[a-1] \in Seq(Name) /\ Subs(fr.node)[a].ident.name \in Name
      BY <1>1, <1>2, <1>5, LetsBuilt, LetName
    <2>3. Params(fr) \in Seq(Name)
      BY ParamsTyped
    <2> QED
      BY <1>3, <1>5, <2>2, <2>3, ConcatAppend DEF Own, Unscoped
  <1> QED
    BY <1>4, <1>5

\* A block declares nothing before its scope is pushed, and a function runs
\* no statement before its parameters are stored.
Ordered(fr) ==
  /\ fr.node.type = "AST_BLOCK" /\ fr.loc = Fresh => fr.at = 0
  /\ fr.node.type = "AST_FUNC_DECL" /\ fr.loc # Len(fr.node.func_t.params) => fr.at = 0

\* Every frame but the oldest was called for the sub-node its caller is at.
Path(fs) ==
  /\ \A k \in 1..Len(fs) : Ordered(fs[k])
  /\ \A k \in 1..Len(fs) - 1 : /\ fs[k].at \in 1..Len(Subs(fs[k].node))
                               /\ fs[k+1].node = Subs(fs[k].node)[fs[k].at]

\* The frame of a let that has not yet defined its local.
Pending(fr) == fr.node.type = "AST_VAR_DECL" /\ fr.at = 0

LEMMA DecsTyped ==
  ASSUME NEW fs \in Seq(frame_t), Path(fs), \A k \in 1..Len(fs) : Within(fs[k])
  PROVE  DecTyped(Decs(fs), Len(fs))
  <1> SUFFICES ASSUME NEW k \in 1..Len(fs)
               PROVE  Decs(fs)[k] \in Seq(Name)
    BY DEF DecTyped
  <1>1. PICK fr \in frame_t : fr = fs[k]
    OBVIOUS
  <1>2. Within(fr) /\ fr.node \in Node /\ fr.at \in Nat /\ k \in Nat /\ Len(fs) \in Nat
    BY <1>1 DEF frame_t
  <1> DEFINE a == Reached(fs, k)
  <1>3. Decs(fs)[k] = Own(fr, a)
    BY <1>1, <1>2, DecsAt
  <1>6. \A c : Unscoped(fr.node.type) => Own(fr, c) = <<>>
    BY OwnElse
  <1>4. CASE Unscoped(fr.node.type)
    <2>1. <<>> \in Seq(Name)
      OBVIOUS
    <2> QED
      BY <1>3, <1>4, <1>6, <2>1, Zenon
  <1>5. CASE ~Unscoped(fr.node.type)
    <2>1. fr.at \in 0..Len(Subs(fr.node))
      BY <1>2, <1>5, SubsTyped DEF Within, Unscoped
    <2>2. Undefined(fs, k) => fr.at \in 1..Len(Subs(fr.node))
      <3>1. Undefined(fs, k) => k \in 1..Len(fs) - 1
        BY <1>2 DEF Undefined
      <3> QED
        BY <1>1, <3>1 DEF Path
    <2>3. a \in 0..Len(Subs(fr.node))
      BY <1>1, <1>2, <2>1, <2>2 DEF Reached
    <2> HIDE DEF a
    <2> QED
      BY <1>2, <1>3, <2>3, OwnTyped
  <1> QED
    BY <1>4, <1>5

\* Only functions and blocks declare, and only in a scope of their own.
LEMMA DecsOpened ==
  ASSUME NEW fs \in Seq(frame_t), Path(fs), NEW k \in 1..Len(fs), k \notin Opened(fs),
         Len(fs) > 1 => fs[1].loc # Fresh,
         \A l \in 1..Len(fs) : fs[l].node.type = "AST_FUNC_DECL" <=> l = 1
  PROVE  Decs(fs)[k] = <<>>
  <1>1. PICK fr \in frame_t : fr = fs[k]
    OBVIOUS
  <1>2. fr.node \in Node /\ fr.at \in Nat /\ k \in Nat /\ Len(fs) \in Nat /\ Ordered(fr)
    BY <1>1 DEF frame_t, Path
  <1> DEFINE a == Reached(fs, k)
  <1>3. Decs(fs)[k] = Own(fr, a)
    BY <1>1, <1>2, DecsAt
  <1>4. CASE Unscoped(fr.node.type)
    BY <1>3, <1>4, OwnElse
  <1>5. CASE ~Unscoped(fr.node.type)
    <2>1. fr.loc = Fresh
      BY <1>1, <1>5 DEF Opened, Entered, Unscoped
    <2>2. fr.at = 0
      <3>1. CASE fr.node.type = "AST_BLOCK"
        BY <1>2, <2>1, <3>1 DEF Ordered
      <3>2. CASE fr.node.type = "AST_FUNC_DECL"
        <4>1. WellFormed(fr.node)
          BY <1>2, ProgramsAssumption
        <4>2. Len(fr.node.func_t.params) # Fresh
          BY <3>2, <4>1 DEF WellFormed, Fresh
        <4> QED
          BY <1>2, <2>1, <3>2, <4>2 DEF Ordered
      <3> QED
        BY <1>5, <3>1, <3>2 DEF Unscoped
    <2>3. ~Undefined(fs, k)
      <3>1. Undefined(fs, k) => k \in 1..Len(fs) - 1
        BY <1>2 DEF Undefined
      <3>2. k \in 1..Len(fs) - 1 => fr.at # 0
        BY <1>1 DEF Path
      <3> QED
        BY <2>2, <3>1, <3>2
    <2>4. a = 0
      BY <1>1, <2>2, <2>3 DEF Reached
    <2> QED
      BY <1>2, <1>3, <2>1, <2>4, OwnBegin
  <1> QED
    BY <1>4, <1>5

-----------------------------------------------------------------------------
(* How the steps change it *)

LEMMA ReturnDecs ==
  ASSUME FramesInv, Path(frames), frames # <<>>, Return
  PROVE  /\ Path(frames')
         /\ Opened(frames') = Opened(frames) \ {Len(frames)}
         /\ \A k \in 1..Len(frames) - 2 : Decs(frames')[k] = Decs(frames)[k]
         /\ ~Pending(Top) => \A k \in 1..Len(frames) - 1 : Decs(frames')[k] = Decs(frames)[k]
  <1> DEFINE n == Len(frames)
  <1>1. frames \in Seq(frame_t) /\ n \in Nat /\ n > 0 /\ Top = frames[n]
    BY TopTyped DEF FramesInv
  <1>2. Len(frames') = n - 1 /\ \A k \in 1..n - 1 : frames'[k] = frames[k]
    BY <1>1, RemoveLast DEF Return
  <1>3. Path(frames')
    <2>1. \A k \in 1..n - 1 : Ordered(frames'[k])
      BY <1>1, <1>2 DEF Path
    <2>2. ASSUME NEW k \in 1..(n - 1) - 1
          PROVE  /\ frames'[k].at \in 1..Len(Subs(frames'[k].node))
                 /\ frames'[k+1].node = Subs(frames'[k].node)[frames'[k].at]
      <3>1. k \in 1..n - 1 /\ k + 1 \in 1..n - 1
        BY <1>1
      <3> QED
        BY <1>2, <3>1 DEF Path
    <2> QED
      BY <1>2, <2>1, <2>2 DEF Path
  <1>4. Opened(frames') = Opened(frames) \ {n}
    BY <1>1, <1>2 DEF Opened
  <1>5. ASSUME NEW k \in 1..n - 1, Undefined(frames', k) <=> Undefined(frames, k)
        PROVE  Decs(frames')[k] = Decs(frames)[k]
    <2>1. k \in 1..Len(frames) /\ k \in 1..Len(frames') /\ Len(frames') \in Nat
      BY <1>1, <1>2
    <2>2. frames'[k] = frames[k] /\ Reached(frames', k) = Reached(frames, k)
      BY <1>2, <1>5 DEF Reached
    <2>3. /\ Decs(frames')[k] = Own(frames'[k], Reached(frames', k))
          /\ Decs(frames)[k] = Own(frames[k], Reached(frames, k))
      BY <1>1, <2>1, DecsAt
    <2> QED
      BY <2>2, <2>3, Zenon
  <1>6. ASSUME NEW k \in 1..n - 2
        PROVE  Undefined(frames', k) <=> Undefined(frames, k)
    <2>1. k < n /\ k < n - 1 /\ k + 1 \in 1..n - 1
      BY <1>1
    <2> QED
      BY <1>2, <2>1 DEF Undefined
  <1>7. ASSUME ~Pending(Top), NEW k \in 1..n - 1
        PROVE  Undefined(frames', k) <=> Undefined(frames, k)
    <2>1. CASE k = n - 1
      <3>1. k + 1 = n /\ ~(k < n - 1)
        BY <1>1, <2>1
      <3> QED
        BY <1>1, <1>2, <1>7, <3>1 DEF Undefined, Pending
    <2>2. CASE k # n - 1
      <3>1. k \in 1..n - 2
        BY <1>1, <2>2
      <3> QED
        BY <1>6, <3>1
    <2> QED
      BY <2>1, <2>2
  <1>8. ASSUME NEW k \in 1..n - 2
        PROVE  k \in 1..n - 1
    BY <1>1
  <1> QED
    BY <1>3, <1>4, <1>5, <1>6, <1>7, <1>8

\* A step of a frame that keeps its node.
LEMMA UpdateDecs ==
  ASSUME FramesInv, Path(frames), frames # <<>>,
         NEW t \in frame_t, t.node = Top.node, Ordered(t),
         frames' = [frames EXCEPT ![Len(frames)] = t]
  PROVE  /\ Path(frames') /\ Len(frames') = Len(frames)
         /\ Opened(frames') = (Opened(frames) \ {Len(frames)})
                              \cup {k \in {Len(frames)} : Entered(t)}
         /\ Len(frames) \in Opened(frames) <=> Entered(Top)
         /\ Pending(t) <=> Pending(Top) =>
              \A k \in 1..Len(frames) - 1 : Decs(frames')[k] = Decs(frames)[k]
         /\ Decs(frames')[Len(frames)] = Own(t, t.at)
         /\ Decs(frames)[Len(frames)] = Own(Top, Top.at)
  <1> DEFINE n == Len(frames)
  <1>1. frames \in Seq(frame_t) /\ n \in Nat /\ n > 0 /\ n \in 1..n /\ Top = frames[n]
    BY TopTyped DEF FramesInv
  <1>2. /\ Len(frames') = n
        /\ \A k \in 1..n : frames'[k] = IF k = n THEN t ELSE frames[k]
    BY <1>1, ReplaceLast
  <1>0. n \in Nat
    BY <1>1
  <1>3. frames'[n] = t /\ \A k \in 1..n - 1 : frames'[k] = frames[k]
    <2>1. \A k \in 1..n - 1 : k \in 1..n /\ k # n
      BY ONLY <1>0
    <2> QED
      BY <1>1, <1>2, <2>1
  <1>4. Path(frames')
    <2>1. \A k \in 1..n : Ordered(frames'[k])
      BY <1>1, <1>2 DEF Path
    <2>2. ASSUME NEW k \in 1..n - 1
          PROVE  /\ frames'[k].at \in 1..Len(Subs(frames'[k].node))
                 /\ frames'[k+1].node = Subs(frames'[k].node)[frames'[k].at]
      <3>1. k + 1 \in 1..n
        BY ONLY <1>0, k \in 1..n - 1
      <3>2. frames'[k+1].node = frames[k+1].node
        BY <1>1, <1>2, <3>1
      <3> QED
        BY <1>3, <3>2 DEF Path
    <2> QED
      BY <1>2, <2>1, <2>2, Zenon DEF Path
  <1>5. Opened(frames') = (Opened(frames) \ {n}) \cup {k \in {n} : Entered(t)}
    BY <1>1, <1>2, <1>3 DEF Opened
  <1>6. n \in Opened(frames) <=> Entered(Top)
    BY <1>1 DEF Opened
  <1>7. ASSUME Pending(t) <=> Pending(Top), NEW k \in 1..n - 1
        PROVE  Decs(frames')[k] = Decs(frames)[k]
    <2>1. k \in Nat /\ k \in 1..n /\ k < n /\ k + 1 \in 1..n
      BY <1>1
    <2>2. Undefined(frames', k) <=> Undefined(frames, k)
      <3>1. CASE k + 1 = n
        BY <1>1, <1>2, <1>3, <1>7, <2>1, <3>1 DEF Undefined, Pending
      <3>2. CASE k + 1 # n
        BY <1>2, <2>1, <3>2 DEF Undefined
      <3> QED
        BY <3>1, <3>2
    <2>3. frames'[k] = frames[k] /\ Reached(frames', k) = Reached(frames, k)
      BY <1>3, <2>2 DEF Reached
    <2>4. k \in 1..Len(frames') /\ Len(frames') \in Nat
      BY <1>1, <1>2, <2>1
    <2>5. /\ Decs(frames')[k] = Own(frames'[k], Reached(frames', k))
          /\ Decs(frames)[k] = Own(frames[k], Reached(frames, k))
      BY <1>1, <2>1, <2>4, DecsAt
    <2> QED
      BY <2>3, <2>5, Zenon
  <1>8. Decs(frames')[n] = Own(t, t.at) /\ Decs(frames)[n] = Own(Top, Top.at)
    <2>1. ~Undefined(frames', n) /\ ~Undefined(frames, n)
      BY <1>1, <1>2, NoneAbove
    <2>2. Reached(frames', n) = t.at /\ Reached(frames, n) = Top.at
      BY <1>1, <1>3, <2>1 DEF Reached
    <2>3. n \in 1..Len(frames') /\ Len(frames') \in Nat
      BY <1>1, <1>2
    <2>4. /\ Decs(frames')[n] = Own(frames'[n], Reached(frames', n))
          /\ Decs(frames)[n] = Own(frames[n], Reached(frames, n))
      BY <1>1, <2>3, DecsAt
    <2> QED
      BY <1>1, <1>3, <2>2, <2>4, Zenon
  <1> QED
    BY <1>2, <1>4, <1>5, <1>6, <1>7, <1>8

\* A recursive call.
LEMMA DescendDecs ==
  ASSUME FramesInv, Path(frames), frames # <<>>, NEW l \in Int, NEW depth, Descend(l, depth),
         \A k \in 1..Len(frames) : Within(frames[k]),
         NEW t, t = [Top EXCEPT !.at = @ + 1, !.loc = l],
         ~Unscoped(Top.node.type) => l = Top.loc,
         Ordered(t)
  PROVE  /\ Path(frames') /\ Len(frames') = Len(frames) + 1
         /\ Opened(frames') = Opened(frames)
         /\ \A k \in 1..Len(frames) - 2 : Decs(frames')[k] = Decs(frames)[k]
         /\ ~Pending(Top) => \A k \in 1..Len(frames) : Decs(frames')[k] = Decs(frames)[k]
         /\ Unscoped(Top.node.type) => Decs(frames')[Len(frames)] = <<>>
         /\ Decs(frames')[Len(frames)+1] = <<>>
  <1> DEFINE n == Len(frames)
             sub == Subs(Top.node)[Top.at + 1]
             new == Frame(sub, depth)
  <1>1. /\ frames \in Seq(frame_t) /\ n \in Nat /\ n > 0 /\ n \in 1..n /\ Top = frames[n]
        /\ Top \in frame_t /\ Top.node \in Node /\ Top.at \in Nat /\ Top.loc \in Int /\ Within(Top)
    BY TopTyped DEF FramesInv
  <1>2. /\ Len(frames') = n + 1
        /\ \A k \in 1..n : frames'[k] = IF k = n THEN t ELSE frames[k]
        /\ frames'[n + 1] = new
    BY DescendShape
  <1>3. frames'[n] = t /\ \A k \in 1..n - 1 : frames'[k] = frames[k]
    <2>1. \A k \in 1..n - 1 : k \in 1..n /\ k # n
      BY <1>1
    <2> QED
      BY <1>1, <1>2, <2>1
  <1>4. t \in frame_t /\ t.node = Top.node /\ t.at = Top.at + 1 /\ t.loc = l
    <2>1. PICK f \in frame_t : f = Top
      BY <1>1
    <2>4. PICK a \in Nat : a = f.at + 1
      BY <1>1, <2>1
    <2>2. GoesOn(f, t, a, l)
      BY <1>1, <2>1, <2>4 DEF GoesOn
    <2>3. t \in frame_t /\ t.node = f.node /\ t.at = f.at + 1 /\ t.loc = l
      BY ONLY <2>2, <2>4, f \in frame_t, a \in Nat, l \in Int, GoneOn
    <2> QED
      BY <2>1, <2>3
  <1>5. Top.at + 1 \in 1..Len(Subs(Top.node)) /\ Len(Subs(Top.node)) \in Nat
    BY <1>1, SubsTyped DEF Descend
  <1>6. sub \in Node /\ sub.type # "AST_FUNC_DECL"
    BY <1>1, <1>5, SubsTyped
  <1>7. new.node = sub /\ new.at = 0 /\ new.loc = Fresh
    BY DEF Frame
  <1> HIDE DEF new
  <1>8. Path(frames')
    <2>1. Ordered(new)
      BY <1>7 DEF Ordered
    <2>2. ASSUME NEW k \in 1..n + 1
          PROVE  Ordered(frames'[k])
      <3>1. k \in 1..n \/ k = n + 1
        BY <1>1
      <3> QED
        BY <1>2, <2>1, <3>1 DEF Path
    <2>3. ASSUME NEW k \in 1..n
          PROVE  /\ frames'[k].at \in 1..Len(Subs(frames'[k].node))
                 /\ frames'[k+1].node = Subs(frames'[k].node)[frames'[k].at]
      <3>1. CASE k = n
        BY <1>2, <1>3, <1>4, <1>5, <1>7, <3>1
      <3>2. CASE k # n
        <4>1. k \in 1..n - 1 /\ k + 1 \in 1..n
          BY <1>1, <3>2
        <4>2. frames'[k+1].node = frames[k+1].node
          BY <1>1, <1>2, <1>4, <4>1
        <4> QED
          BY <1>3, <4>1, <4>2 DEF Path
      <3> QED
        BY <3>1, <3>2
    <2>4. (n + 1) - 1 = n
      BY <1>1
    <2> QED
      BY <1>2, <2>2, <2>3, <2>4 DEF Path
  <1>9. Opened(frames') = Opened(frames)
    <2>1. Entered(t) <=> Entered(Top)
      BY <1>4 DEF Entered, Unscoped
    <2>2. \A k \in 1..n : Entered(frames'[k]) <=> Entered(frames[k])
      BY <1>1, <1>2, <2>1
    <2>3. ~Entered(frames'[n+1])
      BY <1>2, <1>7 DEF Entered
    <2>4. \A k : k \in 1..n + 1 <=> k \in 1..n \/ k = n + 1
      BY <1>1
    <2> QED
      BY <1>2, <2>2, <2>3, <2>4 DEF Opened
  <1>10. Decs(frames')[n+1] = <<>>
    <2>1. Own(new, 0) = <<>>
      BY <1>6, <1>7, OwnBegin
    <2>2. ~Undefined(frames', n + 1) /\ n + 1 \in Nat /\ n + 1 \in 1..n + 1
      BY <1>1, <1>2 DEF Undefined
    <2>3. Decs(frames')[n+1] = Own(new, 0)
      <3>1. Reached(frames', n + 1) = 0
        BY <1>2, <1>7, <2>2 DEF Reached
      <3>2. Decs(frames')[n+1] = Own(frames'[n+1], Reached(frames', n + 1))
        BY <1>2, <2>2, DecsAt
      <3> QED
        BY <1>2, <3>1, <3>2, Zenon
    <2> QED
      BY <2>1, <2>3
  <1>11. Decs(frames)[n] = Own(Top, Top.at)
    <2>1. Reached(frames, n) = Top.at
      BY <1>1 DEF Reached, Undefined
    <2> QED
      BY <1>1, <2>1, DecsAt
  <1>12. Decs(frames')[n] = Own(t, IF Pending(new) THEN Top.at ELSE Top.at + 1)
    <2>1. n < n + 1 /\ n \in 1..n + 1
      BY <1>1
    <2>2. Undefined(frames', n) <=> Pending(new)
      BY <1>2, <2>1 DEF Undefined, Pending
    <2>3. Decs(frames')[n] = Own(frames'[n], Reached(frames', n))
      <3>1. n \in 1..Len(frames') /\ Len(frames') \in Nat
        BY <1>1, <1>2
      <3> QED
        BY <3>1, DecsAt
    <2>4. Reached(frames', n) = IF Pending(new) THEN Top.at ELSE Top.at + 1
      BY <1>1, <1>3, <1>4, <2>2 DEF Reached
    <2> QED
      BY <1>3, <2>3, <2>4, Zenon
  <1>13. \A a : Own(t, a) = Own(Top, a)
    <2>1. t.node.type = "AST_FUNC_DECL" => Stored(t) = Stored(Top)
      BY <1>4 DEF Stored, Unscoped
    <2> QED
      BY <1>4, <2>1, OwnOf
  <1>14. Decs(frames')[n] = Decs(frames)[n]
    <2>1. Pending(new) <=> sub.type = "AST_VAR_DECL"
      BY <1>7 DEF Pending
    <2>2. sub.type # "AST_VAR_DECL" => Own(Top, Top.at + 1) = Own(Top, (Top.at + 1) - 1)
      BY <1>1, <1>5, OwnStep
    <2>3. (Top.at + 1) - 1 = Top.at
      BY <1>1
    <2> QED
      BY <1>11, <1>12, <1>13, <2>1, <2>2, <2>3
  <1>15. Unscoped(Top.node.type) => Decs(frames')[n] = <<>>
    BY <1>11, <1>14, OwnElse
  <1>16. ASSUME NEW k \in 1..n - 1, Undefined(frames', k) <=> Undefined(frames, k)
         PROVE  Decs(frames')[k] = Decs(frames)[k]
    <2>1. k \in 1..Len(frames) /\ k \in 1..Len(frames') /\ Len(frames') \in Nat
      BY <1>1, <1>2
    <2>2. frames'[k] = frames[k] /\ Reached(frames', k) = Reached(frames, k)
      BY <1>3, <1>16 DEF Reached
    <2>3. /\ Decs(frames')[k] = Own(frames'[k], Reached(frames', k))
          /\ Decs(frames)[k] = Own(frames[k], Reached(frames, k))
      BY <1>1, <2>1, DecsAt
    <2> QED
      BY <2>2, <2>3, Zenon
  <1>17. ASSUME NEW k \in 1..n - 2
         PROVE  k \in 1..n - 1 /\ (Undefined(frames', k) <=> Undefined(frames, k))
    <2>1. k < n /\ k < n + 1 /\ k + 1 \in 1..n - 1 /\ k \in 1..n - 1
      BY <1>1
    <2> QED
      BY <1>2, <1>3, <2>1 DEF Undefined
  <1>18. ASSUME ~Pending(Top), NEW k \in 1..n
         PROVE  Decs(frames')[k] = Decs(frames)[k]
    <2>1. CASE k = n
      BY <1>14, <2>1
    <2>2. CASE k = n - 1
      <3>1. k + 1 = n /\ k \in 1..n - 1 /\ k < n /\ k < n + 1
        BY <1>1, <2>2
      <3>2. ~Undefined(frames, k) /\ ~Undefined(frames', k)
        <4>1. ~Undefined(frames, k)
          BY <1>1, <1>18, <3>1 DEF Undefined, Pending
        <4>2. frames'[k+1].at # 0
          <5>1. frames'[k+1] = t /\ t.at = Top.at + 1 /\ Top.at \in Nat
            BY <1>1, <1>3, <1>4, <3>1, Zenon
          <5> QED
            BY <5>1
        <4> QED
          BY <4>1, <4>2 DEF Undefined
      <3> QED
        BY <1>16, <3>1, <3>2
    <2>3. CASE k # n /\ k # n - 1
      <3>1. k \in 1..n - 2
        BY <1>1, <2>3
      <3> QED
        BY <1>16, <1>17, <3>1
    <2> QED
      BY <2>1, <2>2, <2>3
  <1> QED
    BY <1>2, <1>8, <1>9, <1>10, <1>15, <1>16, <1>17, <1>18

\* A function that has stored one more parameter.
LEMMA OwnParam ==
  ASSUME NEW fr \in frame_t, Within(fr), fr.node.type = "AST_FUNC_DECL",
         NEW k \in 1..Len(fr.node.func_t.params), Len(fr.node.func_t.params) \in Nat,
         fr.loc = k - 1,
         NEW gr, gr.node = fr.node, gr.loc = k
  PROVE  Own(gr, 0) = Append(Own(fr, 0), fr.node.func_t.params[k].ident.name)
  <1> DEFINE x(j) == fr.node.func_t.params[j].ident.name
             s == [j \in 1..k - 1 |-> x(j)]
             t == [j \in 1..k |-> x(j)]
  <1>1. fr.node \in Node /\ WellFormed(fr.node)
    BY ProgramsAssumption DEF frame_t
  <1>2. Stored(fr) = k - 1 /\ Stored(gr) = k
    BY DEF Stored, Fresh
  <1>3. Params(fr) = s /\ Params(gr) = t
    BY <1>2 DEF Params
  <1>4. \A j \in 1..k : x(j) \in Name
    <2> SUFFICES ASSUME NEW j \in 1..k
                 PROVE  x(j) \in Name
      OBVIOUS
    <2>1. j \in 1..Len(fr.node.func_t.params)
      OBVIOUS
    <2>2. fr.node.func_t.params[j].ident \in Idents(fr.node)
      BY <1>1, <2>1 DEF WellFormed, Idents
    <2> QED
      BY <1>1, <2>2 DEF WellFormed
  <1>5. s \in Seq(Name) /\ t \in Seq(Name) /\ Len(s) = k - 1 /\ Len(t) = k /\ x(k) \in Name
    <2> HIDE DEF x
    <2> QED
      BY <1>4
  <1>6. t = Append(s, x(k))
    <2> DEFINE y == x(k)
    <2>1. Append(s, y) \in Seq(Name) /\ Len(Append(s, y)) = k
      BY <1>5
    <2>2. ASSUME NEW j \in 1..k
          PROVE  Append(s, y)[j] = t[j]
      <3>1. Append(s, y)[j] = IF j = k THEN y ELSE s[j]
        BY <1>5
      <3>2. j # k => j \in 1..k - 1
        OBVIOUS
      <3> QED
        BY <3>1, <3>2
    <2> HIDE DEF s, t, y
    <2>3. Append(s, y) = t
      BY <1>5, <2>1, <2>2
    <2> QED
      BY <2>3 DEF y
  <1>7. LetsOf(fr.node)[0] = <<>>
    BY <1>1, LetsBuilt
  <1>8. Own(fr, 0) = s /\ Own(gr, 0) = t
    <2> HIDE DEF s, t
    <2>1. Own(fr, 0) = s \o <<>> /\ Own(gr, 0) = t \o <<>>
      BY <1>3, <1>7 DEF Own
    <2> QED
      BY <1>5, <2>1, ConcatNothing
  <1> QED
    BY <1>6, <1>8

\* The caller of a let declares its name, and does so in a scope of its own.
LEMMA PendingDecs ==
  ASSUME FramesInv, Path(frames), frames # <<>>, Pending(Top),
         \A k \in 1..Len(frames) : Within(frames[k]),
         Return \/ \E l \in Int : \E depth : Descend(l, depth),
         NEW m, m = Len(frames) - 1
  PROVE  /\ m \in Nat /\ m > 0 /\ m \in Opened(frames) /\ Len(frames) \notin Opened(frames)
         /\ Decs(frames)[Len(frames)] = <<>>
         /\ Top.node.ident.name \in Name
         /\ Decs(frames')[m] = Append(Decs(frames)[m], Top.node.ident.name)
  <1> DEFINE n == Len(frames)
  <1>1. /\ frames \in Seq(frame_t) /\ IsWalk(frames) /\ n \in Nat /\ n > 0 /\ n \in 1..n
        /\ Top = frames[n] /\ Top.node.type = "AST_VAR_DECL" /\ Top.at = 0
        /\ Top.node \in Node /\ n # 1
    BY TopTyped DEF FramesInv, Pending
  <1>2. m \in Nat /\ m > 0 /\ m \in 1..n /\ m \in 1..n - 1 /\ m + 1 = n /\ 1 \in 1..n
    BY <1>1
  <1>3. PICK fr \in frame_t : fr = frames[m]
    BY <1>1, <1>2
  <1>4. fr.node \in Node /\ Within(fr) /\ Ordered(fr) /\ fr.at \in Nat
    BY <1>2, <1>3 DEF Path, frame_t
  <1>5. fr.at \in 1..Len(Subs(fr.node)) /\ Top.node = Subs(fr.node)[fr.at]
    BY <1>1, <1>2, <1>3 DEF Path
  <1>6. ~Unscoped(fr.node.type)
    <2>1. WellFormed(fr.node)
      BY <1>4, ProgramsAssumption
    <2>2. fr.at \in DOMAIN Subs(fr.node)
      BY <1>4, <1>5, SubsTyped
    <2>3. Subs(fr.node)[fr.at].type \in SubTypes(fr.node)
      BY <2>1, <2>2 DEF WellFormed
    <2> QED
      BY <1>1, <1>5, <2>3 DEF SubTypes, expr_t, Unscoped
  <1>7. fr.loc # Fresh
    <2>1. CASE fr.node.type = "AST_BLOCK"
      BY <1>4, <1>5, <2>1 DEF Ordered
    <2>2. CASE fr.node.type = "AST_FUNC_DECL"
      <3>1. m = 1
        BY <1>1, <1>2, <1>3, <2>2 DEF IsWalk
      <3> QED
        BY <1>1, <1>2, <1>3, <3>1 DEF IsWalk
    <2> QED
      BY <1>6, <2>1, <2>2 DEF Unscoped
  <1>8. m \in Opened(frames) /\ n \notin Opened(frames)
    <2>1. Entered(fr)
      BY <1>6, <1>7 DEF Entered, Unscoped
    <2>2. ~Entered(Top)
      BY <1>1 DEF Entered
    <2> QED
      BY <1>1, <1>2, <1>3, <2>1, <2>2 DEF Opened
  <1>9. Decs(frames)[n] = <<>>
    <2>1. Decs(frames)[n] = Own(frames[n], Reached(frames, n))
      BY <1>1, DecsAt
    <2>2. Unscoped(frames[n].node.type)
      BY <1>1 DEF Unscoped
    <2>3. Own(frames[n], Reached(frames, n)) = <<>>
      BY <2>2, OwnElse
    <2> QED
      BY <2>1, <2>3, Zenon
  <1>10. Top.node.ident.name \in Name
    BY <1>1, ProgramsAssumption DEF WellFormed, Idents
  <1>11. Reached(frames, m) = fr.at - 1
    <2>1. Undefined(frames, m)
      BY <1>1, <1>2 DEF Undefined
    <2> QED
      BY <1>3, <2>1 DEF Reached
  <1>12. /\ m \in 1..Len(frames') /\ Len(frames') \in Nat
         /\ frames'[m] = fr /\ ~Undefined(frames', m)
    <2>1. CASE Return
      <3>1. Len(frames') = n - 1 /\ \A k \in 1..n - 1 : frames'[k] = frames[k]
        BY <1>1, <2>1, RemoveLast DEF Return
      <3>2. Len(frames') = m
        BY <1>2, <3>1
      <3>3. ~Undefined(frames', m)
        BY <1>2, <3>2, NoneAbove
      <3> QED
        BY <1>2, <1>3, <3>1, <3>2, <3>3
    <2>2. ASSUME NEW l \in Int, NEW depth, Descend(l, depth)
          PROVE  /\ m \in 1..Len(frames') /\ Len(frames') \in Nat
                 /\ frames'[m] = fr /\ ~Undefined(frames', m)
      <3> DEFINE t == [Top EXCEPT !.at = @ + 1, !.loc = l]
      <3>5. t = [Top EXCEPT !.at = @ + 1, !.loc = l]
        OBVIOUS
      <3>1. /\ Len(frames') = n + 1
            /\ \A k \in 1..n : frames'[k] = IF k = n THEN t ELSE frames[k]
        BY <2>2, DescendShape
      <3> HIDE DEF t
      <3>0. t.at = 1
        <4>1. PICK f \in frame_t : f = Top
          BY <1>1
        <4>3. f.at = 0
          BY <1>1, <4>1
        <4>2. GoesOn(f, t, f.at + 1, l) /\ f.at + 1 = 1
          BY <3>5, <4>1, <4>3 DEF GoesOn
        <4> QED
          BY <4>2, GoneOn
      <3>2. m \in 1..Len(frames') /\ Len(frames') \in Nat /\ m # n /\ m + 1 \in 1..n
        <4>1. n \in Nat /\ n > 0 /\ m \in 1..n - 1
          BY <1>1, <1>2
        <4>2. Len(frames') = n + 1 /\ m + 1 = n
          BY <3>1, <4>1
        <4> QED
          BY ONLY <4>1, <4>2
      <3>3. frames'[m] = fr /\ frames'[m + 1] = t
        BY <1>2, <1>3, <3>1, <3>2
      <3>4. ~Undefined(frames', m)
        BY <3>0, <3>3 DEF Undefined
      <3> QED
        BY <3>2, <3>3, <3>4
    <2> QED
      BY <2>1, <2>2
  <1>13. Reached(frames', m) = fr.at
    BY <1>12 DEF Reached
  <1>14. Decs(frames')[m] = Own(fr, fr.at) /\ Decs(frames)[m] = Own(fr, fr.at - 1)
    <2>1. Decs(frames')[m] = Own(frames'[m], Reached(frames', m))
      BY <1>12, DecsAt
    <2>2. Decs(frames)[m] = Own(frames[m], Reached(frames, m))
      BY <1>1, <1>2, DecsAt
    <2> QED
      BY <1>3, <1>11, <1>12, <1>13, <2>1, <2>2, Zenon
  <1>15. Own(fr, fr.at) = Append(Own(fr, fr.at - 1), Top.node.ident.name)
    <2>1. Subs(fr.node)[fr.at].type = "AST_VAR_DECL"
      BY <1>1, <1>5
    <2>2. Own(fr, fr.at) = Append(Own(fr, fr.at - 1), Subs(fr.node)[fr.at].ident.name)
      BY <1>4, <1>5, <1>6, <2>1, OwnStep
    <2> QED
      BY <1>5, <2>2, Zenon
  <1> QED
    BY <1>2, <1>8, <1>9, <1>10, <1>14, <1>15, Zenon

\* The globals gen_program has defined.
Defined == {program[k].ident.name : k \in {j \in DOMAIN program : IsGlobal(j) /\ j < i}}
Known == IF phase = "data" THEN Defined ELSE Globals

(***************************************************************************)
(* The inductive invariant of LexicalScoping.                              *)
(***************************************************************************)
Scoped ==
  phase \in {"data", "text"} =>
    Match(Len(frames), Decs(frames), Opened(frames), scope_stk, cur_offset, Known)

ScopesInv ==
  /\ phase = "start" => i = 1
  /\ Path(frames)
  /\ Scoped

\* What a step of the walk starts from.
LEMMA TopScopes ==
  ASSUME Inv, SpaceInv, ScopesInv, NEW ty, Running(ty)
  PROVE  /\ FramesInv /\ frames # <<>> /\ Path(frames)
         /\ Len(frames) \in Nat /\ Len(frames) > 0 /\ Len(frames) \in 1..Len(frames)
         /\ Opened(frames) \subseteq 1..Len(frames)
         /\ \A k \in 1..Len(frames) : Within(frames[k])
         /\ Decs(frames)[Len(frames)] = Own(Top, Top.at)
         /\ Len(frames) \in Opened(frames) <=> Entered(Top)
         /\ Match(Len(frames), Decs(frames), Opened(frames), scope_stk, cur_offset, Globals)
  <1>1. FramesInv /\ frames # <<>> /\ phase = "text"
    BY RunningTop DEF Inv, IInv, Running
  <1>2. /\ Len(frames) \in Nat /\ Len(frames) > 0 /\ Len(frames) \in 1..Len(frames)
        /\ Top = frames[Len(frames)]
    BY <1>1, TopTyped
  <1>3. Match(Len(frames), Decs(frames), Opened(frames), scope_stk, cur_offset, Globals)
    BY <1>1 DEF ScopesInv, Scoped, Known
  <1>4. Decs(frames)[Len(frames)] = Own(Top, Top.at)
    <2>1. Reached(frames, Len(frames)) = Top.at
      BY <1>2, NoneAbove DEF Reached
    <2> QED
      BY <1>2, <2>1, DecsAt
  <1>5. Len(frames) \in Opened(frames) <=> Entered(Top)
    BY <1>2 DEF Opened
  <1> QED
    BY <1>1, <1>2, <1>3, <1>4, <1>5 DEF ScopesInv, SpaceInv, Opened

\* What is left to show of a step of the walk.
LEMMA ScopesStep ==
  ASSUME phase' = "text", UNCHANGED program, Path(frames'), NEW n, Len(frames') = n,
         NEW opened, Opened(frames') = opened,
         Match(n, Decs(frames'), opened, scope_stk', cur_offset', Globals)
  PROVE  ScopesInv'
  <1>1. Known' = Globals
    BY DEF Known, Globals, IsGlobal
  <1> QED
    BY <1>1 DEF ScopesInv, Scoped

LEMMA ScopesError ==
  ASSUME ScopesInv, std_compile_error
  PROVE  ScopesInv'
  BY DEF ScopesInv, Scoped, std_compile_error

\* The globals stay what they are.
Idle(ty) == Running(ty) /\ UNCHANGED <<walkVars, scopeVars>>

LEMMA IdleReturn ==
  ASSUME Inv, SpaceInv, ScopesInv, NEW ty, Idle(ty), Unscoped(ty), ~Pending(Top), Return
  PROVE  ScopesInv'
  <1> DEFINE n == Len(frames)
             m == n - 1
  <1>1. /\ FramesInv /\ frames # <<>> /\ Path(frames) /\ n \in Nat /\ n > 0 /\ n \in 1..n
        /\ Opened(frames) \subseteq 1..n /\ frames \in Seq(frame_t)
        /\ Decs(frames)[n] = Own(Top, Top.at)
        /\ n \in Opened(frames) <=> Entered(Top)
        /\ Match(n, Decs(frames), Opened(frames), scope_stk, cur_offset, Globals)
    BY TopScopes DEF Idle, FramesInv
  <1>2. /\ phase' = "text" /\ UNCHANGED program /\ scope_stk' = scope_stk
        /\ cur_offset' = cur_offset /\ Top.node.type = ty
    BY DEF Idle, Running, walkVars, scopeVars
  <1>3. /\ Path(frames') /\ Opened(frames') = Opened(frames) \ {n}
        /\ \A k \in 1..n - 1 : Decs(frames')[k] = Decs(frames)[k]
    BY <1>1, ReturnDecs
  <1>4. n \notin Opened(frames) /\ Decs(frames)[n] = <<>>
    <2>1. ~Entered(Top)
      BY <1>2 DEF Entered, Unscoped
    <2>2. Own(Top, Top.at) = <<>>
      BY <1>2, OwnElse
    <2> QED
      BY <1>1, <2>1, <2>2
  <1>5. m \in Nat /\ Len(frames') = m /\ Opened(frames') = Opened(frames)
    <2>1. Len(frames') = n - 1
      <3>1. Len(Front(frames)) = Len(frames) - 1
        BY <1>1, RemoveLast
      <3> QED
        BY <3>1 DEF Return
    <2>2. Opened(frames') = Opened(frames)
      BY <1>3, <1>4
    <2> QED
      BY <1>1, <2>1, <2>2
  <1>6. Match(n - 1, Decs(frames), Opened(frames), scope_stk, cur_offset, Globals)
    BY <1>1, <1>4, MatchShrink
  <1>7. Match(m, Decs(frames'), Opened(frames), scope_stk, cur_offset, Globals)
    BY <1>3, <1>5, <1>6, MatchSame
  <1> QED
    BY <1>2, <1>3, <1>5, <1>7, ScopesStep

LEMMA IdleDescend ==
  ASSUME Inv, SpaceInv, ScopesInv, NEW ty, Idle(ty), ~Pending(Top),
         NEW l \in Int, NEW depth, Descend(l, depth),
         NEW t, t = [Top EXCEPT !.at = @ + 1, !.loc = l],
         ~Unscoped(ty) => l = Top.loc, Ordered(t)
  PROVE  ScopesInv'
  <1> DEFINE n == Len(frames)
  <1>1. /\ FramesInv /\ frames # <<>> /\ Path(frames) /\ n \in Nat /\ n > 0 /\ n \in 1..n
        /\ Opened(frames) \subseteq 1..n
        /\ \A k \in 1..n : Within(frames[k])
        /\ Match(n, Decs(frames), Opened(frames), scope_stk, cur_offset, Globals)
    BY TopScopes DEF Idle
  <1>2. /\ phase' = "text" /\ UNCHANGED program /\ scope_stk' = scope_stk
        /\ cur_offset' = cur_offset /\ Top.node.type = ty
    BY DEF Idle, Running, walkVars, scopeVars
  <1>3. /\ Path(frames') /\ Len(frames') = n + 1 /\ Opened(frames') = Opened(frames)
        /\ \A k \in 1..n : Decs(frames')[k] = Decs(frames)[k]
        /\ Decs(frames')[n+1] = <<>>
    BY <1>1, <1>2, DescendDecs
  <1>4. Match(n, Decs(frames'), Opened(frames), scope_stk, cur_offset, Globals)
    BY <1>1, <1>3, MatchSame
  <1>5. Match(n + 1, Decs(frames'), Opened(frames), scope_stk, cur_offset, Globals)
    BY <1>1, <1>3, <1>4, MatchGrow
  <1> QED
    BY <1>2, <1>3, <1>5, ScopesStep

LEMMA IdleUpdate ==
  ASSUME Inv, SpaceInv, ScopesInv, NEW ty, Idle(ty), Unscoped(ty), ty # "AST_VAR_DECL",
         NEW t \in frame_t, t.node = Top.node, frames' = [frames EXCEPT ![Len(frames)] = t]
  PROVE  ScopesInv'
  <1> DEFINE n == Len(frames)
  <1>1. /\ FramesInv /\ frames # <<>> /\ Path(frames) /\ n \in Nat /\ n > 0 /\ n \in 1..n
        /\ Opened(frames) \subseteq 1..n
        /\ n \in Opened(frames) <=> Entered(Top)
        /\ Match(n, Decs(frames), Opened(frames), scope_stk, cur_offset, Globals)
    BY TopScopes DEF Idle
  <1>2. /\ phase' = "text" /\ UNCHANGED program /\ scope_stk' = scope_stk
        /\ cur_offset' = cur_offset /\ Top.node.type = ty
    BY DEF Idle, Running, walkVars, scopeVars
  <1>3. Ordered(t) /\ ~Entered(t) /\ ~Entered(Top) /\ ~Pending(t) /\ ~Pending(Top)
    BY <1>2 DEF Ordered, Entered, Pending, Unscoped
  <1>4. /\ Path(frames') /\ Len(frames') = n
        /\ Opened(frames') = (Opened(frames) \ {n}) \cup {k \in {n} : Entered(t)}
        /\ \A k \in 1..n - 1 : Decs(frames')[k] = Decs(frames)[k]
        /\ Decs(frames')[n] = Own(t, t.at) /\ Decs(frames)[n] = Own(Top, Top.at)
    BY <1>1, <1>3, UpdateDecs
  <1>5. Opened(frames') = Opened(frames)
    BY <1>1, <1>3, <1>4
  <1>6. Own(t, t.at) = <<>> /\ Own(Top, Top.at) = <<>>
    BY <1>2, OwnElse
  <1>7. \A k \in 1..n : Decs(frames')[k] = Decs(frames)[k]
    <2> TAKE k \in 1..n
    <2>1. k = n \/ k \in 1..n - 1
      BY <1>1
    <2> QED
      BY <1>4, <1>6, <2>1
  <1>8. Match(n, Decs(frames'), Opened(frames), scope_stk, cur_offset, Globals)
    BY <1>1, <1>7, MatchSame
  <1> QED
    BY <1>2, <1>4, <1>5, <1>8, ScopesStep

\* A step of a function that declares nothing.
LEMMA IdleMoves ==
  ASSUME Inv, SpaceInv, ScopesInv, NEW ty, Idle(ty), Unscoped(ty), ty # "AST_VAR_DECL", Moves
  PROVE  ScopesInv'
  <1>1. Top.node.type = ty /\ ~Pending(Top)
    BY DEF Idle, Running, Pending
  <1>2. ASSUME NEW l \in Int, NEW depth, Descend(l, depth)
        PROVE  ScopesInv'
    <2> DEFINE t == [Top EXCEPT !.at = @ + 1, !.loc = l]
    <2>1. t = [Top EXCEPT !.at = @ + 1, !.loc = l]
      OBVIOUS
    <2> HIDE DEF t
    <2>2. t.node = Top.node
      BY <2>1, Advanced DEF Idle
    <2>3. Ordered(t)
      BY <1>1, <2>2 DEF Ordered, Unscoped
    <2> QED
      BY <1>1, <1>2, <2>1, <2>3, IdleDescend
  <1> QED
    BY <1>1, <1>2, IdleReturn, IdleUpdate DEF Moves

-----------------------------------------------------------------------------
(* Every action keeps it *)

LEMMA expr_match ==
  ASSUME Inv, SpaceInv, ScopesInv, gen_expr
  PROVE  ScopesInv'
  <1> DEFINE Idles1(ty) == Idle(ty) /\ Unscoped(ty) /\ ty # "AST_VAR_DECL" /\ Moves
  <1>0. Fresh \in Int /\ 0 \in Int /\ FramesInv /\ IInv
    BY DEF Fresh, Inv, IInv
  <1>1. SUFFICES ASSUME ~std_compile_error
                 PROVE  \E ty : Idles1(ty)
    BY ScopesError, IdleMoves
  <1>2. CASE gen_literal
    <2>1. Idles1("AST_LITERAL")
      BY <1>2 DEF gen_literal, Idle, Unscoped, Moves
    <2> QED
      BY <2>1
  <1>3. CASE gen_identifier
    <2>1. Idles1("AST_IDENTIFIER")
      BY <1>1, <1>3 DEF gen_identifier, Idle, Unscoped, Moves
    <2> QED
      BY <2>1
  <1>4. CASE gen_address
    <2>1. Idles1("AST_UNARY")
      BY <1>1, <1>4 DEF gen_address, Idle, Unscoped, Moves
    <2> QED
      BY <2>1
  <1>5. CASE gen_unary
    <2>1. Idles1("AST_UNARY")
      BY <1>0, <1>1, <1>5 DEF gen_unary, Idle, Unscoped, Moves
    <2> QED
      BY <2>1
  <1>6. CASE gen_binary
    <2>1. Idles1("AST_BINARY")
      BY <1>0, <1>6 DEF gen_binary, Idle, Unscoped, Moves
    <2> QED
      BY <2>1
  <1>7. CASE gen_call_enter
    <2>1. Running("AST_CALL") /\ UNCHANGED <<walkVars, scopeVars>> /\ SetLoc(0)
      BY <1>1, <1>7 DEF gen_call_enter
    <2>2. Idles1("AST_CALL")
      BY <1>0, <2>1, SetLocMoves DEF Idle, Unscoped, Running
    <2> QED
      BY <2>2
  <1>8. CASE gen_call_arg
    <2>1. /\ Running("AST_CALL") /\ UNCHANGED <<walkVars, scopeVars>>
          /\ Descend(Top.loc, push_depth) \/ SetLoc(Top.loc + 1)
      BY <1>8 DEF gen_call_arg
    <2>2. Top.loc \in Int /\ Top.loc + 1 \in Int
      BY <2>1, TopSpace
    <2>3. Moves
      <3>1. CASE Descend(Top.loc, push_depth)
        BY <2>2, <3>1 DEF Moves
      <3>2. CASE SetLoc(Top.loc + 1)
        BY <1>0, <2>1, <2>2, <3>2, SetLocMoves DEF Running
      <3> QED
        BY <2>1, <3>1, <3>2
    <2>4. Idles1("AST_CALL")
      BY <2>1, <2>3 DEF Idle, Unscoped
    <2> QED
      BY <2>4
  <1>9. CASE gen_call_pop
    <2>1. Moves
      BY <1>0, <1>9, CallPopped DEF Moves
    <2>2. Idles1("AST_CALL")
      BY <1>9, <2>1 DEF gen_call_pop, Idle, Unscoped
    <2> QED
      BY <2>2
  <1>10. CASE gen_call_return
    <2>1. Idles1("AST_CALL")
      BY <1>10 DEF gen_call_return, Idle, Unscoped, Moves
    <2> QED
      BY <2>1
  <1>11. CASE gen_assign
    <2>1. Idles1("AST_ASSIGN")
      BY <1>0, <1>1, <1>11 DEF gen_assign, Idle, Unscoped, Moves
    <2> QED
      BY <2>1
  <1>12. CASE gen_cast
    <2>1. Idles1("AST_CAST")
      BY <1>0, <1>12 DEF gen_cast, Idle, Unscoped, Moves
    <2> QED
      BY <2>1
  <1>13. CASE gen_unsupported
    BY <1>1, <1>13 DEF gen_unsupported
  <1> QED
    BY <1>2, <1>3, <1>4, <1>5, <1>6, <1>7, <1>8, <1>9, <1>10, <1>11, <1>12, <1>13 DEF gen_expr

LEMMA var_decl_match ==
  ASSUME Inv, SpaceInv, ScopesInv, gen_var_decl
  PROVE  ScopesInv'
  <1>1. Running("AST_VAR_DECL") /\ UNCHANGED walkVars
    BY DEF gen_var_decl
  <1>2. CASE Top.at = 1 /\ Return /\ UNCHANGED scopeVars
    <2>1. Idle("AST_VAR_DECL") /\ Unscoped("AST_VAR_DECL") /\ ~Pending(Top)
      BY <1>1, <1>2 DEF Idle, Unscoped, Pending
    <2> QED
      BY <1>2, <2>1, IdleReturn
  <1>3. CASE /\ Top.at = 0
             /\ define_local(Top.node.ident.name)
             /\ Return \/ Descend(cur_offset', push_depth)
    <2> DEFINE n == Len(frames)
               m == n - 1
               x == Top.node.ident.name
               opened == Opened(frames)
    <2>1. /\ FramesInv /\ frames # <<>> /\ Path(frames) /\ n \in Nat /\ n > 0 /\ n \in 1..n
          /\ opened \subseteq 1..n /\ frames \in Seq(frame_t)
          /\ \A k \in 1..n : Within(frames[k])
          /\ Match(n, Decs(frames), opened, scope_stk, cur_offset, Globals)
      BY <1>1, TopScopes DEF FramesInv
    <2>2. /\ cur_offset \in Int /\ scope_stk \in Seq(ScopeType) /\ Top.node.type = "AST_VAR_DECL"
          /\ phase' = "text" /\ UNCHANGED program
      BY <1>1, TopSpace DEF walkVars
    <2>3. cur_offset' = cur_offset - 8 /\ cur_offset' \in Int /\ Pending(Top)
      BY <1>3, <2>2 DEF define_local, Pending
    <2>4. scope_stk' = [scope_stk EXCEPT ![Len(scope_stk)].symbols[x] =
                          [kind |-> "local", off |-> cur_offset - 8]]
      BY <1>3, <2>3 DEF define_local, Define
    <2>5. /\ m \in Nat /\ m > 0 /\ m \in opened /\ n \notin opened
          /\ Decs(frames)[n] = <<>> /\ x \in Name
          /\ Decs(frames')[m] = Append(Decs(frames)[m], x)
      <3>1. Return \/ \E l \in Int : \E depth : Descend(l, depth)
        BY <1>3, <2>3
      <3> QED
        BY <2>1, <2>3, <3>1, PendingDecs
    <2>6. Match(m, Decs(frames), opened, scope_stk, cur_offset, Globals)
      BY <2>1, <2>5, MatchShrink
    <2>7. opened \subseteq 1..m /\ m + 1 = n
      BY <2>1, <2>5
    <2>8. Decs(frames)[m] \in Seq(Name)
      <3>1. m \in 1..n
        BY <2>1, <2>5
      <3> QED
        BY <2>1, <3>1, DecsTyped DEF DecTyped
    <2>9. \A k \in 1..m - 1 : Decs(frames')[k] = Decs(frames)[k]
      <3>1. \A k \in 1..n - 2 : Decs(frames')[k] = Decs(frames)[k]
        <4>1. CASE Return
          BY <2>1, <4>1, ReturnDecs
        <4>2. CASE Descend(cur_offset', push_depth)
          <5> DEFINE t == [Top EXCEPT !.at = @ + 1, !.loc = cur_offset']
          <5>1. t = [Top EXCEPT !.at = @ + 1, !.loc = cur_offset']
            OBVIOUS
          <5> HIDE DEF t
          <5>2. t.node = Top.node
            BY <1>1, <2>3, <5>1, Advanced
          <5>3. Ordered(t) /\ Unscoped(Top.node.type)
            BY <2>2, <5>2 DEF Ordered, Unscoped
          <5> QED
            BY <2>1, <2>3, <4>2, <5>1, <5>3, DescendDecs
        <4> QED
          BY <1>3, <4>1, <4>2
      <3> QED
        BY <2>1, <3>1
    <2>10. Match(m, Decs(frames'), opened, scope_stk', cur_offset', Globals)
      <3>1. Match(m, Decs(frames'), opened, scope_stk', cur_offset - 8, Globals)
        <4> HIDE DEF m, x, opened, n
        <4> QED
          BY <2>2, <2>4, <2>5, <2>6, <2>7, <2>8, <2>9, MatchDeclare
      <3> QED
        BY <2>3, <3>1
    <2>11. CASE Return
      <3>1. Path(frames') /\ Opened(frames') = opened \ {n}
        BY <2>1, <2>11, ReturnDecs
      <3>2. Opened(frames') = opened
        BY <2>5, <3>1
      <3>3. Len(frames') = m
        <4>1. Len(Front(frames)) = Len(frames) - 1
          BY <2>1, RemoveLast
        <4> QED
          BY <2>11, <4>1 DEF Return
      <3> QED
        BY <2>2, <2>10, <3>1, <3>2, <3>3, ScopesStep
    <2>12. CASE Descend(cur_offset', push_depth)
      <3> DEFINE t == [Top EXCEPT !.at = @ + 1, !.loc = cur_offset']
      <3>1. t = [Top EXCEPT !.at = @ + 1, !.loc = cur_offset']
        OBVIOUS
      <3> HIDE DEF t
      <3>2. t.node = Top.node
        BY <1>1, <2>3, <3>1, Advanced
      <3>3. Ordered(t) /\ Unscoped(Top.node.type)
        BY <2>2, <3>2 DEF Ordered, Unscoped
      <3>4. /\ Path(frames') /\ Len(frames') = n + 1 /\ Opened(frames') = opened
            /\ Decs(frames')[n] = <<>> /\ Decs(frames')[n+1] = <<>>
        BY <2>1, <2>3, <2>12, <3>1, <3>3, DescendDecs
      <3>5. Match(n, Decs(frames'), opened, scope_stk', cur_offset', Globals)
        <4>1. Match(m + 1, Decs(frames'), opened, scope_stk', cur_offset', Globals)
          <5>1. Decs(frames')[m+1] = <<>>
            BY <2>7, <3>4, Zenon
          <5> HIDE DEF m, opened, n
          <5> QED
            BY <2>5, <2>7, <2>10, <5>1, MatchGrow
        <4> QED
          BY <2>7, <4>1, Zenon
      <3>6. Match(n + 1, Decs(frames'), opened, scope_stk', cur_offset', Globals)
        BY <2>1, <3>4, <3>5, MatchGrow
      <3> QED
        BY <2>2, <3>4, <3>6, ScopesStep
    <2> QED
      BY <1>3, <2>11, <2>12
  <1> QED
    BY <1>2, <1>3 DEF gen_var_decl

LEMMA block_match ==
  ASSUME Inv, SpaceInv, ScopesInv, gen_block
  PROVE  ScopesInv'
  <1> DEFINE n == Len(frames)
             m == n - 1
             opened == Opened(frames)
  <1>1. Running("AST_BLOCK") /\ UNCHANGED walkVars
    BY DEF gen_block
  <1>2. /\ FramesInv /\ frames # <<>> /\ Path(frames) /\ n \in Nat /\ n > 0 /\ n \in 1..n
        /\ opened \subseteq 1..n /\ frames \in Seq(frame_t)
        /\ \A k \in 1..n : Within(frames[k])
        /\ n \in opened <=> Entered(Top)
        /\ Match(n, Decs(frames), opened, scope_stk, cur_offset, Globals)
    BY <1>1, TopScopes DEF FramesInv
  <1>3. /\ cur_offset \in Int /\ scope_stk \in Seq(ScopeType) /\ Len(scope_stk) > 0
        /\ Top.node.type = "AST_BLOCK" /\ Top.node \in Node
        /\ Top = frames[n] /\ phase' = "text" /\ UNCHANGED program
    BY <1>1, TopSpace DEF walkVars
  <1>4. ~Pending(Top) /\ Ordered(Top) /\ 0 \in Int
    BY <1>2, <1>3 DEF Pending, Path
  <1>5. CASE Top.loc = Fresh /\ push_scope /\ SetLoc(0) /\ UNCHANGED cur_offset
    <2> DEFINE t == [Top EXCEPT !.loc = 0]
    <2>1. t = [Top EXCEPT !.loc = 0]
      OBVIOUS
    <2> HIDE DEF t
    <2>2. /\ t \in frame_t /\ t.node = Top.node /\ t.at = Top.at /\ t.loc = 0
          /\ frames' = [frames EXCEPT ![Len(frames)] = t]
      BY <1>2, <1>4, <1>5, <2>1, SettingLoc
    <2>3. Ordered(t) /\ ~Pending(t) /\ Entered(t) /\ ~Entered(Top) /\ t.at = 0
      BY <1>3, <1>4, <1>5, <2>2 DEF Ordered, Pending, Entered, Fresh
    <2>4. /\ Path(frames') /\ Len(frames') = n
          /\ Opened(frames') = (opened \ {n}) \cup {k \in {n} : Entered(t)}
          /\ \A k \in 1..n - 1 : Decs(frames')[k] = Decs(frames)[k]
          /\ Decs(frames')[n] = Own(t, t.at) /\ Decs(frames)[n] = Own(Top, Top.at)
      BY <1>2, <1>4, <2>2, <2>3, UpdateDecs
    <2>5. Opened(frames') = opened \cup {n} /\ n \notin opened
      BY <1>2, <2>3, <2>4
    <2>6. Own(t, 0) = <<>> /\ Own(Top, 0) = <<>> /\ Top.at = 0
      BY <1>3, <2>2, <2>3, OwnBegin
    <2>7. Decs(frames')[n] = <<>> /\ Decs(frames)[n] = <<>>
      BY <2>3, <2>4, <2>6, Zenon
    <2>8. \A k \in 1..n : Decs(frames')[k] = Decs(frames)[k]
      <3> TAKE k \in 1..n
      <3>1. k = n \/ k \in 1..n - 1
        BY <1>2
      <3> QED
        BY <2>4, <2>7, <3>1
    <2>9. Match(n, Decs(frames'), opened, scope_stk, cur_offset, Globals)
      BY <1>2, <2>8, MatchSame
    <2>10. Match(n, Decs(frames'), opened \cup {n}, Append(scope_stk, Scope(cur_offset)),
                 cur_offset, Globals)
      BY <1>2, <1>3, <2>5, <2>7, <2>9, MatchPush
    <2>11. scope_stk' = Append(scope_stk, Scope(cur_offset)) /\ cur_offset' = cur_offset
      BY <1>5 DEF push_scope
    <2> QED
      BY <1>3, <2>4, <2>5, <2>10, <2>11, ScopesStep
  <1>6. CASE Top.loc = 0 /\ Descend(0, push_depth) /\ UNCHANGED scopeVars
    <2> DEFINE t == [Top EXCEPT !.at = @ + 1, !.loc = 0]
    <2>1. t = [Top EXCEPT !.at = @ + 1, !.loc = 0]
      OBVIOUS
    <2> HIDE DEF t
    <2>2. t.node = Top.node /\ t.loc = 0
      BY <1>1, <1>4, <2>1, Advanced
    <2>3. Ordered(t)
      BY <1>3, <2>2 DEF Ordered, Fresh
    <2>4. Idle("AST_BLOCK")
      BY <1>1, <1>6 DEF Idle
    <2> QED
      BY <1>4, <1>6, <2>1, <2>3, <2>4, IdleDescend
  <1>7. CASE Top.loc = 0 /\ pop_scope /\ Return
    <2>1. Entered(Top)
      BY <1>3, <1>7 DEF Entered, Fresh
    <2>2. /\ Path(frames') /\ Opened(frames') = opened \ {n}
          /\ \A k \in 1..m : Decs(frames')[k] = Decs(frames)[k]
      BY <1>2, <1>4, <1>7, ReturnDecs
    <2>3. Len(frames') = m /\ m \in Nat
      <3>1. Len(Front(frames)) = Len(frames) - 1
        BY <1>2, RemoveLast
      <3> QED
        BY <1>2, <1>7, <3>1 DEF Return
    <2>4. Match(m, Decs(frames), opened \ {n}, Front(scope_stk), Last(scope_stk).base_offset,
                Globals)
      BY <1>2, <1>3, <2>1, MatchPop
    <2>5. Match(m, Decs(frames'), opened \ {n}, scope_stk', cur_offset', Globals)
      <3>1. scope_stk' = Front(scope_stk) /\ cur_offset' = Last(scope_stk).base_offset
        BY <1>7 DEF pop_scope
      <3>2. Match(m, Decs(frames), opened \ {n}, scope_stk', cur_offset', Globals)
        BY <2>4, <3>1, Zenon
      <3> HIDE DEF m, opened, n
      <3> QED
        BY <2>2, <2>3, <3>2, MatchSame
    <2> QED
      BY <1>3, <2>2, <2>3, <2>5, ScopesStep
  <1> QED
    BY <1>5, <1>6, <1>7 DEF gen_block

LEMMA stmt_match ==
  ASSUME Inv, SpaceInv, ScopesInv, gen_stmt
  PROVE  ScopesInv'
  <1>0. Fresh \in Int /\ FramesInv /\ IInv
    BY DEF Fresh, Inv, IInv
  <1>1. CASE gen_return
    <2>1. /\ Running("AST_RETURN") /\ UNCHANGED <<walkVars, scopeVars>>
          /\ Return \/ Descend(Fresh, push_depth)
      BY <1>1 DEF gen_return
    <2>2. Idle("AST_RETURN") /\ Unscoped("AST_RETURN") /\ Moves
      BY <1>0, <2>1 DEF Idle, Unscoped, Moves
    <2> QED
      BY <2>2, IdleMoves
  <1>2. CASE gen_comment
    <2>1. Running("AST_COMMENT") /\ UNCHANGED <<walkVars, scopeVars>> /\ Return
      BY <1>2 DEF gen_comment
    <2>2. Idle("AST_COMMENT") /\ Unscoped("AST_COMMENT") /\ Moves
      BY <2>1 DEF Idle, Unscoped, Moves
    <2> QED
      BY <2>2, IdleMoves
  <1>3. CASE gen_if
    <2>1. Running("AST_IF") /\ UNCHANGED <<walkVars, scopeVars>>
      BY <1>3 DEF gen_if
    <2>2. label_count \in Int
      BY <2>1, InText DEF Inv
    <2>3. Top.loc \in Int
      BY <2>1, TopSpace
    <2>4. Idle("AST_IF") /\ Unscoped("AST_IF") /\ Moves
      BY <1>3, <2>1, <2>2, <2>3 DEF gen_if, Idle, Unscoped, Moves
    <2> QED
      BY <2>4, IdleMoves
  <1> QED
    BY <1>1, <1>2, <1>3, var_decl_match, block_match DEF gen_stmt

\* A frame that has declared nothing has none of the slots.
LEMMA MatchEmpty ==
  ASSUME NEW dec, dec[1] = <<>>, NEW opened, NEW stk, NEW off, NEW globals,
         Match(1, dec, opened, stk, off, globals)
  PROVE  off = 0
  <1>1. PICK live : IsLive(live, 1, dec) /\ off = -8 * Len(live[1])
    BY DEF Match, Holds
  <1>2. live[1] = <<>>
    <2>0. 1 \in 1..1 /\ 1 - 1 = 0
      OBVIOUS
    <2>1. live[0] = <<>> /\ live[1] = live[0] \o dec[1]
      BY <1>1, <2>0 DEF IsLive
    <2>2. live[1] = <<>> \o <<>>
      BY <2>1, Zenon
    <2> QED
      BY <2>2
  <1>3. Len(live[1]) = 0
    BY <1>2
  <1>4. ASSUME NEW m \in Int
        PROVE  m = 0 <=> -8 * m = 0
    OBVIOUS
  <1>5. PICK m \in Int : m = Len(live[1]) /\ m = 0
    BY <1>3
  <1>6. off = -8 * m
    BY <1>1, <1>5, Zenon
  <1> QED
    BY <1>4, <1>5, <1>6, Zenon

LEMMA func_match ==
  ASSUME Inv, SpaceInv, ScopesInv, gen_func_decl
  PROVE  ScopesInv'
  <1> DEFINE n == Top.node
             ps == Len(n.func_t.params)
             opened == Opened(frames)
             dec == Decs(frames)
  <1>1. Running("AST_FUNC_DECL")
    BY DEF gen_func_decl, gen_func_enter, gen_func_param, gen_func_stmt, gen_func_return
  <1>2. /\ FramesInv /\ frames # <<>> /\ Path(frames) /\ Len(frames) = 1
        /\ opened \subseteq 1..1 /\ frames \in Seq(frame_t)
        /\ \A k \in 1..1 : Within(frames[k])
        /\ 1 \in opened <=> Entered(Top)
        /\ dec[1] = Own(Top, Top.at)
        /\ Match(1, dec, opened, scope_stk, cur_offset, Globals)
    <2>1. Len(frames) = 1
      BY <1>1, TopSpace
    <2> QED
      BY <1>1, <2>1, TopScopes DEF FramesInv
  <1>3. /\ cur_offset \in Int /\ scope_stk \in Seq(ScopeType) /\ Len(scope_stk) > 0
        /\ n.type = "AST_FUNC_DECL" /\ n \in Node /\ Top.loc \in Int
        /\ Top = frames[1] /\ Top \in frame_t /\ Within(Top) /\ phase = "text"
        /\ ps \in Nat
    <2>1. WellFormed(n) /\ n.type = "AST_FUNC_DECL"
      BY <1>1, TopSpace
    <2> QED
      BY <1>1, <1>2, <2>1, TopSpace DEF WellFormed
  <1>4. ~Pending(Top) /\ Ordered(Top) /\ 0 \in Int
    BY <1>2, <1>3 DEF Pending, Path
  <1>5. std_compile_error => ScopesInv'
    BY ScopesError
  <1>6. CASE gen_func_enter
    <2>1. /\ Top.loc = Fresh /\ SetLoc(0) /\ phase' = "text" /\ UNCHANGED program
          /\ cur_offset' = 0 /\ scope_stk' = Append(scope_stk, Scope(0))
      BY <1>3, <1>6 DEF gen_func_enter, walkVars
    <2> DEFINE t == [Top EXCEPT !.loc = 0]
    <2>2. t = [Top EXCEPT !.loc = 0]
      OBVIOUS
    <2> HIDE DEF t
    <2>3. /\ t \in frame_t /\ t.node = n /\ t.at = Top.at /\ t.loc = 0
          /\ frames' = [frames EXCEPT ![Len(frames)] = t]
      BY <1>2, <1>4, <2>1, <2>2, SettingLoc
    <2>4. Top.at = 0 /\ t.at = 0
      BY <1>3, <1>4, <2>1, <2>3 DEF Ordered, Fresh
    <2>5. Ordered(t) /\ ~Pending(t) /\ Entered(t) /\ ~Entered(Top)
      BY <1>3, <2>1, <2>3, <2>4 DEF Ordered, Pending, Entered, Fresh
    <2>6. /\ Path(frames') /\ Len(frames') = 1
          /\ Opened(frames') = (opened \ {1}) \cup {k \in {1} : Entered(t)}
          /\ Decs(frames')[1] = Own(t, t.at)
      BY <1>2, <1>4, <2>3, <2>5, UpdateDecs
    <2>7. Opened(frames') = opened \cup {1} /\ 1 \notin opened
      BY <1>2, <2>5, <2>6
    <2>8. Own(t, 0) = Own(Top, 0) /\ Own(Top, 0) = <<>>
      <3>1. Stored(t) = 0 /\ Stored(Top) = 0
        BY <2>1, <2>3 DEF Stored
      <3>2. Own(t, 0) = Own(Top, 0)
        BY <2>3, <3>1, OwnOf
      <3> QED
        BY <1>3, <2>1, <3>2, OwnBegin
    <2>9. Decs(frames')[1] = <<>> /\ dec[1] = <<>>
      BY <1>2, <2>4, <2>6, <2>8, Zenon
    <2>10. Match(1, Decs(frames'), opened, scope_stk, 0, Globals)
      <3>1. cur_offset = 0
        <4> HIDE DEF dec, opened
        <4> QED
          BY <1>2, <2>9, MatchEmpty
      <3>2. Match(1, dec, opened, scope_stk, 0, Globals)
        BY <1>2, <3>1, Zenon
      <3>3. \A k \in 1..1 : Decs(frames')[k] = dec[k]
        BY <2>9
      <3> HIDE DEF dec, opened
      <3> QED
        BY <3>2, <3>3, MatchSame
    <2>11. Match(1, Decs(frames'), opened \cup {1}, Append(scope_stk, Scope(0)), 0, Globals)
      <3> HIDE DEF dec, opened
      <3> QED
        BY <1>2, <1>3, <2>7, <2>9, <2>10, MatchPush
    <2> QED
      BY <2>1, <2>6, <2>7, <2>11, ScopesStep
  <1>7. CASE gen_func_param /\ ~std_compile_error
    <2> DEFINE k == Top.loc + 1
               x == n.func_t.params[k].ident.name
    <2>1. /\ Top.loc \in 0..ps - 1 /\ define_local(x) /\ SetLoc(k)
          /\ phase' = "text" /\ UNCHANGED program
      BY <1>3, <1>7 DEF gen_func_param, walkVars
    <2>2. /\ k \in 1..ps /\ k \in Int /\ Top.loc # Fresh /\ k # Fresh /\ Top.loc = k - 1
          /\ Top.loc # ps
      <3> HIDE DEF ps
      <3>1. Top.loc \in 0..ps - 1 /\ ps \in Nat
        BY <1>3, <2>1
      <3>2. Top.loc \in Int /\ 0 <= Top.loc /\ Top.loc < ps /\ Fresh = -1
        BY ONLY <3>1 DEF Fresh
      <3>3. k \in Int /\ 1 <= k /\ k <= ps
        BY ONLY <3>1, <3>2
      <3>4. Top.loc = k - 1
        BY ONLY <3>2
      <3>5. Top.loc # Fresh /\ Top.loc # ps
        BY ONLY <3>1, <3>2
      <3> HIDE DEF k
      <3>6. k \in 1..ps /\ k # Fresh
        BY ONLY <3>1, <3>2, <3>3
      <3> QED
        BY <3>3, <3>4, <3>5, <3>6
    <2>3. cur_offset' = cur_offset - 8 /\ cur_offset' \in Int
      BY <1>3, <2>1 DEF define_local
    <2>4. scope_stk' = [scope_stk EXCEPT ![Len(scope_stk)].symbols[x] =
                          [kind |-> "local", off |-> cur_offset - 8]]
      BY <2>1, <2>3 DEF define_local, Define
    <2>5. x \in Name
      <3>1. WellFormed(n)
        BY <1>3, ProgramsAssumption
      <3>2. \A j \in 1..ps : n.func_t.params[j].ident.name \in Name
        <4> SUFFICES ASSUME NEW j \in 1..ps
                     PROVE  n.func_t.params[j].ident.name \in Name
          OBVIOUS
        <4> QED
          BY <1>3, <3>1 DEF WellFormed, Idents
      <3> QED
        BY <2>2, <3>2
    <2> DEFINE t == [Top EXCEPT !.loc = k]
    <2>6. t = [Top EXCEPT !.loc = k]
      OBVIOUS
    <2> HIDE DEF t
    <2>7. /\ t \in frame_t /\ t.node = n /\ t.at = Top.at /\ t.loc = k
          /\ frames' = [frames EXCEPT ![Len(frames)] = t]
      BY <1>2, <2>1, <2>2, <2>6, SettingLoc
    <2>8. Top.at = 0 /\ t.at = 0
      BY <1>3, <1>4, <2>2, <2>7 DEF Ordered
    <2>9. Ordered(t) /\ ~Pending(t) /\ Entered(t) /\ Entered(Top)
      <3> HIDE DEF k
      <3> QED
        BY <1>3, <2>2, <2>7, <2>8 DEF Ordered, Pending, Entered
    <2>10. /\ Path(frames') /\ Len(frames') = 1
           /\ Opened(frames') = (opened \ {1}) \cup {j \in {1} : Entered(t)}
           /\ Decs(frames')[1] = Own(t, t.at)
      BY <1>2, <1>4, <2>7, <2>9, UpdateDecs
    <2>11. Opened(frames') = opened /\ 1 \in opened
      BY <1>2, <2>9, <2>10
    <2>12. Own(t, 0) = Append(Own(Top, 0), x)
      <3> HIDE DEF k
      <3> QED
        BY <1>3, <2>2, <2>7, OwnParam
    <2>13. Decs(frames')[1] = Append(dec[1], x)
      BY <1>2, <2>8, <2>10, <2>12, Zenon
    <2>14. dec[1] \in Seq(Name)
      BY <1>2, DecsTyped DEF DecTyped
    <2>15. Match(1, Decs(frames'), opened, scope_stk', cur_offset - 8, Globals)
      <3>1. \A j \in 1..1 - 1 : Decs(frames')[j] = dec[j]
        OBVIOUS
      <3> HIDE DEF dec, opened, x
      <3> QED
        BY <1>2, <1>3, <2>4, <2>5, <2>11, <2>13, <2>14, <3>1, MatchDeclare
    <2> QED
      BY <2>1, <2>3, <2>10, <2>11, <2>15, ScopesStep
  <1>8. CASE gen_func_stmt
    <2>1. UNCHANGED <<walkVars, scopeVars>> /\ Descend(Top.loc, push_depth) /\ Top.loc = ps
      BY <1>8 DEF gen_func_stmt, AllParams
    <2>2. PICK l \in Int : l = Top.loc
      BY <1>3
    <2> DEFINE t == [Top EXCEPT !.at = @ + 1, !.loc = l]
    <2>3. t = [Top EXCEPT !.at = @ + 1, !.loc = l]
      OBVIOUS
    <2> HIDE DEF t
    <2>4. t.node = n /\ t.loc = ps
      <3>1. t.node = Top.node /\ t.loc = l
        BY <1>1, <2>3, Advanced
      <3> QED
        BY <2>1, <2>2, <3>1
    <2>5. Ordered(t)
      BY <1>3, <2>4 DEF Ordered
    <2>6. Idle("AST_FUNC_DECL")
      BY <1>1, <2>1 DEF Idle
    <2>7. Descend(l, push_depth)
      BY <2>1, <2>2
    <2> QED
      BY <1>4, <2>2, <2>3, <2>5, <2>6, <2>7, IdleDescend
  <1>9. CASE gen_func_return
    <2>1. /\ pop_scope /\ Return /\ phase' = "text" /\ UNCHANGED program /\ Top.loc = ps
      BY <1>3, <1>9 DEF gen_func_return, walkVars, AllParams
    <2>2. Entered(Top)
      BY <1>3, <2>1 DEF Entered, Fresh
    <2>3. Path(frames') /\ Opened(frames') = opened \ {1}
      BY <1>2, <2>1, ReturnDecs
    <2>4. Len(frames') = 0
      <3>1. Len(Front(frames)) = Len(frames) - 1
        BY <1>2, RemoveLast
      <3> QED
        BY <1>2, <2>1, <3>1 DEF Return
    <2>5. Match(1 - 1, dec, opened \ {1}, Front(scope_stk), Last(scope_stk).base_offset, Globals)
      <3> HIDE DEF dec, opened
      <3> QED
        BY <1>2, <1>3, <2>2, MatchPop
    <2>6. Match(0, Decs(frames'), opened \ {1}, scope_stk', cur_offset', Globals)
      <3>1. scope_stk' = Front(scope_stk) /\ cur_offset' = Last(scope_stk).base_offset /\ 1 - 1 = 0
        BY <2>1 DEF pop_scope
      <3>2. Match(0, dec, opened \ {1}, scope_stk', cur_offset', Globals)
        BY <2>5, <3>1
      <3>3. \A j \in 1..0 : Decs(frames')[j] = dec[j]
        OBVIOUS
      <3> HIDE DEF dec, opened
      <3> QED
        BY <3>2, <3>3, MatchSame
    <2> QED
      BY <2>1, <2>3, <2>4, <2>6, ScopesStep
  <1> QED
    BY <1>5, <1>6, <1>7, <1>8, <1>9 DEF gen_func_decl

\* With no frame there is nothing but the scope of the globals.
LEMMA MatchBegin ==
  ASSUME NEW dec
  PROVE  Match(0, dec, {}, <<Scope(0)>>, 0, {})
  <1> DEFINE live == [k \in 0..0 |-> <<>>]
             e == [j \in 1..1 |-> 0]
             stk == <<Scope(0)>>
  <1>1. live[0] = <<>> /\ e[1] = 0 /\ Len(stk) = 1 /\ stk[1] = Scope(0)
    OBVIOUS
  <1>2. IsLive(live, 0, dec)
    <2>1. <<>> \in Seq(Name)
      OBVIOUS
    <2> QED
      BY <1>1, <2>1 DEF IsLive
  <1>3. Opens(e, Len(stk), {})
    BY <1>1 DEF Opens
  <1>4. 0 = -8 * Len(live[0])
    <2>1. PICK m \in Int : m = Len(live[0]) /\ m = 0
      BY <1>1
    <2>2. m = 0 <=> -8 * m = 0
      OBVIOUS
    <2> QED
      BY <2>1, <2>2, Zenon
  <1>5. \A x \in Name : stk[1].symbols[x] = NoSymbol
    BY <1>1 DEF Scope
  <1>6. 2..Len(stk) = {}
    BY <1>1
  <1> HIDE DEF live, e, stk
  <1>7. Match(0, dec, {}, stk, 0, {})
    BY <1>2, <1>3, <1>4, <1>5, <1>6 DEF Match, Holds
  <1> QED
    BY <1>7 DEF stk

LEMMA MatchGlobal ==
  ASSUME NEW dec, NEW dec2, NEW stk \in Seq(ScopeType), Len(stk) = 1, NEW off, NEW globals,
         Match(0, dec, {}, stk, off, globals), NEW x \in Name,
         NEW stk2, stk2 = [stk EXCEPT ![Len(stk)].symbols[x] = GlobalSymbol]
  PROVE  Match(0, dec2, {}, stk2, off, globals \cup {x})
  <1>1. PICK live, e :
          /\ IsLive(live, 0, dec)
          /\ Opens(e, Len(stk), {})
          /\ off = -8 * Len(live[0])
          /\ \A y \in Name : stk[1].symbols[y] = IF y \in globals THEN GlobalSymbol ELSE NoSymbol
    BY DEF Match, Holds
  <1>2. IsLive(live, 0, dec2)
    BY <1>1 DEF IsLive
  <1>3. PICK sc \in ScopeType : sc = stk[1]
    OBVIOUS
  <1>4. sc.symbols \in [Name -> symbol_t]
    BY DEF ScopeType
  <1> DEFINE t == [sc EXCEPT !.symbols = [sc.symbols EXCEPT ![x] = GlobalSymbol]]
  <1>7. t.symbols = [sc.symbols EXCEPT ![x] = GlobalSymbol]
    BY DEF ScopeType
  <1>8. \A y \in Name : t.symbols[y] = IF y = x THEN GlobalSymbol ELSE sc.symbols[y]
    BY <1>4, <1>7
  <1>9. stk2 = [stk EXCEPT ![1] = t]
    BY <1>3
  <1> HIDE DEF t
  <1>10. Len(stk2) = 1 /\ stk2[1] = t
    <2> HIDE DEF ScopeType
    <2> QED
      BY <1>9
  <1>5. \A y \in Name :
          stk2[1].symbols[y] = IF y \in globals \cup {x} THEN GlobalSymbol ELSE NoSymbol
    <2> SUFFICES ASSUME NEW y \in Name
                 PROVE  t.symbols[y] = IF y \in globals \cup {x} THEN GlobalSymbol ELSE NoSymbol
      BY <1>10
    <2>1. sc.symbols[y] = IF y \in globals THEN GlobalSymbol ELSE NoSymbol
      BY <1>1, <1>3
    <2>2. t.symbols[y] = IF y = x THEN GlobalSymbol ELSE sc.symbols[y]
      BY <1>8
    <2> QED
      BY <2>1, <2>2
  <1>6. Len(stk2) = 1 /\ 2..1 = {}
    BY <1>10
  <1> QED
    BY <1>1, <1>2, <1>5, <1>6, <1>10 DEF Match, Holds

\* gen_program outside the functions.
Fits == Match(0, Decs(<<>>), {}, scope_stk, cur_offset, Known)
Outside == frames' = <<>> /\ phase' \in {"data", "text"}

LEMMA MatchOutside ==
  ASSUME Outside, Fits'
  PROVE  ScopesInv'
  <1>1. Len(frames') = 0
    BY DEF Outside
  <1>2. Opened(frames') = {} /\ Path(frames')
    BY <1>1 DEF Opened, Path
  <1>3. Match(0, Decs(frames'), {}, scope_stk', cur_offset', Known')
    BY DEF Outside, Fits
  <1>4. Match(Len(frames'), Decs(frames'), Opened(frames'), scope_stk', cur_offset', Known')
    BY <1>1, <1>2, <1>3
  <1>5. phase' # "start"
    BY DEF Outside
  <1>6. Scoped'
    BY <1>4 DEF Scoped
  <1> QED
    BY <1>2, <1>5, <1>6 DEF ScopesInv

LEMMA program_match ==
  ASSUME Inv, SpaceInv, ScopesInv, gen_program
  PROVE  ScopesInv'
  <1> DEFINE dec == Decs(<<>>)
  <1>1. /\ cur_offset \in Int /\ scope_stk \in Seq(ScopeType)
        /\ phase = "start" => scope_stk = <<>> /\ cur_offset = 0 /\ i = 1
        /\ phase = "data" => Len(scope_stk) = 1
        /\ phase \in {"start", "data", "done"} => frames = <<>>
        /\ program \in Seq(Node) /\ i \in Nat /\ i > 0
    BY ProgramsAssumption DEF Inv, IInv, ScopeInv, SpaceInv, WalkInv, ScopesInv
  <1>2. \A k \in DOMAIN program : IsGlobal(k) => program[k].ident.name \in Name
    <2> SUFFICES ASSUME NEW k \in DOMAIN program, IsGlobal(k)
                 PROVE  program[k].ident.name \in Name
      OBVIOUS
    <2>1. program[k] \in Node /\ program[k].type = "AST_VAR_DECL"
      BY <1>1 DEF IsGlobal
    <2> QED
      BY <2>1, ProgramsAssumption DEF WellFormed, Idents
  <1>3. ASSUME frames = <<>>, phase \in {"data", "text"}
        PROVE  Match(0, dec, {}, scope_stk, cur_offset, Known)
    <2>1. Len(frames) = 0 /\ Opened(frames) = {}
      BY <1>3 DEF Opened
    <2>2. Match(0, Decs(frames), {}, scope_stk, cur_offset, Known)
      BY <1>3, <2>1 DEF ScopesInv, Scoped
    <2> QED
      BY <1>3, <2>2
  <1>4. ASSUME phase = "start", push_scope, UNCHANGED cur_offset
        PROVE  Match(0, dec, {}, scope_stk', cur_offset', {})
    <2>1. scope_stk' = <<Scope(0)>> /\ cur_offset' = 0
      BY <1>1, <1>4 DEF push_scope
    <2> QED
      BY <2>1, MatchBegin
  <1>5. CASE StartData
    <2>1. Outside /\ phase' = "data" /\ i' = 1 /\ program' = program
      BY <1>1, <1>5 DEF StartData, Outside
    <2>2. Known' = {}
      <3>1. {j \in DOMAIN program : IsGlobal(j) /\ j < 1} = {}
        BY <1>1
      <3>2. Known' = {program[k].ident.name : k \in {j \in DOMAIN program : IsGlobal(j) /\ j < 1}}
        BY <2>1 DEF Known, Defined, IsGlobal
      <3> QED
        BY <3>1, <3>2
    <2>3. Match(0, dec, {}, scope_stk', cur_offset', {})
      BY <1>4, <1>5 DEF StartData
    <2> QED
      BY <2>1, <2>2, <2>3, MatchOutside DEF Fits
  <1>6. CASE DataStep
    <2>1. /\ Outside /\ phase' = "data" /\ i' = i + 1 /\ program' = program
          /\ phase = "data" /\ IsGlobal(i) /\ i \in DOMAIN program
          /\ define_global(program[i].ident.name)
      BY <1>1, <1>6 DEF DataStep, gen_global, Outside
    <2>2. Known' = Known \cup {program[i].ident.name}
      <3> DEFINE S(m) == {j \in DOMAIN program : IsGlobal(j) /\ j < m}
      <3>1. S(i + 1) = S(i) \cup {i}
        BY <1>1, <2>1
      <3>2. Known = {program[k].ident.name : k \in S(i)}
        BY <2>1 DEF Known, Defined
      <3>3. Known' = {program[k].ident.name : k \in S(i + 1)}
        BY <2>1 DEF Known, Defined, IsGlobal
      <3> HIDE DEF S
      <3> QED
        BY <3>1, <3>2, <3>3
    <2>3. /\ cur_offset' = cur_offset
          /\ scope_stk' = [scope_stk EXCEPT ![Len(scope_stk)].symbols[program[i].ident.name] =
                             GlobalSymbol]
      BY <2>1 DEF define_global, Define, GlobalSymbol
    <2>4. Match(0, dec, {}, scope_stk, cur_offset, Known)
      BY <1>1, <1>3, <2>1
    <2>5. program[i].ident.name \in Name
      BY <1>2, <2>1
    <2>6. Match(0, dec, {}, scope_stk', cur_offset, Known \cup {program[i].ident.name})
      <3> HIDE DEF dec
      <3> QED
        BY <1>1, <2>1, <2>3, <2>4, <2>5, MatchGlobal
    <2> QED
      BY <2>1, <2>2, <2>3, <2>6, MatchOutside DEF Fits
  <1>7. CASE DataSkip
    <2>1. /\ Outside /\ phase' = "data" /\ i' = i + 1 /\ program' = program
          /\ phase = "data" /\ ~IsGlobal(i) /\ UNCHANGED scopeVars
      BY <1>1, <1>7 DEF DataSkip, Outside
    <2>2. Known' = Known
      <3> DEFINE S(m) == {j \in DOMAIN program : IsGlobal(j) /\ j < m}
      <3>1. S(i + 1) = S(i)
        BY <1>1, <2>1
      <3>2. Known = {program[k].ident.name : k \in S(i)}
        BY <2>1 DEF Known, Defined
      <3>3. Known' = {program[k].ident.name : k \in S(i + 1)}
        BY <2>1 DEF Known, Defined, IsGlobal
      <3> HIDE DEF S
      <3> QED
        BY <3>1, <3>2, <3>3
    <2>3. Match(0, dec, {}, scope_stk, cur_offset, Known)
      BY <1>1, <1>3, <2>1
    <2> QED
      BY <2>1, <2>2, <2>3, MatchOutside DEF Fits, scopeVars
  <1>8. CASE StartText
    <2>1. Outside /\ phase' = "text" /\ program' = program /\ cur_offset' = cur_offset
      BY <1>1, <1>8 DEF StartText, Outside
    <2>2. Known' = Globals
      BY <2>1 DEF Known, Globals, IsGlobal
    <2>3. CASE phase = "start" /\ (~\E k \in DOMAIN program : IsGlobal(k)) /\ push_scope
      <3>1. Globals = {}
        BY <2>3 DEF Globals
      <3>2. Match(0, dec, {}, scope_stk', cur_offset', {})
        BY <1>4, <2>1, <2>3
      <3> QED
        BY <2>1, <2>2, <3>1, <3>2, MatchOutside DEF Fits
    <2>4. CASE phase = "data" /\ i > Len(program) /\ UNCHANGED scope_stk
      <3>1. {j \in DOMAIN program : IsGlobal(j) /\ j < i} = {j \in DOMAIN program : IsGlobal(j)}
        BY <1>1, <2>4
      <3>2. Known = Globals
        BY <2>4, <3>1 DEF Known, Defined, Globals
      <3>3. Match(0, dec, {}, scope_stk, cur_offset, Known)
        BY <1>1, <1>3, <2>4
      <3> QED
        BY <2>1, <2>2, <2>4, <3>2, <3>3, MatchOutside DEF Fits
    <2> QED
      BY <1>8, <2>3, <2>4 DEF StartText
  <1>9. CASE TextStep
    <2>1. /\ phase = "text" /\ phase' = "text" /\ UNCHANGED scopeVars /\ program' = program
          /\ frames = <<>> /\ i \in DOMAIN program
      BY <1>1, <1>9 DEF TextStep
    <2>2. Known = Globals /\ Known' = Globals
      BY <2>1 DEF Known, Globals, IsGlobal
    <2>3. Match(0, dec, {}, scope_stk', cur_offset', Globals)
      BY <1>3, <2>1, <2>2 DEF scopeVars
    <2> DEFINE f == Frame(program[i], push_depth)
    <2>4. CASE frames' = <<>>
      BY <2>1, <2>2, <2>3, <2>4, MatchOutside DEF Fits, Outside
    <2>5. CASE frames' = <<f>>
      <3>1. f.at = 0 /\ f.loc = Fresh /\ f.node = program[i]
        BY DEF Frame
      <3> HIDE DEF f
      <3>2. Len(frames') = 1 /\ frames'[1] = f /\ program[i] \in Node
        BY <1>1, <2>1, <2>5
      <3>3. Path(frames') /\ Opened(frames') = {}
        BY <3>1, <3>2 DEF Path, Ordered, Opened, Entered
      <3>4. Decs(frames')[1] = <<>>
        <4>1. Decs(frames')[1] = Own(frames'[1], Reached(frames', 1))
          BY <3>2, DecsAt
        <4>2. Reached(frames', 1) = 0
          BY <3>1, <3>2 DEF Reached, Undefined
        <4>3. Own(f, 0) = <<>>
          BY <3>1, <3>2, OwnBegin
        <4> QED
          BY <3>2, <4>1, <4>2, <4>3, Zenon
      <3>5. Match(1, Decs(frames'), {}, scope_stk', cur_offset', Globals)
        <4>1. Match(0, Decs(frames'), {}, scope_stk', cur_offset', Globals)
          BY <2>3, MatchSame
        <4>2. Decs(frames')[0 + 1] = <<>>
          BY <3>4
        <4>3. Match(0 + 1, Decs(frames'), {}, scope_stk', cur_offset', Globals)
          BY <4>1, <4>2, MatchGrow
        <4> QED
          BY <4>3
      <3> QED
        BY <2>1, <3>2, <3>3, <3>5, ScopesStep
    <2> QED
      BY <1>9, <2>4, <2>5 DEF TextStep
  <1>10. CASE FinishProgram
    BY <1>10 DEF FinishProgram, ScopesInv, Scoped
  <1> QED
    BY <1>5, <1>6, <1>7, <1>8, <1>9, <1>10 DEF gen_program

LEMMA ScopesKept ==
  ASSUME Inv, SpaceInv, ScopesInv, [Next]_vars
  PROVE  ScopesInv'
  <1>1. CASE UNCHANGED vars
    BY <1>1 DEF vars, walkVars, scopeVars, ScopesInv, Scoped, Known, Defined, Globals, IsGlobal
  <1> QED
    BY <1>1, expr_match, stmt_match, func_match, program_match DEF Next, Generate, Terminated

-----------------------------------------------------------------------------
(* The property *)

\* What n frames declare is one sequence.
Follows(f, n, dec) == f[0] = <<>> /\ \A k \in 1..n : f[k] = f[k-1] \o dec[k]

LEMMA LiveOnce ==
  ASSUME NEW n \in Nat, NEW dec, NEW live, IsLive(live, n, dec),
         NEW other, Follows(other, n, dec)
  PROVE  other[n] = live[n]
  <1> DEFINE Bad == {k \in 0..n : other[k] # live[k]}
  <1> SUFFICES ASSUME Bad # {}
               PROVE  FALSE
    OBVIOUS
  <1>1. Bad \subseteq Nat
    OBVIOUS
  <1>2. /\ live[0] = <<>> /\ \A k \in 1..n : live[k] = live[k-1] \o dec[k]
        /\ other[0] = <<>> /\ \A k \in 1..n : other[k] = other[k-1] \o dec[k]
    BY DEF IsLive, Follows
  <1> HIDE DEF Bad
  <1>3. PICK k \in Bad : \A m \in Bad : k <= m
    BY <1>1, Least
  <1>4. k \in 0..n /\ other[k] # live[k]
    BY <1>3 DEF Bad
  <1>5. k # 0
    BY <1>2, <1>4, Zenon
  <1>6. k \in 1..n /\ k - 1 \in 0..n /\ ~(k <= k - 1)
    BY <1>4, <1>5
  <1>7. other[k-1] = live[k-1]
    BY <1>3, <1>6 DEF Bad
  <1>8. other[k] = other[k-1] \o dec[k] /\ live[k] = live[k-1] \o dec[k]
    BY <1>2, <1>6
  <1> QED
    BY <1>4, <1>7, <1>8, Zenon

LEMMA DeclaredIs ==
  ASSUME Len(frames) \in Nat, NEW k \in 1..Len(frames)
  PROVE  DeclaredBy(k) = Decs(frames)[k]
  <1> DEFINE fr == frames[k]
             stored == IF fr.node.type = "AST_FUNC_DECL" /\ fr.loc # Fresh THEN fr.loc ELSE 0
             params == [j \in 1..stored |-> fr.node.func_t.params[j].ident.name]
             reached == Reached(frames, k)
  <1>1. DeclaredBy(k) = IF fr.node.type \in {"AST_FUNC_DECL", "AST_BLOCK"}
                        THEN params \o LetsOf(fr.node)[reached] ELSE <<>>
    BY DEF DeclaredBy, Reached, Undefined
  <1>2. stored = IF fr.node.type = "AST_FUNC_DECL" THEN Stored(fr) ELSE 0
    BY DEF Stored
  <1>3. params = Params(fr)
    BY <1>2 DEF Params
  <1>4. Decs(frames)[k] = Own(fr, reached)
    BY DecsAt
  <1> HIDE DEF params, reached
  <1> QED
    BY <1>1, <1>3, <1>4 DEF Own

LEMMA LiveIs ==
  ASSUME Len(frames) \in Nat, NEW live, IsLive(live, Len(frames), Decs(frames))
  PROVE  Live = live[Len(frames)]
  <1> DEFINE n == Len(frames)
             none == <<>>
             Unfolds(f) == f = [k \in 0..n |-> IF k = 0 THEN none ELSE f[k-1] \o DeclaredBy(k)]
             g == [k \in 0..n |-> live[k]]
  <1>1. \A k \in 1..n : DeclaredBy(k) = Decs(frames)[k]
    BY DeclaredIs
  <1>2. live[0] = none /\ \A k \in 1..n : live[k] = live[k-1] \o Decs(frames)[k]
    BY DEF IsLive
  <1>3. Live = (CHOOSE f : Unfolds(f))[n]
    BY DEF Live
  <1> HIDE DEF n, none
  <1>4. n \in Nat
    BY DEF n
  <1>5. Unfolds(g)
    <2> DEFINE h == [k \in 0..n |-> IF k = 0 THEN none ELSE g[k-1] \o DeclaredBy(k)]
    <2>1. ASSUME NEW k \in 0..n
          PROVE  g[k] = h[k]
      <3>1. CASE k = 0
        BY <1>2, <3>1
      <3>2. CASE k # 0
        <4>1. k \in 1..n /\ k - 1 \in 0..n
          BY <1>4, <3>2
        <4>2. live[k] = live[k-1] \o DeclaredBy(k)
          BY <1>1, <1>2, <4>1
        <4>3. g[k] = live[k] /\ g[k-1] = live[k-1] /\ h[k] = g[k-1] \o DeclaredBy(k)
          BY <3>2, <4>1
        <4> QED
          BY <4>2, <4>3, Zenon
      <3> QED
        BY <3>1, <3>2
    <2>2. g = [k \in 0..n |-> g[k]]
      OBVIOUS
    <2> QED
      BY <2>1, <2>2
  <1> DEFINE ls == CHOOSE f : Unfolds(f)
  <1>6. Unfolds(ls)
    <2> HIDE DEF Unfolds
    <2> QED
      BY <1>5
  <1>7. /\ ls[0] = none
        /\ \A k \in 1..n : ls[k] = ls[k-1] \o Decs(frames)[k]
    <2> HIDE DEF ls
    <2>1. 0 \in 0..n /\ \A k \in 1..n : k \in 0..n /\ k # 0
      BY <1>4
    <2>2. \A k \in 1..n : ls[k] = ls[k-1] \o DeclaredBy(k)
      BY <1>6, <2>1
    <2>3. ls[0] = none
      BY <1>6, <2>1
    <2> QED
      BY <1>1, <2>2, <2>3
  <1>8. ls[n] = live[n]
    <2> HIDE DEF ls
    <2>1. IsLive(live, n, Decs(frames))
      BY DEF n
    <2>2. Follows(ls, n, Decs(frames))
      BY <1>7 DEF Follows, none
    <2> QED
      BY <1>4, <2>1, <2>2, LiveOnce
  <1> QED
    BY <1>3, <1>8 DEF n

\* The places where a name is declared.
LEMMA LastIs ==
  ASSUME NEW s \in Seq(Name), NEW x
  PROVE  LET decls == {k \in DOMAIN s : s[k] = x}
         IN /\ NeverFrom(s, 0, x) => decls = {}
            /\ \A p \in Nat : LastFrom(s, 0, x, p) => decls # {} /\ Max(decls) = p
  <1> DEFINE decls == {k \in DOMAIN s : s[k] = x}
  <1>1. decls \subseteq Int
    OBVIOUS
  <1>2. NeverFrom(s, 0, x) => decls = {}
    BY DEF NeverFrom
  <1>3. ASSUME NEW p \in Nat, LastFrom(s, 0, x, p)
        PROVE  p \in decls /\ \A k \in decls : p >= k
    BY <1>3 DEF LastFrom
  <1> HIDE DEF decls
  <1>4. ASSUME NEW p \in Nat, LastFrom(s, 0, x, p)
        PROVE  decls # {} /\ Max(decls) = p
    <2>1. p \in decls /\ \A k \in decls : p >= k
      BY <1>3, <1>4
    <2> QED
      BY <1>1, <2>1, MaxIs
  <1> QED
    BY <1>2, <1>4 DEF decls

LEMMA ScopesMean ==
  ASSUME Inv, ScopesInv, \A k \in 1..Len(frames) : Within(frames[k])
  PROVE  LexicalScoping
  <1> SUFFICES ASSUME InBody, ~Halted
               PROVE  /\ cur_offset = -8 * Len(Live)
                      /\ \A x \in Name :
                           LET decls == {k \in DOMAIN Live : Live[k] = x}
                           IN find_symbol(x) = IF decls # {} THEN LocalAt(Max(decls))
                                               ELSE IF x \in Globals THEN GlobalSymbol
                                               ELSE NoSymbol
    BY DEF LexicalScoping, LocalAt, GlobalSymbol
  <1> DEFINE n == Len(frames)
             dec == Decs(frames)
             opened == Opened(frames)
  <1>1. /\ phase = "text" /\ frames # <<>> /\ FramesInv /\ frames \in Seq(frame_t)
        /\ frames[1].loc # Fresh /\ scope_stk \in Seq(ScopeType) /\ Path(frames)
    BY DEF InBody, Halted, Inv, IInv, WalkInv, FramesInv, ScopeInv, ScopesInv
  <1>2. n \in Nat /\ opened \subseteq 1..n
    BY <1>1 DEF Opened
  <1>3. Match(n, dec, opened, scope_stk, cur_offset, Globals)
    BY <1>1 DEF ScopesInv, Scoped, Known
  <1>4. DecTyped(dec, n)
    BY <1>1, DecsTyped
  <1>5. DecsIn(dec, n, opened)
    <2>1. \A l \in 1..n : frames[l].node.type = "AST_FUNC_DECL" <=> l = 1
      BY <1>1 DEF FramesInv, IsWalk
    <2> QED
      BY <1>1, <2>1, DecsOpened DEF DecsIn
  <1>6. PICK live, e :
          Holds(n, dec, opened, scope_stk, cur_offset, Globals, live, e)
    BY <1>3 DEF Match
  <1>10. IsLive(live, n, dec) /\ cur_offset = -8 * Len(live[n])
    BY <1>6 DEF Holds
  <1>7. Live = live[n]
    BY <1>2, <1>10, LiveIs
  <1>8. live[n] \in Seq(Name)
    BY <1>2, <1>10 DEF IsLive
  <1>9. ASSUME NEW x \in Name
        PROVE  LET decls == {k \in DOMAIN Live : Live[k] = x}
               IN find_symbol(x) = IF decls # {} THEN LocalAt(Max(decls))
                                   ELSE IF x \in Globals THEN GlobalSymbol
                                   ELSE NoSymbol
    <2> DEFINE s == live[n]
               decls == {k \in DOMAIN s : s[k] = x}
    <2>1. Finds(s, Globals, x)
      <3> HIDE DEF n, dec, opened
      <3> QED
        BY <1>1, <1>2, <1>4, <1>5, <1>6, Lookup
    <2>2. /\ NeverFrom(s, 0, x) => decls = {}
          /\ \A p \in Nat : LastFrom(s, 0, x, p) => decls # {} /\ Max(decls) = p
      BY <1>8, LastIs
    <2> HIDE DEF decls
    <2>3. find_symbol(x) = IF decls # {} THEN LocalAt(Max(decls))
                           ELSE IF x \in Globals THEN GlobalSymbol ELSE NoSymbol
      BY <2>1, <2>2 DEF Finds
    <2> QED
      BY <1>7, <2>3, Zenon DEF decls
  <1> QED
    BY <1>7, <1>9, <1>10

LEMMA ScopesBegin ==
  ASSUME Init
  PROVE  SpaceInv /\ ScopesInv
  <1>1. /\ cur_offset = 0 /\ Len(scope_stk) = 0 /\ Len(frames) = 0 /\ frames = <<>>
        /\ phase = "start" /\ i = 1
    BY DEF Init
  <1>2. Nested(scope_stk, cur_offset)
    BY <1>1 DEF Nested
  <1>3. SpaceInv
    BY <1>1, <1>2 DEF SpaceInv, InBody
  <1>4. ScopesInv
    BY <1>1 DEF ScopesInv, Scoped, Path
  <1> QED
    BY <1>3, <1>4

(***************************************************************************)
(* Lexical scoping, for every program: a name is resolved to its innermost *)
(* live declaration, the live declarations own consecutive slots below     *)
(* %rbp, and a name declared by no block in progress is the global of that *)
(* name or unknown, however blocks and ifs nest, shadow and redeclare.     *)
(***************************************************************************)
THEOREM ScopesAreLexical == Spec => []LexicalScoping
  <1>1. Init => SpaceInv /\ ScopesInv
    BY ScopesBegin
  <1>2. Inv /\ SpaceInv /\ ScopesInv /\ [Next]_vars => SpaceInv' /\ ScopesInv'
    BY SpaceKept, ScopesKept
  <1>3. Inv /\ SpaceInv /\ ScopesInv => LexicalScoping
    BY ScopesMean DEF SpaceInv
  <1> QED
    BY <1>1, <1>2, <1>3, Invariance, PTL DEF Spec


-----------------------------------------------------------------------------
(* The stack at the jumps and at their labels *)

\* %rsp is what g says of the label that line x jumps to, or defines.
Meets(x, r, g) ==
  /\ x.op \in {"jmp", "je"} => g[x.src.num] = r
  /\ Defines(x) => g[x.dst.num] = r

\* h is %rsp before each of the lines of s, and after them r.
Rises(s, r, h) ==
  /\ h[1] = 0
  /\ h[Len(s) + 1] = r
  /\ \A k \in 1..Len(s) : h[k+1] = StackAfter(h[k], s[k])
Meeting(s, h, g) == \A k \in 1..Len(s) : Meets(s[k], h[k], g)
Steady(s, r, g) == \E h : Rises(s, r, h) /\ Meeting(s, h, g)

LEMMA SteadyLine ==
  ASSUME NEW s, NEW t, NEW x, Adds(s, t, x), NEW r, NEW g, Steady(s, r, g), Meets(x, r, g)
  PROVE  Steady(t, StackAfter(r, x), g)
  <1> DEFINE n == Len(s)
             q == StackAfter(r, x)
  <1>1. n \in Nat /\ Len(t) = n + 1 /\ t[n + 1] = x /\ \A k \in 1..n : t[k] = s[k]
    BY DEF Adds, Grows
  <1>2. PICK h : Rises(s, r, h) /\ Meeting(s, h, g)
    BY DEF Steady
  <1> DEFINE f == [k \in Nat |-> IF k = n + 2 THEN q ELSE h[k]]
  <1>3. f[n + 2] = q /\ \A k \in 1..n + 1 : f[k] = h[k]
    BY <1>1
  <1> HIDE DEF f, q
  <1>4. f[1] = 0 /\ f[n + 1] = r
    BY <1>1, <1>2, <1>3 DEF Rises
  <1>5. ASSUME NEW k \in 1..n + 1
        PROVE  f[k+1] = StackAfter(f[k], t[k]) /\ Meets(t[k], f[k], g)
    <2>1. CASE k = n + 1
      <3>1. f[k+1] = q /\ f[k] = r /\ t[k] = x
        BY <1>1, <1>3, <1>4, <2>1
      <3> QED
        BY <3>1 DEF q
    <2>2. CASE k # n + 1
      <3>1. k \in 1..n /\ f[k] = h[k] /\ f[k+1] = h[k+1] /\ t[k] = s[k]
        BY <1>1, <1>3, <2>2
      <3> QED
        BY <1>2, <3>1 DEF Rises, Meeting
    <2> QED
      BY <2>1, <2>2
  <1>6. (n + 1) + 1 = n + 2
    BY <1>1
  <1>7. Rises(t, q, f) /\ Meeting(t, f, g)
    BY <1>1, <1>3, <1>4, <1>5, <1>6 DEF Rises, Meeting
  <1> QED
    BY <1>7 DEF Steady, q

\* One more line at the end of the added ones.
LEMMA AppendAdds ==
  ASSUME NEW S, NEW s \in Seq(S), NEW T, NEW l \in Seq(T), NEW x \in T
  PROVE  Adds(s \o l, s \o Append(l, x), x)
  <1>1. s \o l \in Seq(S \cup T) /\ s \o Append(l, x) = Append(s \o l, x)
    OBVIOUS
  <1> DEFINE u == s \o l
             t == Append(u, x)
  <1>2. Len(u) \in Nat /\ Len(t) = Len(u) + 1 /\ \A k \in 1..Len(u) + 1 :
          t[k] = IF k = Len(u) + 1 THEN x ELSE u[k]
    BY <1>1, AddLast
  <1> HIDE DEF u, t
  <1>3. Adds(u, t, x)
    BY <1>2 DEF Adds, Grows
  <1> QED
    BY <1>1, <1>3 DEF u, t

\* Written-out lines of which only the first jumps or defines a label.
LEMMA SteadyTuples ==
  ASSUME NEW S, NEW s \in Seq(S), NEW r, NEW g, Steady(s, r, g),
         NEW a, NEW b, NEW c, NEW d, NEW e,
         Meets(a, r, g), Mute(b), Mute(c), Mute(d), Mute(e),
         NEW l \in {<<>>, <<a>>, <<a, b>>, <<a, b, c>>, <<a, b, c, d>>, <<a, b, c, d, e>>}
  PROVE  Steady(s \o l, StackAfterAll(r, l), g)
  <1> DEFINE T == {a, b, c, d, e}
             l0 == <<>>
             l1 == <<a>>
             l2 == <<a, b>>
             l3 == <<a, b, c>>
             l4 == <<a, b, c, d>>
             l5 == <<a, b, c, d, e>>
  <1>1. l0 \in Seq(T) /\ l1 \in Seq(T) /\ l2 \in Seq(T) /\ l3 \in Seq(T) /\ l4 \in Seq(T)
    OBVIOUS
  <1>2. /\ l1 = Append(l0, a) /\ l2 = Append(l1, b) /\ l3 = Append(l2, c)
        /\ l4 = Append(l3, d) /\ l5 = Append(l4, e)
    OBVIOUS
  <1>3. /\ StackAfterAll(r, l0) = r
        /\ StackAfterAll(r, l1) = StackAfter(r, a)
        /\ StackAfterAll(r, l2) = StackAfter(StackAfterAll(r, l1), b)
        /\ StackAfterAll(r, l3) = StackAfter(StackAfterAll(r, l2), c)
        /\ StackAfterAll(r, l4) = StackAfter(StackAfterAll(r, l3), d)
        /\ StackAfterAll(r, l5) = StackAfter(StackAfterAll(r, l4), e)
    BY EmittingNone, EmittingOne, EmittingTwo, EmittingThree, EmittingFour, EmittingFive
  <1>4. a \in T /\ b \in T /\ c \in T /\ d \in T /\ e \in T
    OBVIOUS
  <1>5. l \in {l0, l1, l2, l3, l4, l5}
    OBVIOUS
  <1>6. \A x, q : Mute(x) => Meets(x, q, g)
    BY DEF Mute, Meets, Defines
  <1>7. s \o l0 = s
    BY ConcatEmptySeq
  <1> HIDE DEF T, l0, l1, l2, l3, l4, l5
  <1>8. /\ Adds(s \o l0, s \o l1, a) /\ Adds(s \o l1, s \o l2, b) /\ Adds(s \o l2, s \o l3, c)
        /\ Adds(s \o l3, s \o l4, d) /\ Adds(s \o l4, s \o l5, e)
    BY <1>1, <1>2, <1>4, AppendAdds
  <1>9. Steady(s \o l0, StackAfterAll(r, l0), g)
    BY <1>3, <1>7
  <1>10. Steady(s \o l1, StackAfterAll(r, l1), g)
    BY <1>3, <1>8, <1>9, SteadyLine
  <1>11. Steady(s \o l2, StackAfterAll(r, l2), g)
    BY <1>3, <1>6, <1>8, <1>10, SteadyLine
  <1>12. Steady(s \o l3, StackAfterAll(r, l3), g)
    BY <1>3, <1>6, <1>8, <1>11, SteadyLine
  <1>13. Steady(s \o l4, StackAfterAll(r, l4), g)
    BY <1>3, <1>6, <1>8, <1>12, SteadyLine
  <1>14. Steady(s \o l5, StackAfterAll(r, l5), g)
    BY <1>3, <1>6, <1>8, <1>13, SteadyLine
  <1> QED
    BY <1>5, <1>9, <1>10, <1>11, <1>12, <1>13, <1>14

LEMMA SteadySilent ==
  ASSUME out \in Seq(LineType), NEW g, Steady(out, rsp, g), Silent
  PROVE  Steady(out', rsp', g)
  <1>1. PICK l : MuteLines(l) /\ out' = out \o l /\ rsp' = StackAfterAll(rsp, l)
    BY DEF Silent
  <1>2. PICK a, b, c, d, e :
          /\ Mute(a) /\ Mute(b) /\ Mute(c) /\ Mute(d) /\ Mute(e)
          /\ l \in {<<>>, <<a>>, <<a, b>>, <<a, b, c>>, <<a, b, c, d>>, <<a, b, c, d, e>>}
    BY <1>1 DEF MuteLines
  <1>3. Meets(a, rsp, g)
    BY <1>2 DEF Mute, Meets, Defines
  <1> HIDE DEF LineType
  <1>4. Steady(out \o l, StackAfterAll(rsp, l), g)
    BY <1>2, <1>3, SteadyTuples
  <1> QED
    BY <1>1, <1>4

\* The labels that do not exist yet are free.
Agree(f, g, n) == \A m \in 0..n-1 : f[m] = g[m]

LEMMA SteadyFresh ==
  ASSUME NEW s, NEW due, NEW n \in Nat, Resolved(s, due, n),
         NEW r, NEW f, NEW g, Steady(s, r, f), Agree(f, g, n)
  PROVE  Steady(s, r, g)
  <1>1. PICK h : Rises(s, r, h) /\ Meeting(s, h, f)
    BY DEF Steady
  <1>2. \A k \in 1..Len(s) : Defines(s[k]) => s[k].dst.num \in 0..n-1
    BY LabelNumber DEF Resolved
  <1>3. \A k \in 1..Len(s) : s[k].op \in {"jmp", "je"} => s[k].src.num \in 0..n-1
    <2> SUFFICES ASSUME NEW k \in 1..Len(s), s[k].op \in {"jmp", "je"}
                 PROVE  s[k].src.num \in 0..n-1
      OBVIOUS
    <2>1. CASE s[k].src.num \in due
      BY <2>1 DEF Resolved
    <2>2. ASSUME NEW l \in 1..Len(s), s[l].op = "label", s[l].dst = mk_local_label(s[k].src.num)
          PROVE  s[k].src.num \in 0..n-1
      BY <1>2, <2>2, LabelNumber DEF Defines
    <2> QED
      BY <2>1, <2>2 DEF Resolved
  <1>4. Meeting(s, h, g)
    BY <1>1, <1>2, <1>3 DEF Meeting, Meets, Agree
  <1> QED
    BY <1>1, <1>4 DEF Steady

(***************************************************************************)
(* The inductive invariant.  g says of every label made so far how high    *)
(* the stack is where it is defined: as high as the frame of the function  *)
(* alone, for the labels of the function that is being generated, because  *)
(* no statement is generated while values are pushed.                      *)
(***************************************************************************)
BodyHeight == 8 + FrameSize
DueAtBody(g) == InBody => \A m \in Due(frames, epilogue_label) : g[m] = BodyHeight
HeightInv == \E g : Steady(out, rsp, g) /\ DueAtBody(g)

\* Above an expression there are only expressions.
LEMMA StatementsBelow ==
  ASSUME FramesInv, Path(frames), frames # <<>>, Top.node.type \notin expr_t
  PROVE  \A k \in 1..Len(frames) : frames[k].node.type \notin expr_t
  <1> DEFINE n == Len(frames)
             Bad == {k \in 1..n : frames[k].node.type \in expr_t}
  <1>1. /\ n \in Nat /\ Top = frames[n] /\ frames \in Seq(frame_t)
    BY TopTyped DEF FramesInv
  <1>2. Bad \subseteq 0..n /\ \A k \in 1..n : k \in Bad <=> frames[k].node.type \in expr_t
    BY <1>1
  <1>3. Bad \subseteq 1..n
    OBVIOUS
  <1> HIDE DEF Bad
  <1> SUFFICES ASSUME Bad # {}
               PROVE  FALSE
    BY <1>2
  <1>4. PICK k \in Bad : \A y \in Bad : k >= y
    BY <1>1, <1>2, Greatest
  <1>5. k \in 1..n /\ frames[k].node.type \in expr_t
    BY <1>2, <1>3, <1>4
  <1>6. k # n
    BY <1>1, <1>5
  <1>7. k \in 1..n - 1 /\ k + 1 \in 1..n /\ ~(k >= k + 1)
    BY <1>1, <1>5, <1>6
  <1> DEFINE nd == frames[k].node
             a == frames[k].at
  <1>8. nd \in Node
    <2>1. frames[k] \in frame_t
      BY <1>1, <1>5
    <2> QED
      BY <2>1 DEF frame_t
  <1>9. a \in 1..Len(Subs(nd)) /\ frames[k+1].node = Subs(nd)[a]
    BY <1>7 DEF Path
  <1>10. Subs(nd)[a].type \in SubTypes(nd)
    BY <1>8, <1>9, ProgramsAssumption DEF WellFormed
  <1>11. SubTypes(nd) = expr_t
    BY <1>5 DEF SubTypes, expr_t
  <1>12. k + 1 \in Bad
    BY <1>2, <1>7, <1>9, <1>10, <1>11
  <1> QED
    BY <1>4, <1>7, <1>12

\* A statement is generated with nothing pushed.
LEMMA StatementFlat ==
  ASSUME IInv, Path(frames), NEW ty, Running(ty), ty \notin expr_t
  PROVE  push_depth = 0
  <1> DEFINE n == Len(frames)
             Bad == {k \in 1..n : frames[k].base # 0}
  <1>1. /\ FramesInv /\ frames # <<>> /\ Top.node.type = ty /\ push_depth = Top.base + Held(Top)
        /\ n \in Nat /\ n \in 1..n /\ Top = frames[n] /\ frames \in Seq(frame_t) /\ IsWalk(frames)
    BY RunningTop, TopTyped DEF IInv, FramesInv
  <1>2. \A k \in 1..n : frames[k].node.type \notin expr_t
    BY <1>1, StatementsBelow
  <1>3. \A k \in 1..n : Held(frames[k]) = 0
    BY <1>2 DEF Held, expr_t
  <1>4. Bad \subseteq Nat /\ \A k \in 1..n : k \in Bad <=> frames[k].base # 0
    OBVIOUS
  <1>5. Bad \subseteq 1..n
    OBVIOUS
  <1> HIDE DEF Bad
  <1>6. Bad = {}
    <2> SUFFICES ASSUME Bad # {}
                 PROVE  FALSE
      OBVIOUS
    <2>1. PICK k \in Bad : \A y \in Bad : k <= y
      BY <1>4, Least
    <2>2. k \in 1..n /\ frames[k].base # 0
      BY <1>4, <1>5, <2>1
    <2>3. k # 1
      BY <1>1, <2>2 DEF IsWalk
    <2>4. k - 1 \in 1..n - 1 /\ k - 1 \in 1..n /\ ~(k <= k - 1) /\ (k - 1) + 1 = k
      BY <1>1, <2>2, <2>3
    <2>5. frames[k].base = frames[k-1].base + Held(frames[k-1])
      BY <1>1, <2>4 DEF IsWalk
    <2>6. frames[k-1].base = 0
      BY <1>4, <2>1, <2>4
    <2>7. Held(frames[k-1]) = 0
      BY <1>3, <2>4
    <2> QED
      BY <2>2, <2>5, <2>6, <2>7
  <1>7. Top.base = 0 /\ Held(Top) = 0
    BY <1>1, <1>3, <1>4, <1>6
  <1> QED
    BY <1>1, <1>7

LEMMA AtBodyHeight ==
  ASSUME IInv, Path(frames), NEW ty, Running(ty), ty \notin expr_t, InBody
  PROVE  rsp = BodyHeight
  <1>1. push_depth = 0
    BY StatementFlat
  <1>2. rsp = 8 + FrameSize + 8 * push_depth
    BY DEF IInv, DepthMatchesStack
  <1>3. frames[1].node \in Node /\ frames[1].node.type = "AST_FUNC_DECL"
    <2>1. frames \in Seq(frame_t) /\ Len(frames) \in Nat /\ Len(frames) > 0 /\ IsWalk(frames)
      BY RunningTop, TopTyped DEF IInv, FramesInv
    <2>2. 1 \in 1..Len(frames) /\ frames[1] \in frame_t
      BY <2>1
    <2> QED
      BY <2>1, <2>2 DEF IsWalk, frame_t
  <1>4. FrameSize \in Nat
    BY <1>3, FrameSizeRounded DEF FrameSize
  <1> QED
    BY <1>1, <1>2, <1>4 DEF BodyHeight

-----------------------------------------------------------------------------
(* Every action keeps it *)

\* The function that is being generated stays the same.
LEMMA MovesFunction ==
  ASSUME FramesInv, frames # <<>>, Moves
  PROVE  InBody' => BodyHeight' = BodyHeight
  <1> DEFINE n == Len(frames)
  <1>1. /\ frames \in Seq(frame_t) /\ n \in Nat /\ n > 0 /\ Top = frames[n] /\ Top \in frame_t
    BY TopTyped DEF FramesInv
  <1>2. n = 1 \/ n > 1
    BY <1>1, Positive
  <1> SUFFICES ASSUME InBody'
               PROVE  frames'[1].node = frames[1].node
    BY DEF BodyHeight, FrameSize
  <1>3. CASE Return
    <2>1. /\ frames' \in Seq(frame_t) /\ Len(frames') = n - 1
          /\ \A k \in 1..n - 1 : frames'[k] = frames[k]
      BY <1>1, <1>3, RemoveLast DEF Return
    <2>2. n # 1
      BY <2>1 DEF InBody
    <2> QED
      BY <1>1, <2>1, <2>2
  <1>4. ASSUME NEW l \in Int, NEW depth, Descend(l, depth)
        PROVE  frames'[1].node = frames[1].node
    <2> DEFINE t == [Top EXCEPT !.at = @ + 1, !.loc = l]
    <2>1. \A k \in 1..n : frames'[k] = IF k = n THEN t ELSE frames[k]
      BY <1>1, <1>4, DescendShape
    <2>2. t.node = Top.node
      BY <1>1 DEF frame_t
    <2> HIDE DEF t
    <2>3. 1 \in 1..n
      BY <1>1
    <2> QED
      BY <1>1, <2>1, <2>2, <2>3
  <1>5. ASSUME NEW t \in frame_t, t.node = Top.node, frames' = [frames EXCEPT ![Len(frames)] = t]
        PROVE  frames'[1].node = frames[1].node
    <2>1. \A k \in 1..n : frames'[k] = IF k = n THEN t ELSE frames[k]
      BY <1>1, <1>5, ReplaceLast
    <2>2. 1 \in 1..n
      BY <1>1
    <2> QED
      BY <1>1, <1>5, <2>1, <2>2
  <1> QED
    BY <1>3, <1>4, <1>5 DEF Moves

LEMMA HeightsError ==
  ASSUME HeightInv, std_compile_error
  PROVE  HeightInv'
  BY DEF HeightInv, DueAtBody, BodyHeight, FrameSize, InBody, std_compile_error, outVars, labelVars

\* What is due after a step was due before it.
LEMMA StillDue ==
  ASSUME NEW g, DueAtBody(g), InBody, BodyHeight' = BodyHeight, Steady(out', rsp', g),
         Due(frames', epilogue_label') \subseteq Due(frames, epilogue_label)
  PROVE  HeightInv'
  BY DEF HeightInv, DueAtBody

LEMMA SilentHeights ==
  ASSUME TypeInv, HeightInv, NEW ty, Silently(ty)
  PROVE  HeightInv'
  <1>1. /\ IInv /\ FramesInv /\ out \in Seq(LineType) /\ frames # <<>>
    BY RunningTop DEF TypeInv, Inv, IInv, Silently
  <1>2. InBody /\ InBody' /\ SameOwed
    BY <1>1, MovesOwed, MovesInBody DEF Silently
  <1>3. BodyHeight' = BodyHeight
    BY <1>1, <1>2, MovesFunction DEF Silently
  <1>4. Due(frames', epilogue_label') = Due(frames, epilogue_label)
    BY <1>2, OwedKept DEF Silently, labelVars
  <1>5. PICK g : Steady(out, rsp, g) /\ DueAtBody(g)
    BY DEF HeightInv
  <1>6. Steady(out', rsp', g)
    BY <1>1, <1>5, SteadySilent DEF Silently
  <1> QED
    BY <1>2, <1>3, <1>4, <1>5, <1>6, StillDue

\* Lines that leave the stack where it is.
LEMMA SteadyStill ==
  ASSUME NEW S, NEW s \in Seq(S), NEW r, NEW g, Steady(s, r, g), NEW a, NEW b, NEW c,
         Meets(a, r, g), Meets(b, r, g), Meets(c, r, g),
         StackAfter(r, a) = r, StackAfter(r, b) = r, StackAfter(r, c) = r,
         NEW l \in {<<a>>, <<a, b>>, <<a, b, c>>}
  PROVE  Steady(s \o l, StackAfterAll(r, l), g)
  <1> DEFINE la == <<a>>
             lb == <<a, b>>
             lc == <<a, b, c>>
  <1>1. Adds(s, s \o la, a) /\ Adds(s \o la, s \o lb, b) /\ Adds(s \o lb, s \o lc, c)
    BY TuplesAdd
  <1>2. StackAfterAll(r, la) = r /\ StackAfterAll(r, lb) = r /\ StackAfterAll(r, lc) = r
    BY EmittingOne, EmittingTwo, EmittingThree
  <1>3. l \in {la, lb, lc}
    OBVIOUS
  <1> HIDE DEF la, lb, lc
  <1>4. Steady(s \o la, r, g)
    BY <1>1, SteadyLine
  <1>5. Steady(s \o lb, r, g)
    BY <1>1, <1>4, SteadyLine
  <1>6. Steady(s \o lc, r, g)
    BY <1>1, <1>5, SteadyLine
  <1> QED
    BY <1>2, <1>3, <1>4, <1>5, <1>6

LEMMA return_heights ==
  ASSUME TypeInv, LabelInv, Path(frames), HeightInv, gen_return, ~UNCHANGED outVars
  PROVE  HeightInv'
  <1> DEFINE a == jmp(epilogue_label)
  <1>1. /\ IInv /\ FramesInv /\ out \in Seq(LineType)
    BY DEF TypeInv, Inv, IInv
  <1>2. /\ Running("AST_RETURN") /\ UNCHANGED labelVars /\ Return /\ Emit(<<a>>)
    BY DEF gen_return
  <1>3. Moves /\ frames # <<>> /\ phase # "error"
    BY <1>1, <1>2, RunningTop DEF Moves
  <1>4. InBody /\ InBody' /\ SameOwed
    BY <1>1, <1>2, <1>3, MovesOwed, MovesInBody
  <1>5. BodyHeight' = BodyHeight /\ rsp = BodyHeight
    BY <1>1, <1>2, <1>3, <1>4, MovesFunction, AtBodyHeight DEF expr_t
  <1>6. Due(frames', epilogue_label') = Due(frames, epilogue_label)
    BY <1>2, <1>4, OwedKept DEF labelVars
  <1>7. epilogue_label \in Due(frames, epilogue_label)
    BY <1>3, <1>4 DEF LabelInv, Due
  <1>8. PICK g : Steady(out, rsp, g) /\ DueAtBody(g)
    BY DEF HeightInv
  <1>9. a.op = "jmp" /\ a.src.num = epilogue_label /\ StackAfter(rsp, a) = rsp
    BY LabelNumber, StillLine DEF jmp, Line, still_op
  <1>10. Meets(a, rsp, g)
    BY <1>4, <1>5, <1>7, <1>8, <1>9 DEF Meets, DueAtBody, Defines
  <1> HIDE DEF a, LineType
  <1>11. Steady(out', rsp', g)
    BY <1>1, <1>2, <1>8, <1>9, <1>10, SteadyStill DEF Emit
  <1> QED
    BY <1>4, <1>5, <1>6, <1>8, <1>11, StillDue

LEMMA if_heights ==
  ASSUME TypeInv, LabelInv, Path(frames), HeightInv, gen_if
  PROVE  HeightInv'
  <1> DEFINE e == epilogue_label
             n == Len(frames)
             l == Top.loc
             m == Top.loc + 1
             due == Due(frames, e)
  <1>1. /\ IInv /\ FramesInv /\ out \in Seq(LineType) /\ label_count \in Nat
        /\ Running("AST_IF") /\ epilogue_label' = e
    BY DEF TypeInv, Inv, ScopeInv, IInv, gen_if
  <1>2. /\ phase # "error" /\ frames # <<>> /\ Top \in frame_t /\ Top.node.type = "AST_IF"
        /\ l \in Int /\ m \in Int /\ Top.at \in Nat /\ n \in Nat /\ OwedAt(frames, n) = Owed(Top)
    <2>1. n \in 1..n /\ n \in Nat /\ Top = frames[n]
      BY <1>1, RunningTop, TopTyped
    <2> QED
      BY <1>1, <2>1, RunningTop DEF OwedAt
  <1>3. Moves
    <2>1. \/ Descend(label_count, push_depth) \/ Descend(l, push_depth) \/ Return
      BY DEF gen_if
    <2> QED
      BY <1>1, <1>2, <2>1 DEF Moves
  <1>4. InBody /\ InBody' /\ BodyHeight' = BodyHeight /\ rsp = BodyHeight
    BY <1>1, <1>2, <1>3, MovesInBody, MovesFunction, AtBodyHeight DEF expr_t
  <1>5. Resolved(out, due, label_count) /\ Owed(Top) \subseteq due
    BY <1>2 DEF LabelInv, Due
  <1>6. PICK g : Steady(out, rsp, g) /\ DueAtBody(g)
    BY DEF HeightInv
  <1>7. \A k \in due : g[k] = rsp
    BY <1>4, <1>6 DEF DueAtBody
  <1>8. CASE Top.at = 0
    <2> DEFINE more == {label_count, label_count + 1}
    <2>1. out' = out /\ rsp' = rsp /\ Descend(label_count, push_depth)
      BY <1>8, <1>2 DEF gen_if, outVars
    <2>2. Due(frames', e) \subseteq due \cup more
      <3>1. \A k \in Nat : k # n => OwedAt(frames', k) = OwedAt(frames, k)
        BY <1>1, <2>1, IfDescends
      <3>2. OwedAt(frames', n) = more
        BY <1>1, <1>8, <2>1, IfDescends
      <3> HIDE DEF n, more
      <3> QED
        BY <3>1, <3>2 DEF Due
    <2>3. /\ due \subseteq 0..label_count-1
          /\ \A k \in more : k \in Nat /\ k \notin 0..label_count-1
      BY <1>1, <1>5 DEF Resolved
    <2> HIDE DEF more, due
    <2>7. PICK f : \A k \in Nat : f[k] = IF k \in more THEN rsp ELSE g[k]
      <3> DEFINE f == [k \in Nat |-> IF k \in more THEN rsp ELSE g[k]]
      <3>1. \A k \in Nat : f[k] = IF k \in more THEN rsp ELSE g[k]
        OBVIOUS
      <3> QED
        BY <3>1
    <2>8. Agree(g, f, label_count)
      BY <2>3, <2>7 DEF Agree
    <2>4. Steady(out, rsp, f)
      BY <1>1, <1>5, <1>6, <2>8, SteadyFresh
    <2>5. \A k \in due \cup more : f[k] = rsp
      BY <1>1, <1>7, <2>3, <2>7
    <2>6. DueAtBody(f)'
      BY <1>1, <1>4, <2>2, <2>5 DEF DueAtBody
    <2> QED
      BY <2>1, <2>4, <2>6 DEF HeightInv
  <1>9. ASSUME Steady(out', rsp', g), OwedAt(frames', n) \subseteq Owed(Top),
               \A k \in Nat : k # n => OwedAt(frames', k) = OwedAt(frames, k)
        PROVE  HeightInv'
    <2>1. Due(frames', e) \subseteq Due(frames, e)
      <3>1. \A k \in Nat : OwedAt(frames', k) \subseteq OwedAt(frames, k)
        BY <1>2, <1>9
      <3> HIDE DEF n
      <3> QED
        BY <3>1 DEF Due
    <2> QED
      BY <1>1, <1>4, <1>6, <1>9, <2>1, StillDue
  <1> DEFINE c == emit_cmp(mk_immutable(0), RAX)
             j == je(l)
             o == jmp(m)
             a == Label(mk_local_label(l))
             b == Label(mk_local_label(m))
  <1>10. /\ StackAfter(rsp, c) = rsp /\ StackAfter(rsp, j) = rsp /\ StackAfter(rsp, o) = rsp
         /\ StackAfter(rsp, a) = rsp /\ StackAfter(rsp, b) = rsp
    <2>1. StackAfter(rsp, c) = rsp /\ StackAfter(rsp, j) = rsp /\ StackAfter(rsp, o) = rsp
      BY StillLine DEF emit_cmp, je, jmp, still_op
    <2>2. StackAfter(rsp, a) = rsp /\ StackAfter(rsp, b) = rsp
      BY ProgramsAssumption
      DEF StackAfter, Label, Line, mk_local_label, NoOperand
    <2> QED
      BY <2>1, <2>2
  <1>11. /\ Mute(c) /\ j.op = "je" /\ j.src.num = l /\ o.op = "jmp" /\ o.src.num = m
         /\ a.op = "label" /\ a.dst.num = l /\ b.op = "label" /\ b.dst.num = m
    BY MuteEmits, LabelNumber DEF je, jmp, Label, Line
  <1> HIDE DEF c, j, o, a, b
  <1>12. /\ Meets(c, rsp, g)
         /\ l \in due => Meets(j, rsp, g) /\ Meets(a, rsp, g)
         /\ m \in due => Meets(o, rsp, g) /\ Meets(b, rsp, g)
    BY <1>7, <1>11 DEF Meets, Mute, Defines
  <1>13. CASE Top.at = 1
    <2>1. Descend(l, push_depth) /\ Emit(<<c, j>>)
      BY <1>13, <1>2 DEF gen_if, c, j
    <2>2. Owed(Top) = {l, m}
      BY <1>2, <1>13 DEF Owed
    <2>3. Meets(c, rsp, g) /\ Meets(j, rsp, g)
      BY <1>5, <1>12, <2>2
    <2> HIDE DEF LineType
    <2>4. Steady(out', rsp', g)
      BY <1>1, <1>6, <1>10, <2>1, <2>3, SteadyStill DEF Emit
    <2>5. OwedAt(frames', n) \subseteq Owed(Top)
      BY <1>1, <1>2, <1>13, <2>1, <2>2, IfDescends
    <2>6. \A k \in Nat : k # n => OwedAt(frames', k) = OwedAt(frames, k)
      BY <1>1, <1>2, <2>1, IfDescends
    <2> QED
      BY <1>9, <2>4, <2>5, <2>6
  <1>14. ASSUME Return
         PROVE  /\ OwedAt(frames', n) \subseteq Owed(Top)
                /\ \A k \in Nat : k # n => OwedAt(frames', k) = OwedAt(frames, k)
    BY <1>1, <1>2, <1>14, ReturnOwed
  <1>15. CASE Top.at = 2
    <2>1. \/ Descend(l, push_depth) /\ Emit(<<o, a>>)
          \/ Return /\ Emit(<<o, a, b>>)
      BY <1>15, <1>2 DEF gen_if, o, a, b
    <2>2. Owed(Top) = {l, m}
      BY <1>2, <1>15 DEF Owed
    <2>3. Meets(o, rsp, g) /\ Meets(a, rsp, g) /\ Meets(b, rsp, g)
      BY <1>5, <1>12, <2>2
    <2> HIDE DEF LineType
    <2>4. Steady(out', rsp', g)
      BY <1>1, <1>6, <1>10, <2>1, <2>3, SteadyStill DEF Emit
    <2>5. CASE Return
      BY <1>9, <1>14, <2>4, <2>5
    <2>6. CASE Descend(l, push_depth)
      <3>1. OwedAt(frames', n) \subseteq Owed(Top)
        BY <1>1, <1>2, <1>15, <2>2, <2>6, IfDescends
      <3>2. \A k \in Nat : k # n => OwedAt(frames', k) = OwedAt(frames, k)
        BY <1>1, <1>2, <2>6, IfDescends
      <3> QED
        BY <1>9, <2>4, <3>1, <3>2
    <2> QED
      BY <2>1, <2>5, <2>6
  <1>16. CASE Top.at = 3
    <2>1. Return /\ Emit(<<b>>)
      BY <1>16, <1>2 DEF gen_if, b
    <2>2. Owed(Top) = {m}
      BY <1>2, <1>16 DEF Owed
    <2>3. Meets(b, rsp, g)
      BY <1>5, <1>12, <2>2
    <2> HIDE DEF LineType
    <2>4. Steady(out', rsp', g)
      BY <1>1, <1>6, <1>10, <2>1, <2>3, SteadyStill DEF Emit
    <2> QED
      BY <1>9, <1>14, <2>1, <2>4
  <1> QED
    BY <1>8, <1>13, <1>15, <1>16 DEF gen_if

LEMMA func_heights ==
  ASSUME TypeInv, LabelInv, Path(frames), HeightInv, gen_func_decl
  PROVE  HeightInv'
  <1> DEFINE e == epilogue_label
  <1>1. Running("AST_FUNC_DECL")
    BY DEF gen_func_decl, gen_func_enter, gen_func_param, gen_func_stmt, gen_func_return
  <1>2. /\ IInv /\ FramesInv /\ out \in Seq(LineType) /\ label_count \in Nat
    BY DEF TypeInv, Inv, ScopeInv, IInv
  <1>3. /\ phase # "error" /\ frames # <<>> /\ Top \in frame_t /\ WellFormed(Top.node)
        /\ Top.node.type = "AST_FUNC_DECL" /\ Top.loc \in Int
    BY <1>1, <1>2, RunningTop
  <1>4. frames \in Seq(frame_t) /\ Len(frames) = 1 /\ Top = frames[1]
    BY <1>2, <1>3, TopTyped DEF FramesInv
  <1>5. InBody <=> Top.loc # Fresh
    BY <1>3, <1>4 DEF InBody
  <1>6. PICK g : Steady(out, rsp, g) /\ DueAtBody(g)
    BY DEF HeightInv
  <1>7. /\ \A k \in Nat : OwedAt(frames, k) = {}
        /\ Moves => \A k \in Nat : OwedAt(frames', k) = {}
    BY <1>1, <1>2, FunctionOwes
  <1>8. /\ Resolved(out, Due(frames, e), label_count)
        /\ InBody <=> e # NoLabel
    BY <1>3 DEF LabelInv
  \* A step of the body that emits no label.
  <1>9. ASSUME Moves, InBody, Silent, UNCHANGED labelVars
        PROVE  HeightInv'
    <2>1. Steady(out', rsp', g)
      BY <1>2, <1>6, <1>9, SteadySilent
    <2>2. Due(frames', epilogue_label') = Due(frames, e)
      BY <1>7, <1>9, NothingElseDue DEF labelVars
    <2>3. InBody' => BodyHeight' = BodyHeight
      BY <1>2, <1>3, <1>9, MovesFunction
    <2> QED
      BY <1>6, <1>9, <2>1, <2>2, <2>3 DEF HeightInv, DueAtBody
  <1>10. CASE gen_func_enter
    <2> DEFINE x == Top.node.func_t.ident.name
               size == compute_frame_size(Top.node)
               height == BodyHeight'
    <2>1. /\ Emit(Prologue(mk_label(x), size)) /\ SetLoc(0) /\ epilogue_label' = label_count
      BY <1>10 DEF gen_func_enter
    <2>2. x \in Name
      BY <1>3 DEF WellFormed, Idents
    <2> HIDE DEF x, size, height
    <2>3. PICK f : f[label_count] = height /\ Agree(g, f, label_count)
      <3> DEFINE f == [k \in Nat |-> IF k = label_count THEN height ELSE g[k]]
      <3>1. f[label_count] = height /\ Agree(g, f, label_count)
        BY <1>2 DEF Agree
      <3> QED
        BY <3>1
    <2>4. Steady(out, rsp, f)
      BY <1>2, <1>6, <1>8, <2>3, SteadyFresh
    <2>5. PICK a, b, c, d, o :
            /\ a.op = ".globl" /\ Mute(b) /\ Mute(c) /\ Mute(d) /\ Mute(o)
            /\ Prologue(mk_label(x), size) \in {<<a, b, c, d>>, <<a, b, c, d, o>>}
      BY <2>2, PrologueIs
    <2>6. Meets(a, rsp, f)
      BY <2>5 DEF Meets, Defines
    <2> DEFINE l == Prologue(mk_label(x), size)
    <2>7. out' = out \o l /\ rsp' = StackAfterAll(rsp, l)
      BY <2>1 DEF Emit
    <2>8. l \in {<<>>, <<a>>, <<a, b>>, <<a, b, c>>, <<a, b, c, d>>, <<a, b, c, d, o>>}
      BY <2>5
    <2> HIDE DEF l, LineType
    <2>9. Steady(out', rsp', f)
      BY <1>2, <2>4, <2>5, <2>6, <2>7, <2>8, SteadyTuples
    <2>10. Moves
      BY <1>2, <1>3, <2>1, SetLocMoves
    <2>11. Due(frames', label_count) = {label_count} \ {NoLabel}
      BY <1>7, <2>10, NothingElseDue
    <2>12. DueAtBody(f)'
      BY <2>1, <2>3, <2>11 DEF DueAtBody, height
    <2> QED
      BY <2>9, <2>12 DEF HeightInv
  <1>11. CASE gen_func_param /\ ~std_compile_error
    <2>1. /\ Top.loc \in 0..Len(Top.node.func_t.params) - 1
          /\ SetLoc(Top.loc + 1) /\ UNCHANGED labelVars
          /\ \E r : Emit(<<emit_mov(mk_register(r, "SZ_64"), Slot(cur_offset'))>>)
      BY <1>11 DEF gen_func_param
    <2>2. Silent
      BY <2>1, EmitsOne, MuteEmits
    <2>3. Top.loc + 1 \in Int /\ Top.loc # Fresh
      BY <1>3, <2>1 DEF Fresh, WellFormed
    <2>4. Moves
      BY <1>2, <1>3, <2>1, <2>3, SetLocMoves
    <2> QED
      BY <1>5, <1>9, <2>1, <2>2, <2>3, <2>4
  <1>12. CASE gen_func_stmt
    <2>1. AllParams /\ UNCHANGED <<labelVars, outVars>> /\ Descend(Top.loc, push_depth)
      BY <1>12 DEF gen_func_stmt
    <2>2. Top.loc # Fresh
      BY <1>3, <2>1 DEF AllParams, WellFormed, Fresh
    <2>3. Moves
      BY <1>3, <2>1 DEF Moves
    <2>4. Silent
      BY <1>2, <2>1, EmitsNothing
    <2> QED
      BY <1>5, <1>9, <2>1, <2>2, <2>3, <2>4
  <1>13. CASE gen_func_return
    <2> DEFINE a == Label(mk_local_label(e))
               b == emit_mov(RBP, RSP)
               c == emit_pop(RBP)
               l == <<a, b, c, ret>>
    <2>1. AllParams /\ Return /\ Emit(l)
      BY <1>13 DEF gen_func_return, Epilogue
    <2>2. InBody /\ rsp = BodyHeight
      <3>1. InBody
        BY <1>3, <1>5, <2>1 DEF AllParams, WellFormed, Fresh
      <3> QED
        BY <1>1, <1>2, <3>1, AtBodyHeight DEF expr_t
    <2>3. g[e] = rsp
      <3>1. e \in Due(frames, e)
        BY <1>8, <2>2 DEF Due
      <3> QED
        BY <1>6, <2>2, <3>1 DEF DueAtBody
    <2>4. /\ a.op = "label" /\ a.dst.num = e
          /\ Mute(b) /\ Mute(c) /\ Mute(ret)
      BY MuteEmits, LabelNumber DEF Label, Line
    <2> HIDE DEF a, b, c, LineType
    <2>5. Meets(a, rsp, g)
      BY <2>3, <2>4 DEF Meets
    <2>6. out' = out \o l /\ rsp' = StackAfterAll(rsp, l)
      BY <2>1 DEF Emit
    <2>7. l \in {<<>>, <<a>>, <<a, b>>, <<a, b, c>>, <<a, b, c, ret>>, <<a, b, c, ret, ret>>}
      OBVIOUS
    <2> HIDE DEF l
    <2>8. Steady(out', rsp', g)
      BY <1>2, <1>6, <2>4, <2>5, <2>6, <2>7, SteadyTuples
    <2>9. ~InBody'
      <3>1. frames' = Front(frames) /\ Len(frames) > 0
        BY <1>4, <2>1 DEF Return
      <3>2. frames' \in Seq(frame_t) /\ Len(frames') = Len(frames) - 1
        BY <1>4, <3>1, RemoveLast
      <3>3. frames' \in Seq(frame_t) /\ Len(frames') = 0
        BY <1>4, <3>2
      <3> QED
        BY <3>3 DEF InBody
    <2> QED
      BY <2>8, <2>9 DEF HeightInv, DueAtBody
  <1> QED
    BY <1>10, <1>11, <1>12, <1>13, HeightsError DEF gen_func_decl

LEMMA program_heights ==
  ASSUME TypeInv, HeightInv, gen_program
  PROVE  HeightInv'
  <1>1. IInv /\ out \in Seq(LineType)
    BY DEF TypeInv, Inv
  <1>2. PICK g : Steady(out, rsp, g)
    BY DEF HeightInv
  <1>3. Steady(out', rsp', g)
    BY <1>1, <1>2, program_silent, SteadySilent
  <1>4. ~InBody'
    BY <1>1, program_outside
  <1> QED
    BY <1>3, <1>4 DEF HeightInv, DueAtBody

LEMMA HeightsKept ==
  ASSUME TypeInv, TypeInv', LabelInv, Path(frames), HeightInv, [Next]_vars
  PROVE  HeightInv'
  <1>1. CASE UNCHANGED vars
    BY <1>1 DEF vars, labelVars, outVars, HeightInv, DueAtBody, BodyHeight, FrameSize, InBody
  <1>2. CASE gen_expr
    BY <1>2, expr_silent, SilentHeights, HeightsError
  <1>3. CASE gen_stmt
    <2>1. CASE gen_var_decl \/ gen_block \/ gen_comment \/ (gen_return /\ UNCHANGED outVars)
      BY <2>1, stmt_silent, SilentHeights
    <2> QED
      BY <1>3, <2>1, return_heights, if_heights DEF gen_stmt
  <1> QED
    BY <1>1, <1>2, <1>3, func_heights, program_heights DEF Next, Generate, Terminated

-----------------------------------------------------------------------------
(* The property *)

\* %rsp before each line is one function of the lines.
LEMMA RisesOnce ==
  ASSUME NEW s, Len(s) \in Nat, NEW r, NEW h, Rises(s, r, h), NEW f,
         \A k \in 1..Len(s) : f[k] = IF k = 1 THEN 0 ELSE StackAfter(f[k-1], s[k-1])
  PROVE  \A k \in 1..Len(s) : f[k] = h[k]
  <1> DEFINE n == Len(s)
             Bad == {k \in 1..n : f[k] # h[k]}
  <1>1. Bad \subseteq Nat /\ \A k \in 1..n : k \in Bad <=> f[k] # h[k]
    OBVIOUS
  <1>2. Bad \subseteq 1..n
    OBVIOUS
  <1> HIDE DEF Bad
  <1> SUFFICES ASSUME Bad # {}
               PROVE  FALSE
    BY <1>1
  <1>3. PICK k \in Bad : \A m \in Bad : k <= m
    BY <1>1, Least
  <1>4. k \in 1..n /\ f[k] # h[k]
    BY <1>1, <1>2, <1>3
  <1>5. k # 1
    BY <1>4 DEF Rises
  <1>6. k - 1 \in 1..n /\ ~(k <= k - 1) /\ (k - 1) + 1 = k
    BY <1>4, <1>5
  <1>7. f[k-1] = h[k-1]
    BY <1>1, <1>3, <1>6
  <1>8. f[k] = StackAfter(f[k-1], s[k-1])
    BY <1>4, <1>5
  <1>9. h[k] = StackAfter(h[k-1], s[k-1])
    BY <1>6 DEF Rises
  <1> QED
    BY <1>4, <1>7, <1>8, <1>9

LEMMA StackBeforeIs ==
  ASSUME Len(out) \in Nat, NEW h, Rises(out, rsp, h)
  PROVE  \A k \in 1..Len(out) : StackBefore[k] = h[k]
  <1> DEFINE n == Len(out)
             Unfolds(f) == f = [k \in 1..n |-> IF k = 1 THEN 0 ELSE StackAfter(f[k-1], out[k-1])]
             g == [k \in 1..n |-> h[k]]
  <1>1. StackBefore = CHOOSE f : Unfolds(f)
    BY DEF StackBefore
  <1>2. Unfolds(g)
    <2> DEFINE u == [k \in 1..n |-> IF k = 1 THEN 0 ELSE StackAfter(g[k-1], out[k-1])]
    <2>1. ASSUME NEW k \in 1..n
          PROVE  g[k] = u[k]
      <3>1. CASE k = 1
        BY <3>1 DEF Rises
      <3>2. CASE k # 1
        <4>1. k - 1 \in 1..n /\ (k - 1) + 1 = k
          BY <3>2
        <4>2. h[k] = StackAfter(h[k-1], out[k-1])
          BY <4>1 DEF Rises
        <4>3. g[k] = h[k] /\ g[k-1] = h[k-1] /\ u[k] = StackAfter(g[k-1], out[k-1])
          BY <3>2, <4>1
        <4> QED
          BY <4>2, <4>3
      <3> QED
        BY <3>1, <3>2
    <2>2. g = [k \in 1..n |-> g[k]]
      OBVIOUS
    <2> QED
      BY <2>1, <2>2
  <1> DEFINE before == CHOOSE f : Unfolds(f)
  <1>3. Unfolds(before)
    <2> HIDE DEF Unfolds
    <2> QED
      BY <1>2
  <1> HIDE DEF before
  <1>4. \A k \in 1..n : before[k] = IF k = 1 THEN 0 ELSE StackAfter(before[k-1], out[k-1])
    BY <1>3
  <1>5. \A k \in 1..n : before[k] = h[k]
    BY <1>4, RisesOnce
  <1> QED
    BY <1>1, <1>5 DEF before

LEMMA HeightsBegin ==
  ASSUME Init
  PROVE  HeightInv
  <1>1. out = <<>> /\ rsp = 0 /\ frames = <<>>
    BY DEF Init
  <1> DEFINE h == [k \in {1} |-> 0]
  <1>2. h[1] = 0
    OBVIOUS
  <1> HIDE DEF h
  <1>3. Rises(out, rsp, h) /\ \A g : Meeting(out, h, g)
    BY <1>1, <1>2 DEF Rises, Meeting
  <1> QED
    BY <1>1, <1>3 DEF HeightInv, DueAtBody, Steady, InBody

LEMMA HeightsMean ==
  ASSUME TypeInv, HeightInv
  PROVE  JumpsKeepStack
  <1>1. out \in Seq(LineType) /\ Len(out) \in Nat /\ DOMAIN out = 1..Len(out)
    BY DEF TypeInv
  <1>2. PICK g, h : Rises(out, rsp, h) /\ Meeting(out, h, g)
    BY DEF HeightInv, Steady
  <1>3. \A k \in 1..Len(out) : StackBefore[k] = h[k]
    BY <1>1, <1>2, StackBeforeIs
  <1>4. ASSUME NEW k \in DOMAIN out, NEW l \in DOMAIN out, IsJump(k), IsLabel(l, Target(k))
        PROVE  StackBefore[k] = StackBefore[l]
    <2>1. g[out[k].src.num] = h[k]
      BY <1>1, <1>2, <1>4 DEF IsJump, Meeting, Meets
    <2>2. Defines(out[l]) /\ out[l].dst.num = out[k].src.num
      BY <1>4, LabelNumber DEF IsLabel, Target, Defines
    <2>3. g[out[l].dst.num] = h[l]
      BY <1>1, <1>2, <1>4, <2>2 DEF Meeting, Meets
    <2> QED
      BY <1>1, <1>3, <2>1, <2>2, <2>3
  <1> QED
    BY <1>4 DEF JumpsKeepStack

(***************************************************************************)
(* However ifs, returns, blocks, calls and operators nest, the stack is as *)
(* high at a jump as at the label it goes to, in every program, finished   *)
(* or given up: what push_depth counts along the lines is what the machine *)
(* finds along the jumps.                                                  *)
(***************************************************************************)
THEOREM JumpsMeetLabels == Spec => []JumpsKeepStack
  <1>1. Init => SpaceInv /\ ScopesInv /\ LabelInv /\ HeightInv
    BY ScopesBegin, LabelsBegin, HeightsBegin
  <1>2. TypeInv /\ TypeInv' /\ SpaceInv /\ ScopesInv /\ LabelInv /\ HeightInv /\ [Next]_vars
          => SpaceInv' /\ ScopesInv' /\ LabelInv' /\ HeightInv'
    BY SpaceKept, ScopesKept, LabelsKept, HeightsKept DEF TypeInv, ScopesInv
  <1>3. TypeInv /\ HeightInv => JumpsKeepStack
    BY HeightsMean
  <1> QED
    BY <1>1, <1>2, <1>3, TypesHold, PTL DEF Spec
=============================================================================
