--------------------------- MODULE CodegenProofs ---------------------------
(***************************************************************************)
(* Every action of the code generator preserves the stack discipline:      *)
(* push_depth is what the gen_* calls in progress have pushed, the emitted *)
(* code has moved %rsp by as much, and every call is made at an aligned    *)
(* %rsp.  With the scopes and the label counters beside it, the theorems   *)
(* follow: the alignment of every emitted call, push_depth telling the     *)
(* truth about the emitted code, nothing being left of a function when the *)
(* next one begins, and the type invariant, for every set of programs the  *)
(* parser can build.                                                       *)
(***************************************************************************)
EXTENDS CodegenProperties, BoundedInduction, SequenceTheorems, FiniteSetTheorems, TLAPS

\* The words a frame has pushed so far for values of its own.
Held(fr) ==
  CASE fr.node.type = "AST_CALL" /\ fr.loc # Fresh -> Pad(fr) + fr.loc
    [] fr.node.type = "AST_BINARY" /\ fr.at = 2     -> 1
    [] OTHER                                        -> 0

frame_t == [node : Node, at : Nat, base : Nat, loc : Int]

\* The frame f whose function has moved on to its next call is t.
GoesOn(f, t, a, l) == t = [f EXCEPT !.at = a, !.loc = l]

LEMMA GoneOn ==
  ASSUME NEW f \in frame_t, NEW a, NEW l, NEW t, GoesOn(f, t, a, l)
  PROVE  /\ t.node = f.node /\ t.at = a /\ t.base = f.base /\ t.loc = l
         /\ a \in Nat /\ l \in Int => t \in frame_t
  <1>1. t = [node |-> f.node, at |-> a, base |-> f.base, loc |-> l]
    BY DEF frame_t, GoesOn
  <1>2. f.node \in Node /\ f.base \in Nat
    BY DEF frame_t
  <1> QED
    BY <1>1, <1>2 DEF frame_t

\* A call pushes no more than it has evaluated, and only then pops.
CallFrame(fr) ==
  /\ fr.loc = Fresh \/ fr.loc \in 0..fr.at
  /\ fr.loc # Fresh => Len(fr.node.args) <= 6 /\ fr.loc <= Len(fr.node.args)

FrameInv(fr) ==
  /\ fr.node.type = "AST_CALL" => CallFrame(fr)
  /\ fr.node.type = "AST_BINARY" => fr.at <= 2

(***************************************************************************)
(* The inductive invariant of the frames.  A function's frame is the       *)
(* oldest one, and only that; a frame was entered at the depth its caller  *)
(* had reached, so push_depth is what all frames together hold.            *)
(***************************************************************************)
IsWalk(fs) ==
  /\ \A k \in 1..Len(fs) : FrameInv(fs[k])
  /\ \A k \in 1..Len(fs) : fs[k].node.type = "AST_FUNC_DECL" <=> k = 1
  /\ \A k \in 1..Len(fs) - 1 : fs[k+1].base = fs[k].base + Held(fs[k])
  /\ Len(fs) > 0 => fs[1].base = 0
  /\ Len(fs) > 1 => fs[1].loc # Fresh

HeldBy(fs) == IF Len(fs) = 0 THEN 0 ELSE fs[Len(fs)].base + Held(fs[Len(fs)])

FramesInv == frames \in Seq(frame_t) /\ IsWalk(frames)
DepthInv == push_depth \in Nat /\ push_depth = HeldBy(frames)

WalkInv ==
  /\ program \in Programs
  /\ phase \in {"start", "data", "text", "done", "error"}
  /\ i \in Nat \ {0}
  /\ phase \in {"start", "data", "done"} => frames = <<>>

IInv ==
  /\ WalkInv
  /\ FramesInv
  /\ DepthInv
  /\ rsp \in Int
  /\ call_rsp \subseteq Int
  /\ DepthMatchesStack
  /\ CallAligned

-----------------------------------------------------------------------------
(* The tree *)

\* The sub-nodes of a node of the tree are nodes, and never functions.
LEMMA SubsTyped ==
  ASSUME NEW n \in Node
  PROVE  /\ Subs(n) \in Seq(Node)
         /\ \A k \in 1..Len(Subs(n)) : Subs(n)[k].type # "AST_FUNC_DECL"
  <1>1. WellFormed(n)
    BY ProgramsAssumption
  <1>2. Subs(n) \in Seq(Node) /\ \A k \in DOMAIN Subs(n) : Subs(n)[k].type \in SubTypes(n)
    BY <1>1 DEF WellFormed
  <1>3. "AST_FUNC_DECL" \notin SubTypes(n)
    BY DEF SubTypes, expr_t, stmt_t
  <1> QED
    BY <1>2, <1>3

\* compute_frame_size rounds up to a multiple of 16.
LEMMA FrameSizeRounded ==
  ASSUME NEW n \in Node, n.type = "AST_FUNC_DECL"
  PROVE  compute_frame_size(n) \in Nat /\ compute_frame_size(n) % 16 = 0
  <1> DEFINE size == count_locals(n.block) + 8 * Len(n.func_t.params)
  <1>1. IsBlock(n.block) /\ Len(n.func_t.params) \in Nat
    BY ProgramsAssumption DEF WellFormed
  <1>2. n.block \in Node /\ n.block.type = "AST_BLOCK"
    BY <1>1 DEF IsBlock
  <1>3. n.block.nodes \in Seq(Node)
    BY <1>2, ProgramsAssumption DEF WellFormed, Subs
  <1>4. Len(n.block.nodes) \in Nat /\ Len(n.block.nodes) \in 0..Len(n.block.nodes)
    BY <1>3
  <1>5. LocalsSum(n.block, Len(n.block.nodes)) \in Nat
    BY <1>2, <1>4, LocalsSumAssumption
  <1>6. count_locals(n.block) \in Nat
    BY <1>2, <1>5 DEF count_locals, BlockLocals, Null
  <1>7. size \in Nat
    BY <1>1, <1>6
  <1>8. compute_frame_size(n) = IF size % 16 # 0 THEN size + (16 - (size % 16)) ELSE size
    BY DEF compute_frame_size
  <1> HIDE DEF size
  <1> QED
    BY <1>7, <1>8

-----------------------------------------------------------------------------
(* The frames *)

LEMMA FrameExcept ==
  ASSUME NEW f \in frame_t, NEW a \in Nat, NEW l \in Int,
         NEW t, t = [f EXCEPT !.at = a, !.loc = l]
  PROVE  t \in frame_t /\ t.node = f.node /\ t.base = f.base /\ t.at = a /\ t.loc = l
  BY DEF frame_t

LEMMA Positive ==
  ASSUME NEW n \in Nat, n > 0
  PROVE  n = 1 \/ n > 1
  OBVIOUS

\* Replacing the last element, removing it, and adding one.
LEMMA ReplaceLast ==
  ASSUME NEW S, NEW s \in Seq(S), Len(s) > 0, NEW t \in S
  PROVE  LET r == [s EXCEPT ![Len(s)] = t]
         IN /\ r \in Seq(S)
            /\ Len(r) = Len(s)
            /\ \A k \in 1..Len(s) : r[k] = IF k = Len(s) THEN t ELSE s[k]
  OBVIOUS

LEMMA RemoveLast ==
  ASSUME NEW S, NEW s \in Seq(S), Len(s) > 0
  PROVE  /\ Front(s) \in Seq(S)
         /\ Len(Front(s)) = Len(s) - 1
         /\ \A k \in 1..Len(s) - 1 : Front(s)[k] = s[k]
  <1>1. Len(s) \in Nat /\ Len(s) - 1 \in Nat /\ 1 <= Len(s)
    OBVIOUS
  <1>2. \A k \in 1..Len(s) - 1 : s[k] \in S
    OBVIOUS
  <1>3. /\ SubSeq(s, 1, Len(s) - 1) \in Seq(S)
        /\ Len(SubSeq(s, 1, Len(s) - 1)) = IF 1 <= Len(s) - 1 THEN (Len(s) - 1) - 1 + 1 ELSE 0
        /\ \A k \in 1..(Len(s) - 1) - 1 + 1 : SubSeq(s, 1, Len(s) - 1)[k] = s[1 + k - 1]
    BY <1>1, <1>2, SubSeqProperties
  <1>4. Len(SubSeq(s, 1, Len(s) - 1)) = Len(s) - 1
    <2>1. CASE Len(s) = 1
      BY <2>1, <1>3
    <2>2. CASE Len(s) > 1
      BY <2>2, <1>1, <1>3
    <2>3. Len(s) = 1 \/ Len(s) > 1
      BY <1>1, Positive, Zenon
    <2> QED
      BY <2>1, <2>2, <2>3, Zenon
  <1>5. \A k \in 1..Len(s) - 1 : SubSeq(s, 1, Len(s) - 1)[k] = s[k]
    BY <1>1, <1>3
  <1> QED
    BY <1>3, <1>4, <1>5 DEF Front

LEMMA AddLast ==
  ASSUME NEW S, NEW s \in Seq(S), NEW t \in S
  PROVE  /\ Append(s, t) \in Seq(S)
         /\ Len(Append(s, t)) = Len(s) + 1
         /\ \A k \in 1..Len(s) + 1 : Append(s, t)[k] = IF k = Len(s) + 1 THEN t ELSE s[k]
  OBVIOUS

(***************************************************************************)
(* A step that changes the youngest frame, keeping its node and base.      *)
(***************************************************************************)
LEMMA UpdateWalk ==
  ASSUME NEW fs \in Seq(frame_t), Len(fs) > 0, IsWalk(fs),
         NEW t \in frame_t, FrameInv(t), t.node = fs[Len(fs)].node, t.base = fs[Len(fs)].base,
         NEW gs, gs \in Seq(frame_t), Len(gs) = Len(fs),
         \A k \in 1..Len(fs) : gs[k] = IF k = Len(fs) THEN t ELSE fs[k]
  PROVE  IsWalk(gs) /\ HeldBy(gs) = t.base + Held(t)
  <1>1. Len(fs) \in Nat \ {0}
    OBVIOUS
  <1>2. \A k \in 1..Len(fs) : gs[k].node = fs[k].node /\ gs[k].base = fs[k].base
    OBVIOUS
  <1>3. \A k \in 1..Len(gs) : FrameInv(gs[k])
    BY DEF IsWalk
  <1>4. \A k \in 1..Len(gs) : gs[k].node.type = "AST_FUNC_DECL" <=> k = 1
    BY <1>2 DEF IsWalk
  <1>5. \A k \in 1..Len(gs) - 1 : gs[k+1].base = gs[k].base + Held(gs[k])
    BY <1>1, <1>2 DEF IsWalk
  <1>6. gs[1].base = 0 /\ (Len(gs) > 1 => gs[1].loc # Fresh)
    BY <1>1, <1>2 DEF IsWalk
  <1> QED
    BY <1>1, <1>3, <1>4, <1>5, <1>6 DEF IsWalk, HeldBy

(***************************************************************************)
(* A recursive call at the depth the caller has reached.                   *)
(***************************************************************************)
LEMMA DescendWalk ==
  ASSUME NEW fs \in Seq(frame_t), Len(fs) > 0, IsWalk(fs), fs[1].loc # Fresh,
         NEW t \in frame_t, FrameInv(t), t.node.type # "AST_FUNC_DECL",
         t.base = HeldBy(fs), t.at = 0, t.loc = Fresh
  PROVE  IsWalk(Append(fs, t)) /\ HeldBy(Append(fs, t)) = t.base
  <1> DEFINE n == Len(fs)
             gs == Append(fs, t)
  <1>1. n \in Nat \ {0}
    OBVIOUS
  <1>2. Len(gs) = n + 1 /\ \A k \in 1..n+1 : gs[k] = IF k = n + 1 THEN t ELSE fs[k]
    BY AddLast
  <1>3. gs[n+1] = t /\ gs[n] = fs[n] /\ gs[1] = fs[1]
    BY <1>1, <1>2
  <1>4. Held(t) = 0
    BY DEF Held
  <1> HIDE DEF gs
  <1>5. \A k \in 1..n+1 : FrameInv(gs[k])
    BY <1>1, <1>2 DEF IsWalk
  <1>6. \A k \in 1..n+1 : gs[k].node.type = "AST_FUNC_DECL" <=> k = 1
    BY <1>1, <1>2 DEF IsWalk
  <1>7. ASSUME NEW k \in 1..n
        PROVE  gs[k+1].base = gs[k].base + Held(gs[k])
    <2>1. CASE k = n
      BY <2>1, <1>1, <1>3 DEF HeldBy
    <2>2. CASE k # n
      <3>1. k \in 1..n - 1 /\ gs[k+1] = fs[k+1] /\ gs[k] = fs[k]
        BY <2>2, <1>1, <1>2
      <3> QED
        BY <3>1 DEF IsWalk
    <2> QED
      BY <2>1, <2>2
  <1>8. HeldBy(gs) = t.base
    <2>1. HeldBy(gs) = t.base + 0
      BY <1>1, <1>2, <1>3, <1>4 DEF HeldBy
    <2> QED
      BY <2>1 DEF frame_t
  <1>9. IsWalk(gs)
    BY <1>1, <1>2, <1>3, <1>5, <1>6, <1>7 DEF IsWalk
  <1> QED
    BY <1>8, <1>9 DEF gs

(***************************************************************************)
(* A return to the caller: what is held drops to the base of the frame.    *)
(***************************************************************************)
LEMMA ReturnWalk ==
  ASSUME NEW fs \in Seq(frame_t), Len(fs) > 0, IsWalk(fs)
  PROVE  IsWalk(Front(fs)) /\ HeldBy(Front(fs)) = fs[Len(fs)].base
  <1> DEFINE n == Len(fs)
             gs == Front(fs)
  <1>1. n \in Nat \ {0}
    OBVIOUS
  <1>2. Len(gs) = n - 1 /\ \A k \in 1..n - 1 : gs[k] = fs[k]
    BY RemoveLast
  <1> HIDE DEF gs
  <1>3. IsWalk(gs)
    <2>1. \A k \in 1..n - 1 : FrameInv(gs[k])
      BY <1>1, <1>2 DEF IsWalk
    <2>2. \A k \in 1..n - 1 : gs[k].node.type = "AST_FUNC_DECL" <=> k = 1
      BY <1>1, <1>2 DEF IsWalk
    <2>3. ASSUME NEW k \in 1..(n - 1) - 1
          PROVE  gs[k+1].base = gs[k].base + Held(gs[k])
      <3>1. k \in 1..n - 1 /\ gs[k+1] = fs[k+1] /\ gs[k] = fs[k]
        BY <1>1, <1>2
      <3> QED
        BY <3>1 DEF IsWalk
    <2>4. /\ n - 1 > 0 => gs[1].base = 0
          /\ n - 1 > 1 => gs[1].loc # Fresh
      BY <1>1, <1>2 DEF IsWalk
    <2> QED
      BY <1>1, <1>2, <2>1, <2>2, <2>3, <2>4 DEF IsWalk
  <1>4. HeldBy(gs) = fs[n].base
    <2>1. CASE n = 1
      BY <2>1, <1>2 DEF HeldBy, IsWalk
    <2>2. CASE n > 1
      <3>1. n - 1 \in 1..n - 1 /\ (n - 1) + 1 = n
        BY <2>2, <1>1
      <3>2. fs[n].base = fs[n-1].base + Held(fs[n-1])
        BY <3>1 DEF IsWalk
      <3> QED
        BY <3>1, <3>2, <1>2 DEF HeldBy
    <2> QED
      BY <2>1, <2>2, <1>1
  <1> QED
    BY <1>3, <1>4 DEF gs

-----------------------------------------------------------------------------
(* What the steps of the walk do to the frames *)

LEMMA TopTyped ==
  ASSUME FramesInv, frames # <<>>
  PROVE  /\ Len(frames) \in Nat /\ Len(frames) > 0
         /\ Top = frames[Len(frames)]
         /\ Top \in frame_t
         /\ FrameInv(Top)
         /\ Top.node.type = "AST_FUNC_DECL" <=> Len(frames) = 1
         /\ Top.node \in Node /\ Top.at \in Nat /\ Top.base \in Nat /\ Top.loc \in Int
         /\ HeldBy(frames) = Top.base + Held(Top)
  <1>1. frames \in Seq(frame_t) /\ IsWalk(frames)
    BY DEF FramesInv
  <1>2. Len(frames) \in Nat /\ Len(frames) > 0 /\ Len(frames) \in 1..Len(frames)
    BY <1>1
  <1>3. Top = frames[Len(frames)]
    BY DEF Top, Last
  <1>4. Top \in frame_t
    BY <1>1, <1>2, <1>3
  <1>5. Top.node \in Node /\ Top.at \in Nat /\ Top.base \in Nat /\ Top.loc \in Int
    BY <1>4 DEF frame_t
  <1>6. FrameInv(Top) /\ (Top.node.type = "AST_FUNC_DECL" <=> Len(frames) = 1)
    BY <1>1, <1>2, <1>3 DEF IsWalk
  <1>7. HeldBy(frames) = Top.base + Held(Top)
    BY <1>2, <1>3 DEF HeldBy
  <1> QED
    BY <1>2, <1>3, <1>4, <1>5, <1>6, <1>7

\* The oldest frame stays, and is past its prologue if it was.
SameFunction ==
  /\ frames' # <<>> => frames'[1].node = frames[1].node
  /\ frames' # <<>> /\ frames'[1].loc # Fresh => frames[1].loc # Fresh

LEMMA DescendStep ==
  ASSUME FramesInv, DepthInv, frames # <<>>,
         NEW l \in Int, NEW depth \in Nat, Descend(l, depth), push_depth' = depth,
         NEW t, t = [Top EXCEPT !.at = @ + 1, !.loc = l],
         FrameInv(t), depth = Top.base + Held(t),
         Top.node.type = "AST_FUNC_DECL" => Top.loc # Fresh /\ l # Fresh
  PROVE  FramesInv' /\ DepthInv' /\ SameFunction
  <1> DEFINE n == Len(frames)
             fs == [frames EXCEPT ![n] = t]
             new == Frame(Subs(Top.node)[Top.at + 1], depth)
  <1>1. frames \in Seq(frame_t) /\ IsWalk(frames)
    BY DEF FramesInv
  <1>2. /\ n \in Nat /\ n > 0 /\ Top = frames[n] /\ Top \in frame_t
        /\ Top.node \in Node /\ Top.at \in Nat
        /\ Top.node.type = "AST_FUNC_DECL" <=> n = 1
    BY TopTyped
  <1>3. t \in frame_t /\ t.node = Top.node /\ t.base = Top.base /\ t.loc = l
    <2>1. Top.at + 1 \in Nat
      BY <1>2
    <2>2. PICK f \in frame_t : f = Top
      BY <1>2
    <2>3. t = [f EXCEPT !.at = f.at + 1, !.loc = l] /\ f.at + 1 \in Nat
      BY <2>1, <2>2
    <2>4. t \in frame_t /\ t.node = f.node /\ t.base = f.base /\ t.loc = l
      BY ONLY <2>3, f \in frame_t, l \in Int DEF frame_t
    <2> QED
      BY <2>2, <2>4
  <1>4. /\ fs \in Seq(frame_t) /\ Len(fs) = n
        /\ \A k \in 1..n : fs[k] = IF k = n THEN t ELSE frames[k]
    BY <1>1, <1>2, <1>3, ReplaceLast
  <1>0. fs = [frames EXCEPT ![n].at = @ + 1, ![n].loc = l]
    BY <1>1, <1>2
  <1> HIDE DEF fs
  <1>14. fs[n] = t
    BY <1>2, <1>4
  <1>5. IsWalk(fs) /\ HeldBy(fs) = depth
    <2>1. t.node = frames[Len(frames)].node /\ t.base = frames[Len(frames)].base
      BY <1>2, <1>3
    <2>2. Len(fs) = Len(frames) /\ \A k \in 1..Len(frames) : fs[k] = IF k = Len(frames) THEN t ELSE frames[k]
      BY <1>4
    <2>3. IsWalk(fs) /\ HeldBy(fs) = t.base + Held(t)
      BY ONLY <1>1, <1>2, <1>3, <1>4, <2>1, <2>2, FrameInv(t), UpdateWalk
    <2> QED
      BY <2>3, <1>3
  <1>6. new.node \in Node /\ new.node.type # "AST_FUNC_DECL"
    <2>1. Len(Subs(Top.node)) \in Nat /\ Top.at < Len(Subs(Top.node))
      BY <1>2, SubsTyped DEF Descend
    <2>2. Top.at + 1 \in 1..Len(Subs(Top.node))
      BY <1>2, <2>1
    <2> QED
      BY <1>2, <2>2, SubsTyped DEF Frame
  <1>7. new \in frame_t /\ new.base = depth /\ new.at = 0 /\ new.loc = Fresh
    BY <1>6 DEF Frame, frame_t, Fresh
  <1>8. FrameInv(new)
    BY <1>7 DEF FrameInv, CallFrame
  <1>9. frames' = Append(fs, new)
    BY <1>0 DEF Descend
  <1>10. fs[1].loc # Fresh
    <2>1. CASE n = 1
      BY <2>1, <1>2, <1>3, <1>14
    <2>2. CASE n > 1
      BY <2>2, <1>1, <1>2, <1>4 DEF IsWalk
    <2> QED
      BY <2>1, <2>2, <1>2, Positive, Zenon
  <1>11. fs[1].node = frames[1].node /\ frames[1].loc # Fresh
    <2>1. CASE n = 1
      BY <2>1, <1>2, <1>3, <1>14
    <2>2. CASE n > 1
      BY <2>2, <1>1, <1>2, <1>4 DEF IsWalk
    <2> QED
      BY <2>1, <2>2, <1>2, Positive, Zenon
  <1> HIDE DEF new
  <1>12. IsWalk(Append(fs, new)) /\ HeldBy(Append(fs, new)) = depth
    BY <1>2, <1>4, <1>5, <1>6, <1>7, <1>8, <1>10, DescendWalk
  <1>13. Append(fs, new) \in Seq(frame_t) /\ Append(fs, new)[1] = fs[1]
    BY <1>2, <1>4, <1>7, AddLast
  <1> QED
    BY <1>9, <1>11, <1>12, <1>13 DEF FramesInv, DepthInv, SameFunction

LEMMA ReturnStep ==
  ASSUME FramesInv, DepthInv, frames # <<>>, Return, push_depth' = Top.base
  PROVE  FramesInv' /\ DepthInv' /\ SameFunction
  <1>1. frames \in Seq(frame_t) /\ IsWalk(frames)
    BY DEF FramesInv
  <1>2. Len(frames) \in Nat /\ Len(frames) > 0 /\ Top = frames[Len(frames)] /\ Top.base \in Nat
    BY TopTyped
  <1>3. frames' = Front(frames)
    BY DEF Return
  <1>4. IsWalk(frames') /\ HeldBy(frames') = Top.base
    BY <1>1, <1>2, <1>3, ReturnWalk
  <1>5. /\ frames' \in Seq(frame_t) /\ Len(frames') = Len(frames) - 1
        /\ \A k \in 1..Len(frames) - 1 : frames'[k] = frames[k]
    BY <1>1, <1>2, <1>3, RemoveLast
  <1>6. frames' # <<>> => frames'[1] = frames[1]
    BY <1>2, <1>5
  <1> QED
    BY <1>2, <1>4, <1>5, <1>6 DEF FramesInv, DepthInv, SameFunction

\* A step that changes the youngest frame's `at` and `loc` only.
LEMMA UpdateStep ==
  ASSUME FramesInv, DepthInv, frames # <<>>,
         NEW t \in frame_t, t.node = Top.node, t.base = Top.base, FrameInv(t),
         frames' = [frames EXCEPT ![Len(frames)] = t],
         push_depth' = Top.base + Held(t), push_depth' \in Nat
  PROVE  /\ FramesInv' /\ DepthInv'
         /\ frames'[1].node = frames[1].node
         /\ Len(frames) > 1 => frames'[1] = frames[1]
         /\ Len(frames) = 1 => frames'[1] = t
         /\ frames' # <<>>
  <1>1. frames \in Seq(frame_t) /\ IsWalk(frames)
    BY DEF FramesInv
  <1>2. Len(frames) \in Nat /\ Len(frames) > 0 /\ Top = frames[Len(frames)] /\ Top.base \in Nat
    BY TopTyped
  <1>3. /\ frames' \in Seq(frame_t) /\ Len(frames') = Len(frames)
        /\ \A k \in 1..Len(frames) : frames'[k] = IF k = Len(frames) THEN t ELSE frames[k]
    BY <1>1, <1>2, ReplaceLast
  <1>4. IsWalk(frames') /\ HeldBy(frames') = Top.base + Held(t)
    BY <1>1, <1>2, <1>3, UpdateWalk
  <1>5. frames'[1].node = frames[1].node /\ frames' # <<>>
    BY <1>2, <1>3
  <1>6. /\ Len(frames) > 1 => frames'[1] = frames[1]
        /\ Len(frames) = 1 => frames'[1] = t
    BY <1>2, <1>3
  <1> QED
    BY <1>3, <1>4, <1>5, <1>6 DEF FramesInv, DepthInv

-----------------------------------------------------------------------------
(* What the emitted lines do to the stack *)

LEMMA EmittingNone ==
  ASSUME NEW r PROVE StackAfterAll(r, <<>>) = r
  BY DEF StackAfterAll

LEMMA EmittingOne ==
  ASSUME NEW r, NEW a PROVE StackAfterAll(r, <<a>>) = StackAfter(r, a)
  BY DEF StackAfterAll

LEMMA EmittingTwo ==
  ASSUME NEW r, NEW a, NEW b
  PROVE  StackAfterAll(r, <<a, b>>) = StackAfter(StackAfter(r, a), b)
  BY DEF StackAfterAll

LEMMA EmittingThree ==
  ASSUME NEW r, NEW a, NEW b, NEW c
  PROVE  StackAfterAll(r, <<a, b, c>>) = StackAfter(StackAfter(StackAfter(r, a), b), c)
  BY DEF StackAfterAll

LEMMA EmittingFour ==
  ASSUME NEW r, NEW a, NEW b, NEW c, NEW d
  PROVE  StackAfterAll(r, <<a, b, c, d>>) =
           StackAfter(StackAfter(StackAfter(StackAfter(r, a), b), c), d)
  BY DEF StackAfterAll

LEMMA EmittingFive ==
  ASSUME NEW r, NEW a, NEW b, NEW c, NEW d, NEW e
  PROVE  StackAfterAll(r, <<a, b, c, d, e>>) =
           StackAfter(StackAfter(StackAfter(StackAfter(StackAfter(r, a), b), c), d), e)
  BY DEF StackAfterAll

\* The opcodes that never move the stack pointer.
still_op == {"imul", "idiv", "cmp", "call", "jmp", "je", "lea", "neg", "sete", "setne",
             "setl", "setg", "setge", "setle", "movzb", "cqto", "ret",
             ".globl", ".data", ".text", ".byte", ".word", ".long", ".quad"}

LEMMA StillLine ==
  ASSUME NEW r, NEW o \in still_op, NEW z, NEW a, NEW b
  PROVE  StackAfter(r, Line(o, z, a, b)) = r
  BY DEF StackAfter, Line, still_op

LEMMA PushLine ==
  ASSUME NEW r, NEW a PROVE StackAfter(r, emit_push(a)) = r + 8
  BY DEF StackAfter, emit_push, Line

LEMMA PopLine ==
  ASSUME NEW r, NEW a PROVE StackAfter(r, emit_pop(a)) = r - 8
  BY DEF StackAfter, emit_pop, Line

LEMMA MovLine ==
  ASSUME NEW r, NEW a, NEW b, b # RSP PROVE StackAfter(r, emit_mov(a, b)) = r
  BY DEF StackAfter, emit_mov, Line

LEMMA RestoreLine ==
  ASSUME NEW r, NEW a PROVE StackAfter(r, emit_mov(a, RSP)) = 8
  BY DEF StackAfter, emit_mov, Line

LEMMA AddLine ==
  ASSUME NEW r, NEW a, NEW b, b # RSP
  PROVE  StackAfter(r, emit_add(a, b)) = r /\ StackAfter(r, emit_sub(a, b)) = r
  BY DEF StackAfter, emit_add, emit_sub, Line

LEMMA AdjustLine ==
  ASSUME NEW r, NEW k
  PROVE  /\ StackAfter(r, emit_sub(mk_immutable(k), RSP)) = r + k
         /\ StackAfter(r, emit_add(mk_immutable(k), RSP)) = r - k
  BY DEF StackAfter, emit_add, emit_sub, Line, mk_immutable, NoOperand

LEMMA LabelLine ==
  ASSUME NEW r, NEW k, NEW x \in Name
  PROVE  /\ StackAfter(r, Label(mk_local_label(k))) = r
         /\ StackAfter(r, Label(mk_label(x))) = 0
  BY ProgramsAssumption DEF StackAfter, Label, Line, mk_local_label, mk_label, NoOperand

\* The operands the code generator moves to, other than %rsp.
LEMMA NotRSP ==
  ASSUME NEW k, NEW x
  PROVE  /\ RAX # RSP /\ RCX # RSP /\ RBP # RSP
         /\ Slot(k) # RSP
         /\ mk_rip(x) # RSP
  BY DEF RAX, RCX, RBP, RSP, Slot, mk_rip, mk_mem, mk_register, NoOperand

\* Concatenations of written-out sequences.
LEMMA ConcatTwo ==
  ASSUME NEW a, NEW b
  PROVE  <<a>> \o <<b>> = <<a, b>>
  <1>1. <<a>> \o <<b>> = Append(<<a>>, b)
    OBVIOUS
  <1>2. <<a, b>> = Append(<<a>>, b)
    OBVIOUS
  <1> QED
    BY <1>1, <1>2, Zenon

LEMMA ConcatThree ==
  ASSUME NEW a, NEW b, NEW c
  PROVE  <<a, b>> \o <<c>> = <<a, b, c>>
  <1>1. <<a, b>> \o <<c>> = Append(<<a, b>>, c)
    OBVIOUS
  <1>2. <<a, b, c>> = Append(<<a, b>>, c)
    OBVIOUS
  <1> QED
    BY <1>1, <1>2, Zenon

LEMMA ConcatFour ==
  ASSUME NEW a, NEW b, NEW c, NEW d
  PROVE  <<a, b>> \o <<c, d>> = <<a, b, c, d>>
  <1>1. <<a, b>> \o <<c, d>> = Append(<<a, b>> \o <<c>>, d)
    OBVIOUS
  <1>2. <<a, b, c, d>> = Append(<<a, b, c>>, d)
    OBVIOUS
  <1> QED
    BY <1>1, <1>2, ConcatThree, Zenon

LEMMA ConcatFive ==
  ASSUME NEW a, NEW b, NEW c, NEW d, NEW e
  PROVE  <<a, b>> \o <<c, d, e>> = <<a, b, c, d, e>>
  <1>1. <<a, b>> \o <<c, d, e>> = Append(<<a, b>> \o <<c, d>>, e)
    OBVIOUS
  <1>2. <<a, b, c, d, e>> = Append(<<a, b, c, d>>, e)
    OBVIOUS
  <1> QED
    BY <1>1, <1>2, ConcatFour, Zenon

LEMMA ConcatLast ==
  ASSUME NEW a, NEW b, NEW c, NEW d, NEW e
  PROVE  <<a, b, c, d>> \o <<e>> = <<a, b, c, d, e>>
  <1>1. <<a, b, c, d>> \o <<e>> = Append(<<a, b, c, d>>, e)
    OBVIOUS
  <1>2. <<a, b, c, d, e>> = Append(<<a, b, c, d>>, e)
    OBVIOUS
  <1> QED
    BY <1>1, <1>2, Zenon

LEMMA ConcatNone ==
  ASSUME NEW a, NEW b, NEW c, NEW d
  PROVE  <<a>> \o <<>> = <<a>> /\ <<a, b, c, d>> \o <<>> = <<a, b, c, d>>
  <1>1. <<a>> \in Seq({a}) /\ <<a, b, c, d>> \in Seq({a, b, c, d})
    OBVIOUS
  <1> QED
    BY <1>1, ConcatEmptySeq

LEMMA EmitUnary ==
  ASSUME NEW r, NEW op \in {"U_NEG", "U_NOT", "U_POS"}
  PROVE  StackAfterAll(r, UnaryLines(op)) = r
  <1>1. CASE op = "U_NEG"
    BY <1>1, EmittingOne, StillLine DEF UnaryLines, negq, still_op
  <1>2. CASE op = "U_NOT"
    BY <1>2, EmittingThree, StillLine DEF UnaryLines, emit_cmp, setcc, movzbq, still_op
  <1>3. CASE op = "U_POS"
    BY <1>3, EmittingNone DEF UnaryLines
  <1> QED
    BY <1>1, <1>2, <1>3

\* A binary operator pops its left operand.
LEMMA EmitBinary ==
  ASSUME NEW r, NEW op \in binary_expr_t
  PROVE  StackAfterAll(r, <<emit_mov(RAX, RCX), pop_into("REG_RAX")>> \o BinaryLines(op)) = r - 8
  <1> DEFINE a == emit_mov(RAX, RCX)
             b == pop_into("REG_RAX")
  <1> SUFFICES StackAfterAll(r, <<a, b>> \o BinaryLines(op)) = r - 8
    OBVIOUS
  <1>1. StackAfter(r, a) = r /\ StackAfter(r, b) = r - 8
    BY NotRSP, MovLine, PopLine DEF pop_into
  <1> HIDE DEF a, b
  <1>5. CASE op \in {"B_ADD", "B_SUB", "B_MUL"}
    <2>1. PICK x : BinaryLines(op) = <<x>> /\ \A q : StackAfter(q, x) = q
      BY <1>5, NotRSP, AddLine, StillLine DEF BinaryLines, emit_imul, still_op
    <2> QED
      <3>1. <<a, b>> \o BinaryLines(op) = <<a, b, x>>
        BY <2>1, ConcatThree, Zenon
      <3>2. StackAfterAll(r, <<a, b, x>>) = StackAfter(StackAfter(StackAfter(r, a), b), x)
        BY EmittingThree
      <3> QED
        BY <1>1, <2>1, <3>1, <3>2
  <1>6. CASE op = "B_DIV"
    <2>1. PICK x, y : BinaryLines(op) = <<x, y>> /\ \A q : StackAfter(q, x) = q /\ StackAfter(q, y) = q
      BY <1>6, StillLine DEF BinaryLines, cqto, emit_idiv, still_op
    <2> QED
      <3>1. <<a, b>> \o BinaryLines(op) = <<a, b, x, y>>
        BY <2>1, ConcatFour, Zenon
      <3>2. StackAfterAll(r, <<a, b, x, y>>) =
              StackAfter(StackAfter(StackAfter(StackAfter(r, a), b), x), y)
        BY EmittingFour
      <3> QED
        BY <1>1, <2>1, <3>1, <3>2
  <1>7. CASE op \in comparison_t
    <2> DEFINE x == emit_cmp(RCX, RAX)
               y == setcc(setcc_of(op))
               z == movzbq
    <2>1. BinaryLines(op) = <<x, y, z>>
      BY <1>7 DEF BinaryLines, comparison_t
    <2>2. setcc_of(op) \in still_op
      BY <1>7 DEF setcc_of, comparison_t, still_op
    <2>3. \A q : StackAfter(q, x) = q /\ StackAfter(q, y) = q /\ StackAfter(q, z) = q
      BY <2>2, StillLine DEF emit_cmp, setcc, movzbq, still_op
    <2> HIDE DEF x, y, z
    <2>4. <<a, b>> \o BinaryLines(op) = <<a, b, x, y, z>>
      BY <2>1, ConcatFive, ZenonT(60)
    <2>5. StackAfterAll(r, <<a, b, x, y, z>>) =
            StackAfter(StackAfter(StackAfter(StackAfter(StackAfter(r, a), b), x), y), z)
      BY EmittingFive
    <2> QED
      BY <1>1, <2>3, <2>4, <2>5
  <1> QED
    BY <1>5, <1>6, <1>7 DEF binary_expr_t, arithmetic_t

\* A call restores what its padding took.
LEMMA EmitPad ==
  ASSUME NEW r \in Int, NEW f \in frame_t, NEW x
  PROVE  /\ Pad(f) \in {0, 1}
         /\ StackAfterAll(r, PadLines(f)) = r + 8 * Pad(f)
         /\ StackAfterAll(r, <<emit_call(x)>> \o UnpadLines(f)) = r - 8 * Pad(f)
  <1>1. Pad(f) \in {0, 1}
    BY DEF Pad, frame_t
  <1>2. StackAfter(r, emit_call(x)) = r
    BY StillLine DEF emit_call, still_op
  <1> DEFINE a == emit_call(x)
             b == emit_add(mk_immutable(8), RSP)
  <1>3. <<a>> \o <<>> = <<a>> /\ <<a>> \o <<b>> = <<a, b>>
    <2> HIDE DEF a, b
    <2>1. <<a>> \o <<>> = <<a>>
      BY ConcatNone, Zenon
    <2>2. <<a>> \o <<b>> = <<a, b>>
      BY ConcatTwo, Zenon
    <2> QED
      BY <2>1, <2>2
  <1>4. CASE Pad(f) = 0
    BY <1>4, <1>2, <1>3, EmittingNone, EmittingOne DEF PadLines, UnpadLines, Unpad
  <1>5. CASE Pad(f) = 1
    <2>1. PadLines(f) = <<emit_sub(mk_immutable(8), RSP)>> /\ UnpadLines(f) = <<b>>
      BY <1>5 DEF PadLines, UnpadLines, Unpad
    <2>2. StackAfterAll(r, PadLines(f)) = r + 8
      BY <2>1, EmittingOne, AdjustLine
    <2>3. StackAfter(r, b) = r - 8
      BY AdjustLine
    <2> HIDE DEF a, b
    <2>4. StackAfterAll(r, <<a, b>>) = r - 8
      BY <1>2, <2>3, EmittingTwo DEF a
    <2>5. <<a>> \o UnpadLines(f) = <<a, b>>
      BY <1>3, <2>1, Zenon
    <2>6. StackAfterAll(r, <<a>> \o UnpadLines(f)) = r - 8
      BY <2>4, <2>5
    <2> QED
      BY <1>5, <2>2, <2>6 DEF a
  <1> QED
    BY <1>1, <1>4, <1>5

\* The prologue saves %rbp and reserves the frame; the epilogue leaves nothing.
LEMMA EmitPrologue ==
  ASSUME NEW r \in Int, NEW x \in Name, NEW size \in Nat
  PROVE  StackAfterAll(r, Prologue(mk_label(x), size)) = 8 + size
  <1> DEFINE a == Directive(".globl", mk_label(x))
             b == Label(mk_label(x))
             c == emit_push(RBP)
             d == emit_mov(RSP, RBP)
             e == emit_sub(mk_immutable(size), RSP)
  <1>1. StackAfter(StackAfter(StackAfter(StackAfter(r, a), b), c), d) = 8
    BY StillLine, LabelLine, PushLine, MovLine, NotRSP DEF Directive, still_op
  <1>2. StackAfter(8, e) = 8 + size
    BY AdjustLine
  <1>3. Prologue(mk_label(x), size) = <<a, b, c, d>> \o (IF size > 0 THEN <<e>> ELSE <<>>)
    BY DEF Prologue
  <1> HIDE DEF a, b, c, d, e
  <1>4. CASE size = 0
    <2>1. <<a, b, c, d>> \o <<>> = <<a, b, c, d>>
      BY ConcatNone, Zenon
    <2>2. StackAfterAll(r, <<a, b, c, d>>) = 8
      BY <1>1, EmittingFour
    <2> QED
      BY <2>1, <2>2, <1>3, <1>4
  <1>5. CASE size > 0
    <2>1. <<a, b, c, d>> \o <<e>> = <<a, b, c, d, e>>
      BY ConcatLast, Zenon
    <2>2. StackAfterAll(r, <<a, b, c, d, e>>) = 8 + size
      BY <1>1, <1>2, EmittingFive
    <2> QED
      BY <2>1, <2>2, <1>3, <1>5
  <1> QED
    BY <1>4, <1>5

LEMMA EmitEpilogue ==
  ASSUME NEW r, NEW k
  PROVE  StackAfterAll(r, Epilogue(k)) = 0
  <1>1. StackAfter(0, ret) = 0
    BY StillLine DEF ret, still_op
  <1>2. StackAfter(8, emit_pop(RBP)) = 0
    BY PopLine
  <1> QED
    BY <1>1, <1>2, EmittingFour, RestoreLine DEF Epilogue

-----------------------------------------------------------------------------
(* What a step inside a function preserves *)

\* A step of the frame on top, whatever it does to the frames.
Stepping == phase = "text" /\ frames # <<>> /\ UNCHANGED walkVars

LEMMA BodyStep ==
  ASSUME IInv, Stepping, FramesInv', DepthInv', SameFunction,
         rsp' = rsp + 8 * (push_depth' - push_depth),
         call_rsp' \subseteq Int, CallAligned'
  PROVE  IInv'
  <1>1. WalkInv'
    BY DEF IInv, WalkInv, Stepping, walkVars
  <1>2. push_depth \in Nat /\ push_depth' \in Nat /\ rsp \in Int /\ rsp' \in Int
    BY DEF IInv, DepthInv
  <1>3. DepthMatchesStack'
    <2>1. SUFFICES ASSUME InBody'
                   PROVE  rsp' = 8 + FrameSize' + 8 * push_depth'
      BY DEF DepthMatchesStack
    <2>2. InBody /\ frames'[1].node = frames[1].node
      BY <2>1 DEF InBody, SameFunction, Stepping
    <2>3. rsp = 8 + FrameSize + 8 * push_depth
      BY <2>2 DEF IInv, DepthMatchesStack
    <2>4. FrameSize' = FrameSize
      BY <2>2 DEF FrameSize
    <2>5. FrameSize \in Nat
      <3>1. frames \in Seq(frame_t) /\ IsWalk(frames)
        BY DEF IInv, FramesInv
      <3>2. Len(frames) \in Nat /\ Len(frames) > 0
        BY TopTyped DEF IInv, Stepping
      <3>3. 1 \in 1..Len(frames)
        BY <3>2
      <3>4. frames[1] \in frame_t /\ frames[1].node.type = "AST_FUNC_DECL"
        BY <3>1, <3>3 DEF IsWalk
      <3>5. frames[1].node \in Node
        BY <3>4 DEF frame_t
      <3> QED
        BY <3>4, <3>5, FrameSizeRounded DEF FrameSize
    <2> QED
      BY <1>2, <2>3, <2>4, <2>5
  <1> QED
    BY <1>1, <1>2, <1>3 DEF IInv

\* A return that pops what its frame held.
LEMMA BodyReturn ==
  ASSUME IInv, Stepping, Return,
         push_depth' = Top.base, rsp' = rsp - 8 * Held(Top), Held(Top) \in Int,
         call_rsp' \subseteq Int, CallAligned'
  PROVE  IInv'
  <1>1. FramesInv /\ DepthInv /\ frames # <<>>
    BY DEF IInv, Stepping
  <1>2. FramesInv' /\ DepthInv' /\ SameFunction
    BY <1>1, ReturnStep
  <1>3. push_depth = Top.base + Held(Top) /\ Top.base \in Nat /\ rsp \in Int
    BY <1>1, TopTyped DEF DepthInv, IInv
  <1>4. rsp' = rsp + 8 * (push_depth' - push_depth)
    BY <1>3
  <1> QED
    BY <1>2, <1>4, BodyStep

\* A recursive call made after pushing what the frame then holds.
LEMMA BodyDescend ==
  ASSUME IInv, Stepping,
         NEW l \in Int, NEW depth \in Nat, Descend(l, depth), push_depth' = depth,
         NEW t, t = [Top EXCEPT !.at = @ + 1, !.loc = l],
         FrameInv(t), depth = Top.base + Held(t),
         Top.node.type = "AST_FUNC_DECL" => Top.loc # Fresh /\ l # Fresh,
         rsp' = rsp + 8 * (depth - push_depth), call_rsp' = call_rsp
  PROVE  IInv'
  <1>1. FramesInv /\ DepthInv /\ frames # <<>>
    BY DEF IInv, Stepping
  <1>2. FramesInv' /\ DepthInv' /\ SameFunction
    BY <1>1, DescendStep
  <1>3. call_rsp' \subseteq Int /\ CallAligned'
    BY DEF IInv, CallAligned
  <1> QED
    BY <1>2, <1>3, BodyStep

\* An error leaves everything but the phase.
LEMMA BodyError ==
  ASSUME IInv, phase = "text", std_compile_error
  PROVE  IInv'
  <1>1. /\ frames' = frames /\ push_depth' = push_depth /\ rsp' = rsp /\ call_rsp' = call_rsp
        /\ program' = program /\ i' = i /\ phase' = "error"
    BY DEF std_compile_error, outVars
  <1>2. WalkInv'
    BY <1>1 DEF IInv, WalkInv
  <1>3. FramesInv' /\ DepthInv' /\ DepthMatchesStack' /\ CallAligned'
    BY <1>1 DEF IInv, FramesInv, DepthInv, DepthMatchesStack, CallAligned, InBody, FrameSize
  <1> QED
    BY <1>1, <1>2, <1>3 DEF IInv

LEMMA RunningTop ==
  ASSUME IInv, NEW ty, Running(ty)
  PROVE  /\ phase = "text" /\ frames # <<>>
         /\ Top \in frame_t /\ FrameInv(Top)
         /\ Top.node \in Node /\ Top.node.type = ty /\ WellFormed(Top.node)
         /\ Top.at \in Nat /\ Top.base \in Nat /\ Top.loc \in Int
         /\ push_depth \in Nat /\ push_depth = Top.base + Held(Top)
         /\ rsp \in Int /\ call_rsp \subseteq Int /\ CallAligned
  <1>1. phase = "text" /\ frames # <<>> /\ Top.node.type = ty
    BY DEF Running
  <1>2. FramesInv /\ DepthInv
    BY DEF IInv
  <1>3. /\ Top \in frame_t /\ FrameInv(Top) /\ Top.node \in Node
        /\ Top.at \in Nat /\ Top.base \in Nat /\ Top.loc \in Int
        /\ HeldBy(frames) = Top.base + Held(Top)
    BY <1>1, <1>2, TopTyped
  <1>4. WellFormed(Top.node)
    BY <1>3, ProgramsAssumption
  <1> QED
    BY <1>1, <1>2, <1>3, <1>4 DEF IInv, DepthInv

\* Frames other than those of a call and a binary operator hold nothing.
Plain == Top.node.type \notin {"AST_CALL", "AST_BINARY"}

LEMMA PlainReturn ==
  ASSUME IInv, NEW ty, Running(ty), Plain, UNCHANGED walkVars, Return,
         push_depth' = push_depth, rsp' = rsp, call_rsp' = call_rsp
  PROVE  IInv'
  <1>1. Held(Top) = 0
    BY DEF Held, Plain
  <1>2. push_depth' = Top.base /\ rsp' = rsp - 8 * Held(Top) /\ Held(Top) \in Int
    BY <1>1, RunningTop
  <1>3. Stepping /\ call_rsp' \subseteq Int /\ CallAligned'
    BY RunningTop DEF Stepping, CallAligned
  <1> QED
    BY <1>2, <1>3, BodyReturn

LEMMA PlainDescend ==
  ASSUME IInv, NEW ty, Running(ty), Plain, UNCHANGED walkVars,
         NEW l \in Int, Descend(l, push_depth),
         Top.node.type = "AST_FUNC_DECL" => Top.loc # Fresh /\ l # Fresh,
         push_depth' = push_depth, rsp' = rsp, call_rsp' = call_rsp
  PROVE  IInv'
  <1> DEFINE t == [Top EXCEPT !.at = @ + 1, !.loc = l]
  <1>1. /\ Top.base \in Nat /\ push_depth \in Nat /\ push_depth = Top.base + Held(Top)
        /\ rsp \in Int /\ Top \in frame_t /\ Stepping
    BY RunningTop DEF Stepping
  <1>2. t.node = Top.node
    BY <1>1 DEF frame_t
  <1>3. Held(t) = 0 /\ Held(Top) = 0 /\ FrameInv(t)
    BY <1>2 DEF Held, Plain, FrameInv
  <1>4. push_depth = Top.base + Held(t) /\ rsp' = rsp + 8 * (push_depth - push_depth)
    BY <1>1, <1>3
  <1>5. t = [Top EXCEPT !.at = @ + 1, !.loc = l]
    OBVIOUS
  <1> HIDE DEF t
  <1> QED
    BY <1>1, <1>3, <1>4, <1>5, BodyDescend

\* A frame that keeps a new local variable, and nothing else.
LEMMA PlainSetLoc ==
  ASSUME IInv, NEW ty, Running(ty), Plain, UNCHANGED walkVars,
         NEW l \in Int, SetLoc(l), Top.loc # Fresh \/ ty # "AST_FUNC_DECL",
         push_depth' = push_depth, rsp' = rsp, call_rsp' = call_rsp
  PROVE  IInv'
  <1> DEFINE t == [Top EXCEPT !.loc = l]
  <1>1. /\ Top.base \in Nat /\ push_depth \in Nat /\ push_depth = Top.base + Held(Top)
        /\ rsp \in Int /\ Top \in frame_t /\ Stepping /\ Top.node.type = ty
        /\ call_rsp \subseteq Int /\ CallAligned
    BY RunningTop DEF Stepping
  <1>2. t \in frame_t /\ t.node = Top.node /\ t.base = Top.base
    BY <1>1 DEF frame_t
  <1>3. Held(t) = 0 /\ Held(Top) = 0 /\ FrameInv(t)
    BY <1>2 DEF Held, Plain, FrameInv
  <1>4. /\ Len(frames) \in Nat /\ Len(frames) > 0 /\ Top = frames[Len(frames)]
        /\ FramesInv /\ DepthInv /\ frames # <<>>
        /\ Top.node.type = "AST_FUNC_DECL" <=> Len(frames) = 1
    BY <1>1, TopTyped DEF IInv, Stepping
  <1>5. frames' = [frames EXCEPT ![Len(frames)] = t]
    BY <1>4 DEF SetLoc
  <1>6. push_depth' = Top.base + Held(t) /\ push_depth' \in Nat
    BY <1>1, <1>3
  <1> HIDE DEF t
  <1>7. /\ FramesInv' /\ DepthInv'
        /\ frames'[1].node = frames[1].node
        /\ Len(frames) > 1 => frames'[1] = frames[1]
    BY <1>2, <1>3, <1>4, <1>5, <1>6, UpdateStep
  <1>8. SameFunction
    <2>1. CASE Len(frames) = 1
      BY <2>1, <1>1, <1>4, <1>7 DEF SameFunction
    <2>2. CASE Len(frames) > 1
      BY <2>2, <1>7 DEF SameFunction
    <2> QED
      BY <2>1, <2>2, <1>4, Positive, Zenon
  <1>9. rsp' = rsp + 8 * (push_depth' - push_depth) /\ call_rsp' \subseteq Int /\ CallAligned'
    BY <1>1 DEF CallAligned
  <1> QED
    BY <1>1, <1>7, <1>8, <1>9, BodyStep

-----------------------------------------------------------------------------
(* Every action preserves the invariant: expressions *)

\* Lines that leave the stack pointer where it was.
Still(lines) == \A r \in Int : StackAfterAll(r, lines) = r

LEMMA EmitStill ==
  ASSUME rsp \in Int, NEW lines, Still(lines), Emit(lines)
  PROVE  rsp' = rsp /\ call_rsp' = call_rsp
  BY DEF Emit, Still

LEMMA StillMov ==
  ASSUME NEW a, NEW b, b # RSP
  PROVE  Still(<<emit_mov(a, b)>>)
  BY EmittingOne, MovLine DEF Still

LEMMA PlaceNotRSP ==
  ASSUME NEW x
  PROVE  Place(x) # RSP
  BY NotRSP DEF Place

LEMMA literal_step ==
  ASSUME IInv, gen_literal PROVE IInv'
  <1>1. Running("AST_LITERAL") /\ Return /\ UNCHANGED walkVars /\ push_depth' = push_depth
    BY DEF gen_literal
  <1>2. Still(<<load_imm(Top.node.num_value)>>)
    BY StillMov, NotRSP DEF load_imm
  <1>3. rsp' = rsp /\ call_rsp' = call_rsp
    BY <1>1, <1>2, RunningTop, EmitStill DEF gen_literal
  <1>4. Plain
    BY <1>1, RunningTop DEF Plain
  <1> QED
    BY <1>1, <1>3, <1>4, PlainReturn

LEMMA identifier_step ==
  ASSUME IInv, gen_identifier PROVE IInv'
  <1>1. Running("AST_IDENTIFIER") /\ phase = "text"
    BY DEF gen_identifier, Running
  <1>2. CASE std_compile_error
    BY <1>1, <1>2, BodyError
  <1>3. CASE /\ Emit(<<emit_mov(Place(Top.node.name), RAX)>>)
             /\ Return /\ UNCHANGED walkVars /\ push_depth' = push_depth
    <2>1. Still(<<emit_mov(Place(Top.node.name), RAX)>>)
      BY StillMov, NotRSP
    <2>2. rsp' = rsp /\ call_rsp' = call_rsp
      BY <1>1, <1>3, <2>1, RunningTop, EmitStill
    <2>3. Plain
      BY <1>1, RunningTop DEF Plain
    <2> QED
      BY <1>1, <1>3, <2>2, <2>3, PlainReturn
  <1> QED
    BY <1>2, <1>3 DEF gen_identifier

LEMMA address_step ==
  ASSUME IInv, gen_address PROVE IInv'
  <1>1. Running("AST_UNARY") /\ phase = "text"
    BY DEF gen_address, Running
  <1>2. CASE std_compile_error
    BY <1>1, <1>2, BodyError
  <1>3. CASE /\ Emit(<<leaq(Place(Top.node.expr.name))>>)
             /\ Return /\ UNCHANGED walkVars /\ push_depth' = push_depth
    <2>1. Still(<<leaq(Place(Top.node.expr.name))>>)
      BY EmittingOne, StillLine DEF Still, leaq, still_op
    <2>2. rsp' = rsp /\ call_rsp' = call_rsp
      BY <1>1, <1>3, <2>1, RunningTop, EmitStill
    <2>3. Plain
      BY <1>1, RunningTop DEF Plain
    <2> QED
      BY <1>1, <1>3, <2>2, <2>3, PlainReturn
  <1> QED
    BY <1>2, <1>3 DEF gen_address

LEMMA unary_step ==
  ASSUME IInv, gen_unary PROVE IInv'
  <1>1. Running("AST_UNARY") /\ phase = "text"
    BY DEF gen_unary, Running
  <1>2. Plain /\ Top.node.type # "AST_FUNC_DECL"
    BY <1>1, RunningTop DEF Plain
  <1>3. CASE std_compile_error
    BY <1>1, <1>3, BodyError
  <1>4. CASE /\ Descend(Fresh, push_depth)
             /\ UNCHANGED <<walkVars, push_depth, outVars>>
    <2>1. rsp' = rsp /\ call_rsp' = call_rsp /\ push_depth' = push_depth /\ UNCHANGED walkVars
      BY <1>4 DEF outVars
    <2>2. Fresh \in Int
      BY DEF Fresh
    <2> QED
      BY <1>1, <1>2, <1>4, <2>1, <2>2, PlainDescend
  <1>5. CASE /\ Top.node.op \in {"U_NEG", "U_NOT", "U_POS"}
             /\ Emit(UnaryLines(Top.node.op))
             /\ Return /\ UNCHANGED walkVars /\ push_depth' = push_depth
    <2>1. Still(UnaryLines(Top.node.op))
      BY <1>5, EmitUnary DEF Still
    <2>2. rsp' = rsp /\ call_rsp' = call_rsp
      BY <1>1, <1>5, <2>1, RunningTop, EmitStill
    <2> QED
      BY <1>1, <1>2, <1>5, <2>2, PlainReturn
  <1> QED
    BY <1>3, <1>4, <1>5 DEF gen_unary

LEMMA binary_step ==
  ASSUME IInv, gen_binary PROVE IInv'
  <1>1. Running("AST_BINARY") /\ Stepping
    BY DEF gen_binary, Running, Stepping
  <1>2. /\ Top \in frame_t /\ Top.at \in Nat /\ Top.base \in Nat /\ FrameInv(Top)
        /\ Top.node.type = "AST_BINARY" /\ WellFormed(Top.node)
        /\ push_depth \in Nat /\ push_depth = Top.base + Held(Top)
        /\ rsp \in Int /\ call_rsp \subseteq Int /\ CallAligned
    BY <1>1, RunningTop
  <1>3. Fresh \in Int
    BY DEF Fresh
  <1>4. CASE Top.at = 0 /\ Descend(Fresh, push_depth) /\ UNCHANGED <<push_depth, outVars>>
    <2> DEFINE t == [Top EXCEPT !.at = @ + 1, !.loc = Fresh]
    <2>1. t.node = Top.node /\ t.at = 1
      BY <1>2, <1>4 DEF frame_t
    <2>2. FrameInv(t) /\ Held(t) = 0 /\ Held(Top) = 0
      BY <2>1, <1>2, <1>4 DEF FrameInv, Held
    <2>3. push_depth = Top.base + Held(t) /\ rsp' = rsp + 8 * (push_depth - push_depth)
      BY <2>2, <1>2, <1>4 DEF outVars
    <2>4. push_depth' = push_depth /\ call_rsp' = call_rsp
      BY <1>4 DEF outVars
    <2>5. t = [Top EXCEPT !.at = @ + 1, !.loc = Fresh]
      OBVIOUS
    <2> HIDE DEF t
    <2> QED
      BY <1>1, <1>2, <1>3, <1>4, <2>2, <2>3, <2>4, <2>5, BodyDescend
  <1>5. CASE /\ Top.at = 1 /\ Descend(Fresh, push_depth + 1)
             /\ Emit(<<push_rax>>) /\ push_depth' = push_depth + 1
    <2> DEFINE t == [Top EXCEPT !.at = @ + 1, !.loc = Fresh]
    <2>1. t.node = Top.node /\ t.at = 2
      BY <1>2, <1>5 DEF frame_t
    <2>2. FrameInv(t) /\ Held(t) = 1 /\ Held(Top) = 0
      BY <2>1, <1>2, <1>5 DEF FrameInv, Held
    <2>3. push_depth + 1 = Top.base + Held(t) /\ push_depth + 1 \in Nat
      BY <2>2, <1>2
    <2>4. rsp' = rsp + 8 /\ call_rsp' = call_rsp
      BY <1>5, EmittingOne, PushLine DEF Emit, push_rax
    <2>5. rsp' = rsp + 8 * (push_depth + 1 - push_depth)
      BY <2>4, <1>2
    <2>6. t = [Top EXCEPT !.at = @ + 1, !.loc = Fresh]
      OBVIOUS
    <2> HIDE DEF t
    <2>7. PICK d \in Nat : d = push_depth + 1
      BY <2>3
    <2>10. Descend(Fresh, d)
      BY <1>5, <2>7, Zenon
    <2>8. push_depth' = d /\ d = Top.base + Held(t)
      BY <1>5, <2>3, <2>7, Zenon
    <2>11. rsp' = rsp + 8 * (d - push_depth)
      BY <1>2, <2>4, <2>7
    <2>9. Top.node.type # "AST_FUNC_DECL"
      BY <1>2
    <2> QED
      BY <1>1, <1>3, <2>2, <2>4, <2>6, <2>8, <2>9, <2>10, <2>11, BodyDescend
  <1>6. CASE /\ Finished /\ Return /\ push_depth' = push_depth - 1
             /\ Emit(<<emit_mov(RAX, RCX), pop_into("REG_RAX")>> \o BinaryLines(Top.node.op))
    <2>1. Len(Subs(Top.node)) = 2
      BY <1>2 DEF Subs
    <2>2. Held(Top) = 1
      BY <2>1, <1>2, <1>6 DEF Held, Finished
    <2>3. Top.node.op \in binary_expr_t
      BY <1>2 DEF WellFormed
    <2>4. rsp' = rsp - 8 /\ call_rsp' = call_rsp
      BY <1>6, <2>3, EmitBinary DEF Emit
    <2>5. push_depth' = Top.base /\ rsp' = rsp - 8 * Held(Top) /\ Held(Top) \in Int
      BY <2>2, <2>4, <1>2, <1>6
    <2>6. call_rsp' \subseteq Int /\ CallAligned'
      BY <2>4, <1>2 DEF CallAligned
    <2> QED
      BY <1>1, <1>6, <2>5, <2>6, BodyReturn
  <1> QED
    BY <1>4, <1>5, <1>6 DEF gen_binary

\* A step of a call that does not return from it.
LEMMA CallUpdate ==
  ASSUME IInv, Running("AST_CALL"), UNCHANGED walkVars,
         NEW t \in frame_t, t.node = Top.node, t.base = Top.base, FrameInv(t),
         frames' = [frames EXCEPT ![Len(frames)] = t],
         push_depth' = Top.base + Held(t), push_depth' \in Nat,
         rsp' = rsp + 8 * (push_depth' - push_depth), call_rsp' = call_rsp
  PROVE  IInv'
  <1>1. FramesInv /\ DepthInv /\ frames # <<>> /\ Stepping
    BY RunningTop DEF IInv, Stepping
  <1>2. /\ FramesInv' /\ DepthInv'
        /\ Len(frames) > 1 => frames'[1] = frames[1]
    BY <1>1, UpdateStep
  <1>3. Len(frames) > 1
    <2>1. Top.node.type = "AST_CALL"
      BY DEF Running
    <2>2. Len(frames) # 1 /\ Len(frames) \in Nat /\ Len(frames) > 0
      BY <1>1, <2>1, TopTyped
    <2> QED
      BY <2>2, Positive, Zenon
  <1>4. SameFunction
    BY <1>2, <1>3 DEF SameFunction
  <1>5. call_rsp' \subseteq Int /\ CallAligned'
    BY DEF IInv, CallAligned
  <1> QED
    BY <1>1, <1>2, <1>4, <1>5, BodyStep

LEMMA CallTop ==
  ASSUME IInv, Running("AST_CALL")
  PROVE  /\ Top \in frame_t /\ Top.at \in Nat /\ Top.base \in Nat /\ Top.loc \in Int
         /\ CallFrame(Top) /\ Top.node.type = "AST_CALL"
         /\ Len(Top.node.args) \in Nat
         /\ push_depth \in Nat /\ push_depth = Top.base + Held(Top)
         /\ rsp \in Int /\ call_rsp \subseteq Int /\ CallAligned
         /\ Pad(Top) \in {0, 1} /\ Pad(Top) \in Nat
         /\ Top.loc = Fresh => push_depth = Top.base
         /\ Top.loc # Fresh => push_depth = Top.base + Pad(Top) + Top.loc
  <1>1. /\ Top \in frame_t /\ Top.at \in Nat /\ Top.base \in Nat /\ Top.loc \in Int
        /\ FrameInv(Top) /\ Top.node.type = "AST_CALL" /\ WellFormed(Top.node)
        /\ push_depth \in Nat /\ push_depth = Top.base + Held(Top)
        /\ rsp \in Int /\ call_rsp \subseteq Int /\ CallAligned
    BY RunningTop
  <1>2. CallFrame(Top)
    BY <1>1 DEF FrameInv
  <1>3. Len(Top.node.args) \in Nat
    BY <1>1 DEF WellFormed
  <1>4. Pad(Top) \in {0, 1} /\ Pad(Top) \in Nat
    BY <1>1 DEF Pad
  <1>5. Top.loc = Fresh => Held(Top) = 0
    BY <1>1 DEF Held
  <1>6. Top.loc # Fresh => Held(Top) = Pad(Top) + Top.loc
    BY <1>1 DEF Held
  <1> QED
    BY <1>1, <1>2, <1>3, <1>4, <1>5, <1>6

LEMMA call_enter_step ==
  ASSUME IInv, gen_call_enter PROVE IInv'
  <1>1. Running("AST_CALL") /\ phase = "text" /\ Top.loc = Fresh
    BY DEF gen_call_enter, Running
  <1>2. CASE std_compile_error
    BY <1>1, <1>2, BodyError
  <1>3. CASE /\ Len(Top.node.args) <= 6
             /\ Emit(PadLines(Top))
             /\ push_depth' = push_depth + Pad(Top)
             /\ SetLoc(0)
             /\ UNCHANGED walkVars
    <2> DEFINE t == [Top EXCEPT !.loc = 0]
    <2>1. /\ Top \in frame_t /\ Top.base \in Nat /\ Pad(Top) \in Nat /\ rsp \in Int
          /\ push_depth = Top.base /\ Top.node.type = "AST_CALL" /\ Len(Top.node.args) \in Nat
          /\ Top.at \in Nat
      BY <1>1, CallTop
    <2>2. t \in frame_t /\ t.node = Top.node /\ t.base = Top.base /\ t.at = Top.at /\ t.loc = 0
      BY <2>1 DEF frame_t
    <2>3. FrameInv(t)
      BY <2>1, <2>2, <1>3 DEF FrameInv, CallFrame, Fresh
    <2>8. Pad(t) = Pad(Top)
      BY <2>2 DEF Pad
    <2>9. Held(t) = Pad(t) + 0
      BY <2>1, <2>2 DEF Held, Fresh
    <2>4. Held(t) = Pad(Top)
      BY <2>1, <2>8, <2>9
    <2>5. rsp' = rsp + 8 * Pad(Top) /\ call_rsp' = call_rsp
      BY <1>3, <2>1, EmitPad DEF Emit
    <2>6. /\ push_depth' = Top.base + Held(t) /\ push_depth' \in Nat
          /\ rsp' = rsp + 8 * (push_depth' - push_depth)
      BY <1>3, <2>1, <2>4, <2>5
    <2>7. frames' = [frames EXCEPT ![Len(frames)] = t]
      BY <1>3 DEF SetLoc, Top, Last
    <2> HIDE DEF t
    <2> QED
      BY <1>1, <1>3, <2>2, <2>3, <2>5, <2>6, <2>7, CallUpdate
  <1> QED
    BY <1>2, <1>3 DEF gen_call_enter

LEMMA call_arg_step ==
  ASSUME IInv, gen_call_arg PROVE IInv'
  <1>1. Running("AST_CALL") /\ Stepping
    BY DEF gen_call_arg, Running, Stepping
  <1>2. /\ Top \in frame_t /\ Top.base \in Nat /\ Top.at \in Nat /\ Top.loc \in Int
        /\ Pad(Top) \in Nat /\ rsp \in Int /\ push_depth \in Nat /\ CallFrame(Top)
        /\ Top.node.type = "AST_CALL" /\ Len(Top.node.args) \in Nat
        /\ Top.loc # Fresh => push_depth = Top.base + Pad(Top) + Top.loc
    BY <1>1, CallTop
  <1>3. CASE Top.loc = Top.at /\ UNCHANGED <<push_depth, outVars>> /\ Descend(Top.loc, push_depth)
    <2> DEFINE t == [Top EXCEPT !.at = @ + 1, !.loc = Top.loc]
    <2>1. t.node = Top.node /\ t.base = Top.base /\ t.at = Top.at + 1 /\ t.loc = Top.loc
      BY <1>2 DEF frame_t
    <2>2. Top.loc # Fresh
      BY <1>2, <1>3 DEF Fresh
    <2>3. FrameInv(t)
      BY <1>2, <1>3, <2>1, <2>2 DEF FrameInv, CallFrame
    <2>4. Held(t) = Pad(Top) + Top.loc
      BY <1>2, <2>1, <2>2 DEF Held, Pad
    <2>5. push_depth = Top.base + Held(t) /\ rsp' = rsp + 8 * (push_depth - push_depth)
      BY <1>2, <1>3, <2>2, <2>4 DEF outVars
    <2>6. push_depth' = push_depth /\ call_rsp' = call_rsp /\ Top.node.type # "AST_FUNC_DECL"
      BY <1>2, <1>3 DEF outVars
    <2>7. t = [Top EXCEPT !.at = @ + 1, !.loc = Top.loc]
      OBVIOUS
    <2> HIDE DEF t
    <2> QED
      BY <1>1, <1>2, <1>3, <2>3, <2>5, <2>6, <2>7, BodyDescend
  <1>4. CASE /\ Top.loc # Fresh /\ Top.loc = Top.at - 1 /\ Top.at <= Len(Top.node.args)
             /\ Emit(<<push_rax>>) /\ push_depth' = push_depth + 1 /\ SetLoc(Top.loc + 1)
    <2> DEFINE t == [Top EXCEPT !.loc = Top.loc + 1]
    <2>1. Top.loc + 1 \in Int /\ Top.loc \in Nat
      BY <1>2, <1>4 DEF CallFrame
    <2>2. /\ t \in frame_t /\ t.node = Top.node /\ t.base = Top.base /\ t.at = Top.at
          /\ t.loc = Top.loc + 1
      BY <1>2, <2>1 DEF frame_t
    <2>3. FrameInv(t)
      BY <1>2, <1>4, <2>1, <2>2 DEF FrameInv, CallFrame, Fresh
    <2>4. Held(t) = Pad(Top) + (Top.loc + 1)
      BY <1>2, <2>1, <2>2 DEF Held, Pad, Fresh
    <2>5. rsp' = rsp + 8 /\ call_rsp' = call_rsp
      BY <1>4, EmittingOne, PushLine DEF Emit, push_rax
    <2>7. frames' = [frames EXCEPT ![Len(frames)] = t]
      BY <1>4 DEF SetLoc, Top, Last
    <2>9. push_depth = Top.base + Pad(Top) + Top.loc /\ push_depth' = push_depth + 1
      BY <1>2, <1>4
    <2>8. UNCHANGED walkVars
      BY <1>1 DEF Stepping
    <2> HIDE DEF t
    <2>6. /\ push_depth' = Top.base + Held(t) /\ push_depth' \in Nat
          /\ rsp' = rsp + 8 * (push_depth' - push_depth)
      <3>1. /\ Top.base \in Nat /\ Pad(Top) \in Nat /\ Top.loc \in Nat /\ push_depth \in Nat
            /\ rsp \in Int
        BY <1>2, <2>1
      <3>2. push_depth' = Top.base + Held(t)
        BY <3>1, <2>4, <2>9
      <3>3. push_depth' \in Nat /\ rsp' = rsp + 8 * (push_depth' - push_depth)
        BY <3>1, <2>5, <2>9
      <3> QED
        BY <3>2, <3>3
    <2> QED
      BY <1>1, <2>2, <2>3, <2>5, <2>6, <2>7, <2>8, CallUpdate
  <1> QED
    BY <1>3, <1>4 DEF gen_call_arg

LEMMA call_pop_step ==
  ASSUME IInv, gen_call_pop PROVE IInv'
  <1>1. Running("AST_CALL") /\ UNCHANGED walkVars /\ Top.loc > 0
    BY DEF gen_call_pop
  <1>2. /\ Top \in frame_t /\ Top.base \in Nat /\ Top.at \in Nat /\ Top.loc \in Int
        /\ Pad(Top) \in Nat /\ rsp \in Int /\ push_depth \in Nat /\ CallFrame(Top)
        /\ Top.node.type = "AST_CALL" /\ Len(Top.node.args) \in Nat
        /\ Top.loc # Fresh => push_depth = Top.base + Pad(Top) + Top.loc
    BY <1>1, CallTop
  <1> DEFINE n == Len(Top.node.args)
             l == Top.loc - 1
             t == [Top EXCEPT !.at = n + 1, !.loc = l]
  <1>3. Top.loc # Fresh /\ l \in Nat /\ l # Fresh /\ l <= n /\ n <= 6 /\ n + 1 \in Nat
    BY <1>1, <1>2 DEF CallFrame, Fresh
  <1> HIDE DEF n, l
  <1>4. t \in frame_t /\ t.node = Top.node /\ t.base = Top.base /\ t.at = n + 1 /\ t.loc = l
    <2>1. PICK f \in frame_t : f = Top
      BY <1>2
    <2>2. PICK a \in Nat : a = n + 1
      BY <1>3
    <2>3. t = [f EXCEPT !.at = a, !.loc = l] /\ l \in Int
      BY <2>1, <2>2, <1>3
    <2>4. t \in frame_t /\ t.node = f.node /\ t.base = f.base /\ t.at = a /\ t.loc = l
      BY ONLY <2>3, f \in frame_t, a \in Nat DEF frame_t
    <2> QED
      BY <2>1, <2>2, <2>4
  <1>5. FrameInv(t)
    <2>1. Len(t.node.args) = n /\ t.node.type = "AST_CALL" /\ n \in Nat
      BY <1>2, <1>4 DEF n
    <2>2. l \in 0..n + 1
      BY <2>1, <1>3
    <2>3. CallFrame(t)
      BY <2>1, <2>2, <1>3, <1>4 DEF CallFrame
    <2> QED
      BY <2>1, <2>3 DEF FrameInv
  <1>6. Held(t) = Pad(Top) + l
    BY <1>2, <1>3, <1>4 DEF Held, Pad
  <1>7. rsp' = rsp - 8 /\ call_rsp' = call_rsp
    BY EmittingOne, PopLine DEF gen_call_pop, Emit, pop_into
  <1>8. push_depth' = push_depth - 1 /\ push_depth = Top.base + Pad(Top) + Top.loc
    BY <1>2, <1>3 DEF gen_call_pop
  <1>9. frames' = [frames EXCEPT ![Len(frames)] = t]
    <2>1. /\ frames \in Seq(frame_t) /\ Len(frames) \in Nat /\ Len(frames) > 0
          /\ Top = frames[Len(frames)]
      BY <1>1, RunningTop, TopTyped DEF IInv, FramesInv
    <2> QED
      BY <1>2, <2>1 DEF gen_call_pop, n, l
  <1> HIDE DEF t
  <1>10. l = Top.loc - 1
    BY DEF l
  <1>11. /\ push_depth' = Top.base + Held(t) /\ push_depth' \in Nat
         /\ rsp' = rsp + 8 * (push_depth' - push_depth)
    <2>1. /\ Top.base \in Nat /\ Pad(Top) \in Nat /\ Top.loc \in Int /\ l \in Nat
          /\ push_depth \in Nat /\ rsp \in Int
      BY <1>2, <1>3
    <2>2. push_depth' = Top.base + Held(t)
      BY <2>1, <1>6, <1>8, <1>10
    <2>3. Held(t) \in Nat
      BY <2>1, <1>6
    <2>4. push_depth' \in Nat
      BY <2>1, <2>2, <2>3
    <2>5. rsp' = rsp + 8 * (push_depth' - push_depth)
      BY <2>1, <1>7, <1>8
    <2> QED
      BY <2>2, <2>4, <2>5
  <1> QED
    BY <1>1, <1>4, <1>5, <1>7, <1>9, <1>11, CallUpdate

\* Here the alignment is decided: a call is emitted at an even depth.
LEMMA call_return_step ==
  ASSUME IInv, gen_call_return PROVE IInv'
  <1>1. Running("AST_CALL") /\ Stepping /\ Top.loc = 0 /\ Return
    BY DEF gen_call_return, Running, Stepping
  <1>2. /\ Top \in frame_t /\ Top.base \in Nat /\ Pad(Top) \in Nat /\ rsp \in Int
        /\ push_depth \in Nat /\ call_rsp \subseteq Int /\ CallAligned
        /\ Top.loc # Fresh => push_depth = Top.base + Pad(Top) + Top.loc
        /\ push_depth = Top.base + Held(Top)
    BY <1>1, CallTop
  <1>3. push_depth = Top.base + Pad(Top)
    BY <1>1, <1>2 DEF Fresh
  <1>4. Held(Top) \in Int /\ Held(Top) = Pad(Top)
    <2>1. Held(Top) = Pad(Top) + 0
      BY <1>1, RunningTop DEF Held, Fresh
    <2> QED
      BY <2>1, <1>2
  <1>5. push_depth' = Top.base
    BY <1>2, <1>3 DEF gen_call_return, Unpad
  <1>6. rsp' = rsp - 8 * Held(Top)
    BY <1>2, <1>4, EmitPad DEF gen_call_return
  <1>7. call_rsp' = call_rsp \cup {rsp}
    BY DEF gen_call_return
  <1>8. (rsp + 8) % 16 = 0
    <2>1. /\ frames \in Seq(frame_t) /\ IsWalk(frames)
          /\ Len(frames) \in Nat /\ Len(frames) > 0 /\ Len(frames) # 1
      BY <1>1, TopTyped, RunningTop DEF IInv, FramesInv
    <2>6. Len(frames) > 1
      BY <2>1, Positive, Zenon
    <2>2. InBody
      BY <1>1, <2>1, <2>6 DEF InBody, IsWalk, Stepping
    <2>3. rsp = 8 + FrameSize + 8 * push_depth
      BY <2>2 DEF IInv, DepthMatchesStack
    <2>4. FrameSize \in Nat /\ FrameSize % 16 = 0
      <3>1. 1 \in 1..Len(frames)
        BY <2>1
      <3>2. frames[1].node \in Node /\ frames[1].node.type = "AST_FUNC_DECL"
        <4>1. frames[1] \in frame_t /\ frames[1].node.type = "AST_FUNC_DECL"
          BY <2>1, <3>1 DEF IsWalk
        <4> QED
          BY <4>1 DEF frame_t
      <3> QED
        BY <3>2, FrameSizeRounded DEF FrameSize
    <2>5. push_depth % 2 = 0
      BY <1>2, <1>3 DEF Pad
    <2> HIDE DEF FrameSize
    <2> QED
      BY <1>2, <2>3, <2>4, <2>5
  <1>9. call_rsp' \subseteq Int /\ CallAligned'
    BY <1>2, <1>7, <1>8 DEF CallAligned
  <1> QED
    BY <1>1, <1>4, <1>5, <1>6, <1>9, BodyReturn

LEMMA assign_step ==
  ASSUME IInv, gen_assign PROVE IInv'
  <1>1. Running("AST_ASSIGN") /\ phase = "text"
    BY DEF gen_assign, Running
  <1>2. Plain /\ Top.node.type # "AST_FUNC_DECL"
    BY <1>1, RunningTop DEF Plain
  <1>3. CASE std_compile_error
    BY <1>1, <1>3, BodyError
  <1>4. CASE /\ Descend(Fresh, push_depth)
             /\ UNCHANGED <<walkVars, push_depth, outVars>>
    <2>1. rsp' = rsp /\ call_rsp' = call_rsp /\ push_depth' = push_depth /\ UNCHANGED walkVars
      BY <1>4 DEF outVars
    <2>2. Fresh \in Int
      BY DEF Fresh
    <2> QED
      BY <1>1, <1>2, <1>4, <2>1, <2>2, PlainDescend
  <1>5. CASE /\ Emit(<<emit_mov(RAX, Place(Top.node.target.name))>>)
             /\ Return /\ UNCHANGED walkVars /\ push_depth' = push_depth
    <2>1. Still(<<emit_mov(RAX, Place(Top.node.target.name))>>)
      BY StillMov, PlaceNotRSP
    <2>2. rsp' = rsp /\ call_rsp' = call_rsp
      BY <1>1, <1>5, <2>1, RunningTop, EmitStill
    <2> QED
      BY <1>1, <1>2, <1>5, <2>2, PlainReturn
  <1> QED
    BY <1>3, <1>4, <1>5 DEF gen_assign

LEMMA cast_step ==
  ASSUME IInv, gen_cast PROVE IInv'
  <1>1. Running("AST_CAST") /\ UNCHANGED walkVars /\ push_depth' = push_depth
    BY DEF gen_cast
  <1>2. rsp' = rsp /\ call_rsp' = call_rsp
    BY DEF gen_cast, outVars
  <1>3. Plain /\ Top.node.type # "AST_FUNC_DECL" /\ Fresh \in Int
    BY <1>1, RunningTop DEF Plain, Fresh
  <1>4. CASE Return
    BY <1>1, <1>2, <1>3, <1>4, PlainReturn
  <1>5. CASE Descend(Fresh, push_depth)
    BY <1>1, <1>2, <1>3, <1>5, PlainDescend
  <1> QED
    BY <1>4, <1>5 DEF gen_cast

LEMMA unsupported_step ==
  ASSUME IInv, gen_unsupported PROVE IInv'
  BY BodyError DEF gen_unsupported, Running

LEMMA expr_step ==
  ASSUME IInv, gen_expr PROVE IInv'
  BY literal_step, identifier_step, address_step, unary_step, binary_step, call_enter_step,
     call_arg_step, call_pop_step, call_return_step, assign_step, cast_step, unsupported_step
  DEF gen_expr

-----------------------------------------------------------------------------
(* Every action preserves the invariant: statements *)

LEMMA var_decl_step ==
  ASSUME IInv, cur_offset' \in Int, gen_var_decl PROVE IInv'
  <1>1. Running("AST_VAR_DECL") /\ UNCHANGED walkVars /\ push_depth' = push_depth
    BY DEF gen_var_decl
  <1>2. Plain /\ Top.node.type # "AST_FUNC_DECL"
    BY <1>1, RunningTop DEF Plain
  <1>3. CASE UNCHANGED outVars /\ (Return \/ Descend(cur_offset', push_depth))
    <2>1. rsp' = rsp /\ call_rsp' = call_rsp
      BY <1>3 DEF outVars
    <2>2. CASE Return
      BY <1>1, <1>2, <2>1, <2>2, PlainReturn
    <2>3. CASE Descend(cur_offset', push_depth)
      <3>1. PICK l \in Int : l = cur_offset'
        OBVIOUS
      <3>2. Descend(l, push_depth)
        BY <2>3, <3>1, Zenon
      <3> QED
        BY <1>1, <1>2, <2>1, <3>2, PlainDescend
    <2> QED
      BY <1>3, <2>2, <2>3
  <1>4. CASE Emit(<<store_local(Top.loc)>>) /\ Return
    <2>1. Still(<<store_local(Top.loc)>>)
      BY StillMov, NotRSP DEF store_local
    <2>2. rsp' = rsp /\ call_rsp' = call_rsp
      BY <1>1, <1>4, <2>1, RunningTop, EmitStill
    <2> QED
      BY <1>1, <1>2, <1>4, <2>2, PlainReturn
  <1> QED
    BY <1>3, <1>4 DEF gen_var_decl

LEMMA return_step ==
  ASSUME IInv, gen_return PROVE IInv'
  <1>1. Running("AST_RETURN") /\ UNCHANGED walkVars /\ push_depth' = push_depth
    BY DEF gen_return
  <1>2. Plain /\ Top.node.type # "AST_FUNC_DECL" /\ Fresh \in Int
    BY <1>1, RunningTop DEF Plain, Fresh
  <1>3. CASE UNCHANGED outVars /\ Descend(Fresh, push_depth)
    <2>1. rsp' = rsp /\ call_rsp' = call_rsp
      BY <1>3 DEF outVars
    <2> QED
      BY <1>1, <1>2, <1>3, <2>1, PlainDescend
  <1>4. CASE Emit(<<jmp(epilogue_label)>>) /\ Return
    <2>1. Still(<<jmp(epilogue_label)>>)
      BY EmittingOne, StillLine DEF Still, jmp, still_op
    <2>2. rsp' = rsp /\ call_rsp' = call_rsp
      BY <1>1, <1>4, <2>1, RunningTop, EmitStill
    <2> QED
      BY <1>1, <1>2, <1>4, <2>2, PlainReturn
  <1> QED
    BY <1>3, <1>4 DEF gen_return

LEMMA if_step ==
  ASSUME IInv, label_count \in Int, gen_if PROVE IInv'
  <1> DEFINE else_lbl == Label(mk_local_label(Top.loc))
             end_lbl == Label(mk_local_label(Top.loc + 1))
             branch == <<emit_cmp(mk_immutable(0), RAX), je(Top.loc)>>
             join == <<jmp(Top.loc + 1), else_lbl>>
             leave == <<jmp(Top.loc + 1), else_lbl, end_lbl>>
  <1>1. Running("AST_IF") /\ UNCHANGED walkVars /\ push_depth' = push_depth
    BY DEF gen_if
  <1>2. Plain /\ Top.node.type # "AST_FUNC_DECL" /\ Top.loc \in Int
    BY <1>1, RunningTop DEF Plain
  <1>3. /\ \A r : StackAfter(r, else_lbl) = r /\ StackAfter(r, end_lbl) = r
        /\ \A r : StackAfter(r, jmp(Top.loc + 1)) = r /\ StackAfter(r, je(Top.loc)) = r
        /\ \A r : StackAfter(r, emit_cmp(mk_immutable(0), RAX)) = r
    <2>1. \A r : StackAfter(r, else_lbl) = r
      BY ProgramsAssumption DEF StackAfter, Label, Line, mk_local_label, NoOperand
    <2>2. \A r : StackAfter(r, end_lbl) = r
      BY ProgramsAssumption DEF StackAfter, Label, Line, mk_local_label, NoOperand
    <2>3. /\ \A r : StackAfter(r, jmp(Top.loc + 1)) = r /\ StackAfter(r, je(Top.loc)) = r
          /\ \A r : StackAfter(r, emit_cmp(mk_immutable(0), RAX)) = r
      BY StillLine DEF jmp, je, emit_cmp, still_op
    <2> QED
      BY <2>1, <2>2, <2>3
  <1> HIDE DEF else_lbl, end_lbl
  <1>4. Still(branch)
    BY <1>3, EmittingTwo DEF Still
  <1>5. Still(join)
    BY <1>3, EmittingTwo DEF Still
  <1>6. Still(leave)
    BY <1>3, EmittingThree DEF Still
  <1>7. Still(<<end_lbl>>)
    BY <1>3, EmittingOne DEF Still
  <1>8. CASE UNCHANGED outVars /\ Descend(label_count, push_depth)
    <2>1. rsp' = rsp /\ call_rsp' = call_rsp
      BY <1>8 DEF outVars
    <2> QED
      BY <1>1, <1>2, <1>8, <2>1, PlainDescend
  <1>9. CASE Descend(Top.loc, push_depth) /\ (Emit(branch) \/ Emit(join))
    <2>1. rsp' = rsp /\ call_rsp' = call_rsp
      BY <1>1, <1>4, <1>5, <1>9, RunningTop, EmitStill
    <2> QED
      BY <1>1, <1>2, <1>9, <2>1, PlainDescend
  <1>10. CASE Return /\ (Emit(leave) \/ Emit(<<end_lbl>>))
    <2>1. rsp' = rsp /\ call_rsp' = call_rsp
      BY <1>1, <1>6, <1>7, <1>10, RunningTop, EmitStill
    <2> QED
      BY <1>1, <1>2, <1>10, <2>1, PlainReturn
  <1> QED
    BY <1>8, <1>9, <1>10 DEF gen_if, else_lbl, end_lbl

LEMMA block_step ==
  ASSUME IInv, gen_block PROVE IInv'
  <1>1. Running("AST_BLOCK") /\ UNCHANGED walkVars /\ push_depth' = push_depth
    BY DEF gen_block
  <1>2. rsp' = rsp /\ call_rsp' = call_rsp
    BY DEF gen_block, outVars
  <1>3. Plain /\ Top.node.type # "AST_FUNC_DECL" /\ 0 \in Int
    BY <1>1, RunningTop DEF Plain
  <1>4. CASE SetLoc(0)
    BY <1>1, <1>2, <1>3, <1>4, PlainSetLoc
  <1>5. CASE Descend(0, push_depth)
    BY <1>1, <1>2, <1>3, <1>5, PlainDescend
  <1>6. CASE Return
    BY <1>1, <1>2, <1>3, <1>6, PlainReturn
  <1> QED
    BY <1>4, <1>5, <1>6 DEF gen_block

LEMMA comment_step ==
  ASSUME IInv, gen_comment PROVE IInv'
  <1>1. Running("AST_COMMENT") /\ UNCHANGED walkVars /\ push_depth' = push_depth /\ Return
    BY DEF gen_comment
  <1>2. rsp' = rsp /\ call_rsp' = call_rsp
    BY DEF gen_comment, outVars
  <1>3. Plain
    BY <1>1, RunningTop DEF Plain
  <1> QED
    BY <1>1, <1>2, <1>3, PlainReturn

LEMMA stmt_step ==
  ASSUME IInv, cur_offset' \in Int, label_count \in Int, gen_stmt PROVE IInv'
  BY var_decl_step, return_step, if_step, block_step, comment_step DEF gen_stmt

-----------------------------------------------------------------------------
(* Every action preserves the invariant: functions *)

\* A function is entered at depth 0, and its prologue reserves its frame.
LEMMA func_enter_step ==
  ASSUME IInv, gen_func_enter PROVE IInv'
  <1> DEFINE t == [Top EXCEPT !.loc = 0]
             size == compute_frame_size(Top.node)
             x == Top.node.func_t.ident.name
  <1>1. Running("AST_FUNC_DECL") /\ UNCHANGED walkVars /\ push_depth' = 0 /\ SetLoc(0)
    BY DEF gen_func_enter
  <1>2. /\ Top \in frame_t /\ Top.node \in Node /\ Top.node.type = "AST_FUNC_DECL"
        /\ WellFormed(Top.node) /\ rsp \in Int /\ phase = "text" /\ frames # <<>>
    BY <1>1, RunningTop
  <1>3. /\ FramesInv /\ DepthInv /\ frames \in Seq(frame_t) /\ IsWalk(frames)
        /\ Top = frames[Len(frames)] /\ Len(frames) = 1
    BY <1>2, TopTyped DEF IInv, FramesInv
  <1>4. Top = frames[1] /\ Top.base = 0
    BY <1>3 DEF IsWalk
  <1>5. t \in frame_t /\ t.node = Top.node /\ t.base = Top.base
    BY <1>2 DEF frame_t
  <1>6. Held(t) = 0 /\ FrameInv(t)
    BY <1>2, <1>5 DEF Held, FrameInv
  <1>7. frames' = [frames EXCEPT ![Len(frames)] = t]
    BY <1>1, <1>3 DEF SetLoc
  <1>8. push_depth' = Top.base + Held(t) /\ push_depth' \in Nat
    BY <1>1, <1>4, <1>6
  <1> HIDE DEF t
  <1>9. FramesInv' /\ DepthInv' /\ frames'[1].node = Top.node
    BY <1>2, <1>3, <1>4, <1>5, <1>6, <1>7, <1>8, UpdateStep
  <1>10. x \in Name /\ size \in Nat
    BY <1>2, FrameSizeRounded DEF WellFormed, Idents
  <1>11. rsp' = 8 + size /\ call_rsp' = call_rsp
    <2>1. rsp' = StackAfterAll(rsp, Prologue(mk_label(x), size)) /\ call_rsp' = call_rsp
      BY DEF gen_func_enter, Emit
    <2> HIDE DEF x, size
    <2> QED
      BY <2>1, <1>2, <1>10, EmitPrologue
  <1>12. DepthMatchesStack'
    BY <1>1, <1>9, <1>10, <1>11 DEF DepthMatchesStack, FrameSize
  <1>13. WalkInv'
    BY <1>1, <1>2 DEF IInv, WalkInv, walkVars
  <1> HIDE DEF size
  <1>14. rsp' \in Int /\ call_rsp' \subseteq Int /\ CallAligned'
    BY <1>10, <1>11 DEF IInv, CallAligned
  <1> QED
    BY <1>9, <1>12, <1>13, <1>14 DEF IInv

LEMMA func_param_step ==
  ASSUME IInv, gen_func_param PROVE IInv'
  <1>1. Running("AST_FUNC_DECL") /\ phase = "text"
    BY DEF gen_func_param, Running
  <1>2. Plain /\ Top.loc \in Int
    BY <1>1, RunningTop DEF Plain
  <1>3. Top.loc # Fresh
    BY <1>1, RunningTop DEF gen_func_param, WellFormed, Fresh
  <1>4. CASE std_compile_error
    BY <1>1, <1>4, BodyError
  <1>5. CASE /\ \E reg \in regid : Emit(<<emit_mov(mk_register(reg, "SZ_64"), Slot(cur_offset'))>>)
             /\ SetLoc(Top.loc + 1)
             /\ UNCHANGED <<walkVars, labelVars, push_depth>>
    <2>1. PICK reg \in regid : Emit(<<emit_mov(mk_register(reg, "SZ_64"), Slot(cur_offset'))>>)
      BY <1>5
    <2>2. Still(<<emit_mov(mk_register(reg, "SZ_64"), Slot(cur_offset'))>>)
      BY StillMov, NotRSP
    <2>3. rsp' = rsp /\ call_rsp' = call_rsp
      BY <1>1, <2>1, <2>2, RunningTop, EmitStill
    <2>4. UNCHANGED walkVars /\ push_depth' = push_depth
      BY <1>5
    <2>5. PICK l \in Int : l = Top.loc + 1
      BY <1>2
    <2>6. SetLoc(l)
      BY <1>5, <2>5, Zenon
    <2> QED
      BY <1>1, <1>2, <1>3, <2>3, <2>4, <2>6, PlainSetLoc
  <1>6. ASSUME NEW k \in Nat, 0 < k
        PROVE  (IF k <= 6 THEN {arg_regs[k]} ELSE regid) \subseteq regid
    <2>1. /\ arg_regs[1] \in regid /\ arg_regs[2] \in regid /\ arg_regs[3] \in regid
          /\ arg_regs[4] \in regid /\ arg_regs[5] \in regid /\ arg_regs[6] \in regid
      BY DEF arg_regs, regid
    <2>2. k <= 6 => k = 1 \/ k = 2 \/ k = 3 \/ k = 4 \/ k = 5 \/ k = 6
      BY <1>6
    <2> QED
      BY <2>1, <2>2
  <1>7. Top.loc \in Nat
    BY <1>1, RunningTop DEF gen_func_param, WellFormed
  <1>8. (IF Top.loc + 1 <= 6 THEN {arg_regs[Top.loc + 1]} ELSE regid) \subseteq regid
    BY <1>6, <1>7
  <1> QED
    BY <1>4, <1>5, <1>8 DEF gen_func_param

LEMMA func_stmt_step ==
  ASSUME IInv, gen_func_stmt PROVE IInv'
  <1>1. /\ Running("AST_FUNC_DECL") /\ UNCHANGED walkVars /\ push_depth' = push_depth
        /\ Descend(Top.loc, push_depth)
    BY DEF gen_func_stmt
  <1>2. rsp' = rsp /\ call_rsp' = call_rsp
    BY DEF gen_func_stmt, outVars
  <1>3. Plain /\ Top.loc \in Int
    BY <1>1, RunningTop DEF Plain
  <1>4. Top.loc # Fresh
    BY <1>1, RunningTop DEF gen_func_stmt, AllParams, WellFormed, Fresh
  <1> QED
    BY <1>1, <1>2, <1>3, <1>4, PlainDescend

LEMMA func_return_step ==
  ASSUME IInv, gen_func_return PROVE IInv'
  <1>1. Running("AST_FUNC_DECL") /\ UNCHANGED walkVars /\ push_depth' = push_depth /\ Return
    BY DEF gen_func_return
  <1>2. rsp' = 0 /\ call_rsp' = call_rsp
    BY EmitEpilogue DEF gen_func_return, Emit
  <1>3. /\ FramesInv /\ DepthInv /\ frames # <<>> /\ Top.node.type = "AST_FUNC_DECL"
        /\ phase = "text"
    BY <1>1, RunningTop DEF IInv
  <1>4. frames \in Seq(frame_t) /\ Len(frames) = 1
    BY <1>3, TopTyped DEF FramesInv
  <1>5. Held(Top) = 0
    BY <1>3 DEF Held
  <1>6. push_depth' = Top.base
    BY <1>1, <1>5, RunningTop
  <1>7. FramesInv' /\ DepthInv'
    BY <1>1, <1>3, <1>6, ReturnStep
  <1>8. frames' = <<>>
    <2>1. frames' \in Seq(frame_t) /\ Len(frames') = 0
      BY <1>1, <1>4, RemoveLast DEF Return
    <2> QED
      BY <2>1
  <1>9. DepthMatchesStack'
    BY <1>8 DEF DepthMatchesStack, InBody
  <1>10. WalkInv'
    BY <1>1, <1>3 DEF IInv, WalkInv, walkVars
  <1>11. rsp' \in Int /\ call_rsp' \subseteq Int /\ CallAligned'
    BY <1>2 DEF IInv, CallAligned
  <1> QED
    BY <1>7, <1>9, <1>10, <1>11 DEF IInv

LEMMA func_step ==
  ASSUME IInv, gen_func_decl PROVE IInv'
  BY func_enter_step, func_param_step, func_stmt_step, func_return_step DEF gen_func_decl

-----------------------------------------------------------------------------
(* Every action preserves the invariant: the program *)

LEMMA OutsideStep ==
  ASSUME IInv, frames = <<>>, frames' = <<>>, push_depth' = push_depth,
         rsp' \in Int, call_rsp' = call_rsp,
         program' = program, i' \in Nat \ {0}, phase' \in {"data", "text", "done"}
  PROVE  IInv'
  <1>1. WalkInv'
    BY DEF IInv, WalkInv
  <1>2. FramesInv' /\ DepthInv'
    BY DEF IInv, FramesInv, DepthInv, IsWalk, HeldBy
  <1>3. DepthMatchesStack' /\ CallAligned' /\ call_rsp' \subseteq Int
    BY DEF IInv, DepthMatchesStack, InBody, CallAligned
  <1> QED
    BY <1>1, <1>2, <1>3 DEF IInv

LEMMA start_step ==
  ASSUME IInv, StartData \/ StartText PROVE IInv'
  <1>1. /\ frames = <<>> /\ frames' = frames /\ push_depth' = push_depth
        /\ program' = program /\ i' \in Nat \ {0} /\ phase' \in {"data", "text"}
    BY DEF StartData, StartText, IInv, WalkInv
  <1>2. rsp \in Int
    BY DEF IInv
  <1>3. PICK x \in still_op : Emit(<<Directive(x, NoOperand)>>)
    BY DEF StartData, StartText, still_op
  <1>4. Still(<<Directive(x, NoOperand)>>)
    BY EmittingOne, StillLine DEF Still, Directive
  <1>5. rsp' = rsp /\ call_rsp' = call_rsp
    BY <1>2, <1>3, <1>4, EmitStill
  <1> QED
    BY <1>1, <1>2, <1>5, OutsideStep

LEMMA data_step ==
  ASSUME IInv, DataStep PROVE IInv'
  <1>1. /\ frames = <<>> /\ frames' = frames /\ push_depth' = push_depth
        /\ program' = program /\ i' \in Nat \ {0} /\ phase' = "data"
        /\ i \in 1..Len(program) /\ program \in Programs
    BY DEF DataStep, IInv, WalkInv
  <1> DEFINE n == program[i]
  <1>2. n \in Node /\ n.type = "AST_VAR_DECL"
    BY <1>1, ProgramsAssumption DEF DataStep, IsGlobal
  <1>3. n.ident.name \in Name
    BY <1>2, ProgramsAssumption DEF WellFormed, Idents
  <1>4. directive_of(type_size(n.var_t)) \in still_op
    BY DEF directive_of, type_size, still_op
  <1>5. PICK v : Emit(<<Label(mk_label(n.ident.name)),
                        Directive(directive_of(type_size(n.var_t)), v)>>)
    BY DEF DataStep, gen_global
  <1>6. rsp' = 0 /\ call_rsp' = call_rsp
    <2> DEFINE a == Label(mk_label(n.ident.name))
               b == Directive(directive_of(type_size(n.var_t)), v)
    <2>1. \A r : StackAfter(r, a) = 0 /\ StackAfter(r, b) = r
      BY <1>3, <1>4, LabelLine, StillLine DEF Directive
    <2>2. rsp' = StackAfterAll(rsp, <<a, b>>) /\ call_rsp' = call_rsp
      BY <1>5 DEF Emit
    <2> HIDE DEF a, b
    <2> QED
      BY <2>1, <2>2, EmittingTwo
  <1> QED
    BY <1>1, <1>6, OutsideStep

LEMMA skip_step ==
  ASSUME IInv, DataSkip \/ FinishProgram PROVE IInv'
  <1>1. /\ frames = <<>> /\ frames' = frames /\ push_depth' = push_depth
        /\ program' = program /\ i' \in Nat \ {0} /\ phase' \in {"data", "done"}
        /\ rsp' = rsp /\ call_rsp' = call_rsp /\ rsp \in Int
    BY DEF DataSkip, FinishProgram, IInv, WalkInv, outVars
  <1> QED
    BY <1>1, OutsideStep

LEMMA text_step ==
  ASSUME IInv, TextStep PROVE IInv'
  <1>1. /\ frames = <<>> /\ push_depth' = push_depth
        /\ program' = program /\ i' \in Nat \ {0} /\ phase' = "text"
        /\ rsp' = rsp /\ call_rsp' = call_rsp /\ rsp \in Int
        /\ i \in 1..Len(program) /\ program \in Programs
    BY DEF TextStep, IInv, WalkInv, outVars
  <1>2. push_depth = 0
    BY <1>1 DEF IInv, DepthInv, HeldBy
  <1>3. CASE frames' = <<>>
    BY <1>1, <1>3, OutsideStep
  <1>4. CASE program[i].type = "AST_FUNC_DECL" /\ frames' = <<Frame(program[i], push_depth)>>
    <2> DEFINE f == Frame(program[i], 0)
    <2>1. program[i] \in Node
      BY <1>1, ProgramsAssumption
    <2>2. /\ f \in frame_t /\ f.base = 0 /\ f.loc = Fresh /\ f.at = 0
          /\ f.node.type = "AST_FUNC_DECL"
      BY <2>1, <1>4 DEF Frame, frame_t, Fresh
    <2>3. FrameInv(f) /\ Held(f) = 0
      BY <2>2 DEF FrameInv, Held
    <2>4. frames' = <<f>>
      BY <1>2, <1>4
    <2> HIDE DEF f
    <2>5. frames' \in Seq(frame_t) /\ Len(frames') = 1 /\ frames'[1] = f
      BY <2>2, <2>4
    <2>6. FramesInv'
      BY <2>2, <2>3, <2>5 DEF FramesInv, IsWalk
    <2>7. DepthInv'
      BY <1>1, <1>2, <2>2, <2>3, <2>5 DEF DepthInv, HeldBy
    <2>8. DepthMatchesStack'
      BY <2>2, <2>5 DEF DepthMatchesStack, InBody
    <2>9. WalkInv'
      BY <1>1 DEF IInv, WalkInv
    <2>10. call_rsp' \subseteq Int /\ CallAligned'
      BY <1>1 DEF IInv, CallAligned
    <2> QED
      BY <1>1, <2>6, <2>7, <2>8, <2>9, <2>10 DEF IInv
  <1> QED
    BY <1>3, <1>4 DEF TextStep

-----------------------------------------------------------------------------
(* Scopes and labels *)

\* The scopes of functions and blocks that are being generated.
Entered(fr) == fr.node.type \in {"AST_BLOCK", "AST_FUNC_DECL"} /\ fr.loc # Fresh
Opened(fs) == {k \in 1..Len(fs) : Entered(fs[k])}

(***************************************************************************)
(* One scope for the globals and one for every function or block entered,  *)
(* so pop_scope and find_symbol never see an empty stack.                  *)
(***************************************************************************)
ScopeInv ==
  /\ scope_stk \in Seq(ScopeType)
  /\ phase = "start" => scope_stk = <<>>
  /\ phase = "data" => Len(scope_stk) = 1
  /\ phase = "text" => Len(scope_stk) = 1 + Cardinality(Opened(frames))
  /\ cur_offset \in Int
  /\ label_count \in Nat
  /\ epilogue_label \in Nat \cup {NoLabel}

LEMMA OpenedFinite ==
  ASSUME NEW fs \in Seq(frame_t)
  PROVE  IsFiniteSet(Opened(fs)) /\ Cardinality(Opened(fs)) \in Nat
  <1>1. Len(fs) \in Nat
    OBVIOUS
  <1>2. IsFiniteSet(1..Len(fs))
    BY <1>1, FS_Interval
  <1>3. Opened(fs) \subseteq 1..Len(fs)
    BY DEF Opened
  <1>4. IsFiniteSet(Opened(fs))
    BY <1>2, <1>3, FS_Subset
  <1> QED
    BY <1>4, FS_CardinalityType

\* How a recursive call changes the frames, without what they hold.
LEMMA DescendShape ==
  ASSUME FramesInv, frames # <<>>, NEW l \in Int, NEW depth, Descend(l, depth)
  PROVE  /\ Len(frames') = Len(frames) + 1
         /\ \A k \in 1..Len(frames) :
              frames'[k] = IF k = Len(frames)
                             THEN [Top EXCEPT !.at = @ + 1, !.loc = l]
                             ELSE frames[k]
         /\ frames'[Len(frames) + 1] = Frame(Subs(Top.node)[Top.at + 1], depth)
         /\ frames'[Len(frames) + 1].loc = Fresh
  <1> DEFINE n == Len(frames)
             t == [Top EXCEPT !.at = @ + 1, !.loc = l]
             fs == [frames EXCEPT ![n] = t]
             new == Frame(Subs(Top.node)[Top.at + 1], depth)
             S == frame_t \cup {t, new}
  <1>1. frames \in Seq(frame_t) /\ n \in Nat /\ n > 0 /\ Top = frames[n]
    BY TopTyped DEF FramesInv
  <1>2. \A k \in 1..n : frames[k] \in S
    BY <1>1
  <1>3. frames \in Seq(S)
    BY <1>1, <1>2
  <1>4. t \in S /\ new \in S
    OBVIOUS
  <1>5. fs = [frames EXCEPT ![n].at = @ + 1, ![n].loc = l]
    BY <1>1
  <1>6. frames' = Append(fs, new)
    BY <1>5 DEF Descend
  <1>7. new.loc = Fresh
    BY DEF Frame
  <1> HIDE DEF t, new, S
  <1>8. /\ fs \in Seq(S) /\ Len(fs) = n
        /\ \A k \in 1..n : fs[k] = IF k = n THEN t ELSE frames[k]
    BY <1>1, <1>3, <1>4, ReplaceLast
  <1> HIDE DEF fs
  <1>9. /\ Len(frames') = n + 1
        /\ \A k \in 1..n + 1 : frames'[k] = IF k = n + 1 THEN new ELSE fs[k]
    BY <1>4, <1>6, <1>8, AddLast
  <1>10. frames'[n + 1] = new
    BY <1>1, <1>9
  <1>11. \A k \in 1..n : frames'[k] = IF k = n THEN t ELSE frames[k]
    BY <1>1, <1>8, <1>9
  <1> QED
    BY <1>7, <1>9, <1>10, <1>11 DEF t, new

LEMMA OpenedDescend ==
  ASSUME FramesInv, frames # <<>>, NEW l \in Int, NEW depth, Descend(l, depth),
         Top.node.type \in {"AST_BLOCK", "AST_FUNC_DECL"} => Top.loc # Fresh /\ l # Fresh
  PROVE  Opened(frames') = Opened(frames)
  <1> DEFINE n == Len(frames)
             t == [Top EXCEPT !.at = @ + 1, !.loc = l]
  <1>1. n \in Nat /\ n > 0 /\ Top = frames[n] /\ Top \in frame_t
    BY TopTyped
  <1>2. t.node = Top.node /\ t.loc = l
    BY <1>1 DEF frame_t
  <1>3. /\ Len(frames') = n + 1
        /\ \A k \in 1..n : frames'[k] = IF k = n THEN t ELSE frames[k]
        /\ frames'[n + 1].loc = Fresh
    BY DescendShape
  <1>4. Entered(t) <=> Entered(Top)
    BY <1>2 DEF Entered
  <1> HIDE DEF t
  <1>5. \A k \in 1..n : Entered(frames'[k]) <=> Entered(frames[k])
    BY <1>1, <1>3, <1>4
  <1>6. ~Entered(frames'[n + 1])
    BY <1>3 DEF Entered
  <1>7. \A k \in 1..n + 1 : Entered(frames'[k]) <=> (k \in 1..n /\ Entered(frames[k]))
    BY <1>1, <1>5, <1>6
  <1> QED
    BY <1>1, <1>3, <1>7 DEF Opened

LEMMA OpenedReturn ==
  ASSUME FramesInv, frames # <<>>, Return
  PROVE  /\ Entered(Top) =>
              Cardinality(Opened(frames')) = Cardinality(Opened(frames)) - 1
         /\ ~Entered(Top) => Opened(frames') = Opened(frames)
  <1> DEFINE n == Len(frames)
  <1>1. frames \in Seq(frame_t) /\ n \in Nat /\ n > 0 /\ Top = frames[n]
    BY TopTyped DEF FramesInv
  <1>2. Len(frames') = n - 1 /\ \A k \in 1..n - 1 : frames'[k] = frames[k]
    BY <1>1, RemoveLast DEF Return
  <1>3. Opened(frames') = Opened(frames) \ {n}
    BY <1>1, <1>2 DEF Opened
  <1>4. Entered(Top) <=> n \in Opened(frames)
    BY <1>1 DEF Opened
  <1>5. CASE ~Entered(Top)
    BY <1>3, <1>4, <1>5
  <1>6. CASE Entered(Top)
    BY <1>1, <1>3, <1>4, <1>6, OpenedFinite, FS_RemoveElement
  <1> QED
    BY <1>5, <1>6

LEMMA OpenedSetLoc ==
  ASSUME FramesInv, frames # <<>>, NEW l \in Int, SetLoc(l), l # Fresh
  PROVE  /\ Top.node.type \in {"AST_BLOCK", "AST_FUNC_DECL"} /\ Top.loc = Fresh =>
              Cardinality(Opened(frames')) = Cardinality(Opened(frames)) + 1
         /\ Top.node.type \notin {"AST_BLOCK", "AST_FUNC_DECL"} \/ Top.loc # Fresh =>
              Opened(frames') = Opened(frames)
  <1> DEFINE n == Len(frames)
             t == [Top EXCEPT !.loc = l]
  <1>1. /\ frames \in Seq(frame_t) /\ n \in Nat /\ n > 0 /\ n \in 1..n
        /\ Top = frames[n] /\ Top \in frame_t
    BY TopTyped DEF FramesInv
  <1>2. t \in frame_t /\ t.node = Top.node /\ t.loc = l
    BY <1>1 DEF frame_t
  <1>3. frames' = [frames EXCEPT ![n] = t]
    BY <1>1 DEF SetLoc
  <1> HIDE DEF t
  <1>4. Len(frames') = n /\ \A k \in 1..n : frames'[k] = IF k = n THEN t ELSE frames[k]
    BY <1>1, <1>2, <1>3, ReplaceLast
  <1>5. Entered(t) <=> Top.node.type \in {"AST_BLOCK", "AST_FUNC_DECL"}
    BY <1>2 DEF Entered
  <1>6. CASE Top.node.type \in {"AST_BLOCK", "AST_FUNC_DECL"}
    <2>1. \A k \in 1..n : Entered(frames'[k]) <=> k = n \/ Entered(frames[k])
      BY <1>1, <1>4, <1>5, <1>6
    <2>2. Opened(frames') = Opened(frames) \cup {n}
      BY <1>1, <1>4, <2>1 DEF Opened
    <2>3. n \in Opened(frames) <=> Top.loc # Fresh
      BY <1>1, <1>6 DEF Opened, Entered
    <2>4. CASE Top.loc = Fresh
      <3>1. IsFiniteSet(Opened(frames)) /\ n \notin Opened(frames)
        BY <1>1, <2>3, <2>4, OpenedFinite
      <3>2. Cardinality(Opened(frames) \cup {n}) = Cardinality(Opened(frames)) + 1
        BY <3>1, FS_AddElement
      <3> QED
        BY <1>6, <2>2, <2>4, <3>2
    <2>5. CASE Top.loc # Fresh
      <3>1. Opened(frames') = Opened(frames)
        BY <2>2, <2>3, <2>5
      <3> QED
        BY <1>6, <2>5, <3>1
    <2> QED
      BY <2>4, <2>5
  <1>7. CASE Top.node.type \notin {"AST_BLOCK", "AST_FUNC_DECL"}
    <2>1. \A k \in 1..n : Entered(frames'[k]) <=> Entered(frames[k])
      BY <1>1, <1>4, <1>5, <1>7 DEF Entered
    <2> QED
      BY <1>1, <1>4, <1>7, <2>1 DEF Opened
  <1> QED
    BY <1>6, <1>7

-----------------------------------------------------------------------------
(* What the helpers do to the scopes *)

LEMMA ScopeTyped ==
  ASSUME NEW base \in Int
  PROVE  Scope(base) \in ScopeType
  BY DEF Scope, ScopeType, NoSymbol, symbol_t

LEMMA PushScope ==
  ASSUME scope_stk \in Seq(ScopeType), NEW base \in Int,
         scope_stk' = Append(scope_stk, Scope(base))
  PROVE  scope_stk' \in Seq(ScopeType) /\ Len(scope_stk') = Len(scope_stk) + 1
  <1>1. Scope(base) \in ScopeType
    BY ScopeTyped
  <1> HIDE DEF Scope, ScopeType
  <1> QED
    BY <1>1, AddLast

LEMMA PopScope ==
  ASSUME scope_stk \in Seq(ScopeType), Len(scope_stk) > 0, pop_scope
  PROVE  /\ scope_stk' \in Seq(ScopeType) /\ Len(scope_stk') = Len(scope_stk) - 1
         /\ cur_offset' \in Int
  <1>1. scope_stk' \in Seq(ScopeType) /\ Len(scope_stk') = Len(scope_stk) - 1
    BY RemoveLast DEF pop_scope
  <1>2. Last(scope_stk) \in ScopeType
    BY DEF Last
  <1>3. Last(scope_stk).base_offset \in Int
    BY <1>2 DEF ScopeType
  <1> QED
    BY <1>1, <1>3 DEF pop_scope

LEMMA DefineTyped ==
  ASSUME scope_stk \in Seq(ScopeType), Len(scope_stk) > 0,
         NEW x \in Name, NEW sym \in symbol_t, Define(x, sym)
  PROVE  scope_stk' \in Seq(ScopeType) /\ Len(scope_stk') = Len(scope_stk)
  <1> DEFINE n == Len(scope_stk)
  <1>1. n \in Nat /\ n \in 1..n
    OBVIOUS
  <1>2. PICK s \in ScopeType : s = scope_stk[n]
    BY <1>1
  <1>3. s.symbols \in [Name -> symbol_t]
    BY DEF ScopeType
  <1> DEFINE t == [s EXCEPT !.symbols[x] = sym]
  <1>4. [s.symbols EXCEPT ![x] = sym] \in [Name -> symbol_t]
    BY <1>3
  <1>5. t \in ScopeType
    BY <1>4 DEF ScopeType
  <1>6. scope_stk' = [scope_stk EXCEPT ![n] = t]
    BY <1>1, <1>2 DEF Define
  <1> HIDE DEF t
  <1> QED
    BY <1>5, <1>6, ReplaceLast

LEMMA DefineLocal ==
  ASSUME scope_stk \in Seq(ScopeType), Len(scope_stk) > 0, cur_offset \in Int,
         NEW x \in Name, define_local(x)
  PROVE  /\ scope_stk' \in Seq(ScopeType) /\ Len(scope_stk') = Len(scope_stk)
         /\ cur_offset' \in Int
  <1>1. cur_offset' \in Int /\ Define(x, [kind |-> "local", off |-> cur_offset'])
    BY DEF define_local
  <1>2. [kind |-> "local", off |-> cur_offset'] \in symbol_t
    BY <1>1 DEF symbol_t
  <1> QED
    BY <1>1, <1>2, DefineTyped

-----------------------------------------------------------------------------
(* Steps inside a function *)

\* A step of the walk that keeps the number of scopes right.
LEMMA ScopeStep ==
  ASSUME ScopeInv, phase = "text", phase' = "text",
         scope_stk' \in Seq(ScopeType),
         Len(scope_stk') = 1 + Cardinality(Opened(frames')),
         cur_offset' \in Int, label_count' \in Nat, epilogue_label' \in Nat \cup {NoLabel}
  PROVE  ScopeInv'
  BY DEF ScopeInv

LEMMA ScopeError ==
  ASSUME ScopeInv, std_compile_error
  PROVE  ScopeInv'
  BY DEF ScopeInv, std_compile_error, scopeVars, labelVars

LEMMA InText ==
  ASSUME IInv, ScopeInv, NEW ty, Running(ty)
  PROVE  /\ phase = "text" /\ scope_stk \in Seq(ScopeType) /\ Len(scope_stk) > 0
         /\ Len(scope_stk) = 1 + Cardinality(Opened(frames))
         /\ Cardinality(Opened(frames)) \in Nat
         /\ cur_offset \in Int /\ label_count \in Nat
         /\ epilogue_label \in Nat \cup {NoLabel}
  <1>1. phase = "text" /\ frames \in Seq(frame_t)
    BY DEF Running, IInv, FramesInv
  <1>2. Cardinality(Opened(frames)) \in Nat
    BY <1>1, OpenedFinite
  <1> QED
    BY <1>1, <1>2 DEF ScopeInv

\* The functions other than gen_block and gen_func_decl open no scope.
Unscoped(ty) == ty \notin {"AST_BLOCK", "AST_FUNC_DECL"}
SameScopes == Cardinality(Opened(frames')) = Cardinality(Opened(frames))

LEMMA KeptReturn ==
  ASSUME IInv, NEW ty, Running(ty), Unscoped(ty), Return
  PROVE  SameScopes
  BY RunningTop, OpenedReturn DEF IInv, Unscoped, Entered, SameScopes

LEMMA KeptDescend ==
  ASSUME IInv, NEW ty, Running(ty), Unscoped(ty), NEW l \in Int, NEW depth, Descend(l, depth)
  PROVE  SameScopes
  BY RunningTop, OpenedDescend DEF IInv, Unscoped, SameScopes

LEMMA KeptSetLoc ==
  ASSUME IInv, NEW ty, Running(ty), Unscoped(ty), NEW l \in Int, l # Fresh, SetLoc(l)
  PROVE  SameScopes
  BY RunningTop, OpenedSetLoc DEF IInv, Unscoped, SameScopes

\* A step that leaves the scopes and the labels alone.
LEMMA Quiet ==
  ASSUME IInv, ScopeInv, NEW ty, Running(ty), SameScopes,
         UNCHANGED <<walkVars, scopeVars, labelVars>>
  PROVE  ScopeInv'
  <1>1. /\ phase' = phase /\ scope_stk' = scope_stk /\ cur_offset' = cur_offset
        /\ label_count' = label_count /\ epilogue_label' = epilogue_label
    BY DEF walkVars, scopeVars, labelVars
  <1> QED
    BY <1>1, InText, ScopeStep DEF SameScopes

LEMMA KeptUpdate ==
  ASSUME FramesInv, frames # <<>>, Unscoped(Top.node.type),
         NEW t \in frame_t, t.node = Top.node, frames' = [frames EXCEPT ![Len(frames)] = t]
  PROVE  SameScopes
  <1> DEFINE n == Len(frames)
  <1>1. frames \in Seq(frame_t) /\ n \in Nat /\ n > 0 /\ n \in 1..n /\ Top = frames[n]
    BY TopTyped DEF FramesInv
  <1>2. Len(frames') = n /\ \A k \in 1..n : frames'[k] = IF k = n THEN t ELSE frames[k]
    BY <1>1, ReplaceLast
  <1>3. \A k \in 1..n : Entered(frames'[k]) <=> Entered(frames[k])
    BY <1>1, <1>2 DEF Entered, Unscoped
  <1>4. Opened(frames') = Opened(frames)
    BY <1>1, <1>2, <1>3 DEF Opened
  <1> QED
    BY <1>4 DEF SameScopes

LEMMA expr_scopes ==
  ASSUME IInv, ScopeInv, gen_expr
  PROVE  ScopeInv'
  <1> DEFINE Other == UNCHANGED <<walkVars, scopeVars, labelVars>>
  <1>0. Fresh \in Int /\ 0 # Fresh /\ 0 \in Int
    BY DEF Fresh
  <1>1. SUFFICES ASSUME ~std_compile_error
                 PROVE  ScopeInv'
    BY ScopeError
  <1>2. CASE gen_literal
    <2>1. Running("AST_LITERAL") /\ Return /\ Other
      BY <1>2 DEF gen_literal
    <2> QED
      BY <2>1, KeptReturn, Quiet DEF Unscoped
  <1>3. CASE gen_identifier
    <2>1. Running("AST_IDENTIFIER") /\ Return /\ Other
      BY <1>1, <1>3 DEF gen_identifier
    <2> QED
      BY <2>1, KeptReturn, Quiet DEF Unscoped
  <1>4. CASE gen_address
    <2>1. Running("AST_UNARY") /\ Return /\ Other
      BY <1>1, <1>4 DEF gen_address
    <2> QED
      BY <2>1, KeptReturn, Quiet DEF Unscoped
  <1>5. CASE gen_unary
    <2>1. Running("AST_UNARY") /\ Other /\ (Return \/ Descend(Fresh, push_depth))
      BY <1>1, <1>5 DEF gen_unary
    <2>2. SameScopes
      BY <2>1, <1>0, KeptReturn, KeptDescend DEF Unscoped
    <2> QED
      BY <2>1, <2>2, Quiet
  <1>6. CASE gen_binary
    <2>1. /\ Running("AST_BINARY") /\ Other
          /\ Return \/ Descend(Fresh, push_depth) \/ Descend(Fresh, push_depth + 1)
      BY <1>6 DEF gen_binary
    <2>2. SameScopes
      BY <2>1, <1>0, KeptReturn, KeptDescend DEF Unscoped
    <2> QED
      BY <2>1, <2>2, Quiet
  <1>7. CASE gen_call_enter
    <2>1. Running("AST_CALL") /\ Other /\ SetLoc(0)
      BY <1>1, <1>7 DEF gen_call_enter
    <2>2. SameScopes
      BY <2>1, <1>0, KeptSetLoc DEF Unscoped
    <2> QED
      BY <2>1, <2>2, Quiet
  <1>8. CASE gen_call_arg
    <2>1. /\ Running("AST_CALL") /\ Other
          /\ Descend(Top.loc, push_depth) \/ (SetLoc(Top.loc + 1) /\ Top.loc # Fresh)
      BY <1>8 DEF gen_call_arg
    <2>2. Top.loc \in Int /\ CallFrame(Top)
      BY <2>1, RunningTop DEF FrameInv
    <2>3. CASE Descend(Top.loc, push_depth)
      BY <2>1, <2>2, <2>3, KeptDescend, Quiet DEF Unscoped
    <2>4. CASE SetLoc(Top.loc + 1) /\ Top.loc # Fresh
      <3>1. Top.at \in Nat
        BY <2>1, RunningTop
      <3>2. Top.loc + 1 \in Int /\ Top.loc + 1 # Fresh
        BY <2>2, <2>4, <3>1 DEF CallFrame, Fresh
      <3> QED
        BY <2>1, <2>4, <3>2, KeptSetLoc, Quiet DEF Unscoped
    <2> QED
      BY <2>1, <2>3, <2>4
  <1>9. CASE gen_call_pop
    <2>1. /\ Running("AST_CALL") /\ Other
          /\ frames' = [frames EXCEPT ![Len(frames)].at = Len(Top.node.args) + 1,
                                      ![Len(frames)].loc = @ - 1]
      BY <1>9 DEF gen_call_pop
    <2> DEFINE a == Len(Top.node.args) + 1
    <2>2. /\ Top \in frame_t /\ Top.loc \in Int /\ frames # <<>> /\ FramesInv
          /\ Top.node.type = "AST_CALL" /\ a \in Nat
      BY <2>1, RunningTop DEF WellFormed, IInv
    <2> DEFINE t == [Top EXCEPT !.at = a, !.loc = Top.loc - 1]
    <2>3. frames' = [frames EXCEPT ![Len(frames)] = t]
      <3>1. Top = frames[Len(frames)] /\ frames \in Seq(frame_t) /\ Len(frames) \in 1..Len(frames)
        BY <2>2, TopTyped DEF FramesInv
      <3> QED
        BY <2>1, <3>1
    <2> HIDE DEF a
    <2>4. t \in frame_t /\ t.node = Top.node
      <3>1. PICK f \in frame_t : f = Top
        BY <2>2
      <3>2. PICK l \in Int : l = Top.loc - 1
        BY <2>2
      <3>3. PICK m \in Nat : t = [f EXCEPT !.at = m, !.loc = l]
        BY <2>2, <3>1, <3>2
      <3>4. t \in frame_t /\ t.node = f.node
        BY ONLY <3>3, f \in frame_t, m \in Nat, l \in Int DEF frame_t
      <3> QED
        BY <3>1, <3>4
    <2> HIDE DEF t
    <2>5. SameScopes
      BY <2>2, <2>3, <2>4, KeptUpdate DEF Unscoped
    <2> QED
      BY <2>1, <2>5, Quiet
  <1>10. CASE gen_call_return
    <2>1. Running("AST_CALL") /\ Return /\ Other
      BY <1>10 DEF gen_call_return
    <2> QED
      BY <2>1, KeptReturn, Quiet DEF Unscoped
  <1>11. CASE gen_assign
    <2>1. Running("AST_ASSIGN") /\ Other /\ (Return \/ Descend(Fresh, push_depth))
      BY <1>1, <1>11 DEF gen_assign
    <2>2. SameScopes
      BY <2>1, <1>0, KeptReturn, KeptDescend DEF Unscoped
    <2> QED
      BY <2>1, <2>2, Quiet
  <1>12. CASE gen_cast
    <2>1. Running("AST_CAST") /\ Other /\ (Return \/ Descend(Fresh, push_depth))
      BY <1>12 DEF gen_cast
    <2>2. SameScopes
      BY <2>1, <1>0, KeptReturn, KeptDescend DEF Unscoped
    <2> QED
      BY <2>1, <2>2, Quiet
  <1>13. CASE gen_unsupported
    BY <1>1, <1>13 DEF gen_unsupported
  <1> QED
    BY <1>2, <1>3, <1>4, <1>5, <1>6, <1>7, <1>8, <1>9, <1>10, <1>11, <1>12, <1>13 DEF gen_expr

LEMMA stmt_scopes ==
  ASSUME IInv, ScopeInv, gen_stmt
  PROVE  ScopeInv' /\ cur_offset' \in Int
  <1>0. Fresh \in Int /\ 0 # Fresh /\ 0 \in Int
    BY DEF Fresh
  <1>1. CASE gen_var_decl
    <2>1. Running("AST_VAR_DECL") /\ UNCHANGED <<walkVars, labelVars>>
      BY <1>1 DEF gen_var_decl
    <2>2. phase' = phase /\ label_count' = label_count /\ epilogue_label' = epilogue_label
      BY <2>1 DEF walkVars, labelVars
    <2>3. CASE /\ define_local(Top.node.ident.name)
               /\ Return \/ Descend(cur_offset', push_depth)
      <3>1. Top.node.ident.name \in Name
        BY <2>1, RunningTop DEF WellFormed, Idents
      <3>2. /\ scope_stk' \in Seq(ScopeType) /\ Len(scope_stk') = Len(scope_stk)
            /\ cur_offset' \in Int
        BY <2>1, <2>3, <3>1, InText, DefineLocal
      <3>3. SameScopes
        BY <2>1, <2>3, <3>2, KeptReturn, KeptDescend DEF Unscoped
      <3> QED
        BY <2>1, <2>2, <3>2, <3>3, InText, ScopeStep DEF SameScopes
    <2>4. CASE UNCHANGED scopeVars /\ Return
      <3>1. SameScopes
        BY <2>1, <2>4, KeptReturn DEF Unscoped
      <3> QED
        BY <2>1, <2>4, <3>1, Quiet DEF ScopeInv
    <2> QED
      BY <1>1, <2>3, <2>4 DEF gen_var_decl
  <1>2. CASE gen_return
    <2>1. /\ Running("AST_RETURN") /\ UNCHANGED <<walkVars, scopeVars, labelVars>>
          /\ Return \/ Descend(Fresh, push_depth)
      BY <1>2 DEF gen_return
    <2>2. SameScopes
      BY <2>1, <1>0, KeptReturn, KeptDescend DEF Unscoped
    <2> QED
      BY <2>1, <2>2, Quiet DEF ScopeInv
  <1>3. CASE gen_if
    <2>1. /\ Running("AST_IF") /\ UNCHANGED <<walkVars, scopeVars, epilogue_label>>
          /\ label_count' = label_count + 2 \/ label_count' = label_count
          /\ Return \/ Descend(Top.loc, push_depth) \/ Descend(label_count, push_depth)
      BY <1>3 DEF gen_if, new_label
    <2>2. Top.loc \in Int /\ label_count \in Int
      BY <2>1, RunningTop, InText
    <2>3. SameScopes
      BY <2>1, <2>2, KeptReturn, KeptDescend DEF Unscoped
    <2>4. /\ phase' = phase /\ scope_stk' = scope_stk /\ cur_offset' = cur_offset
          /\ epilogue_label' = epilogue_label
      BY <2>1 DEF walkVars, scopeVars
    <2> QED
      BY <2>1, <2>3, <2>4, InText, ScopeStep DEF SameScopes
  <1>4. CASE gen_block
    <2>1. Running("AST_BLOCK") /\ UNCHANGED <<walkVars, labelVars>>
      BY <1>4 DEF gen_block
    <2>2. phase' = phase /\ label_count' = label_count /\ epilogue_label' = epilogue_label
      BY <2>1 DEF walkVars, labelVars
    <2>3. FramesInv /\ frames # <<>> /\ Top.node.type = "AST_BLOCK"
      BY <2>1, RunningTop DEF IInv
    <2>4. CASE Top.loc = Fresh /\ push_scope /\ SetLoc(0) /\ UNCHANGED cur_offset
      <3>1. scope_stk' \in Seq(ScopeType) /\ Len(scope_stk') = Len(scope_stk) + 1
        BY <2>1, <2>4, InText, PushScope DEF push_scope
      <3>2. Cardinality(Opened(frames')) = Cardinality(Opened(frames)) + 1
        BY <1>0, <2>3, <2>4, OpenedSetLoc
      <3> QED
        BY <2>1, <2>2, <2>4, <3>1, <3>2, InText, ScopeStep
    <2>5. CASE Top.loc = 0 /\ Descend(0, push_depth) /\ UNCHANGED scopeVars
      <3>1. SameScopes
        BY <1>0, <2>3, <2>5, OpenedDescend DEF SameScopes
      <3> QED
        BY <2>1, <2>5, <3>1, Quiet DEF ScopeInv
    <2>6. CASE Top.loc = 0 /\ pop_scope /\ Return
      <3>1. /\ scope_stk' \in Seq(ScopeType) /\ Len(scope_stk') = Len(scope_stk) - 1
            /\ cur_offset' \in Int
        BY <2>1, <2>6, InText, PopScope
      <3>2. Cardinality(Opened(frames')) = Cardinality(Opened(frames)) - 1
        BY <1>0, <2>3, <2>6, OpenedReturn DEF Entered
      <3> QED
        BY <2>1, <2>2, <3>1, <3>2, InText, ScopeStep
    <2> QED
      BY <1>4, <2>4, <2>5, <2>6 DEF gen_block
  <1>5. CASE gen_comment
    <2>1. /\ Running("AST_COMMENT") /\ Return
          /\ UNCHANGED <<walkVars, scopeVars, labelVars>>
      BY <1>5 DEF gen_comment
    <2> QED
      BY <2>1, KeptReturn, Quiet DEF Unscoped, ScopeInv
  <1> QED
    BY <1>1, <1>2, <1>3, <1>4, <1>5 DEF gen_stmt

LEMMA func_scopes ==
  ASSUME IInv, ScopeInv, gen_func_decl
  PROVE  ScopeInv'
  <1>0. Fresh \in Int /\ 0 # Fresh /\ 0 \in Int
    BY DEF Fresh
  <1>1. Running("AST_FUNC_DECL")
    BY DEF gen_func_decl, gen_func_enter, gen_func_param, gen_func_stmt, gen_func_return
  <1>2. /\ FramesInv /\ frames # <<>> /\ Top.node.type = "AST_FUNC_DECL"
        /\ WellFormed(Top.node) /\ Top.loc \in Int
    BY <1>1, RunningTop DEF IInv
  <1>3. CASE gen_func_enter
    <2>1. /\ phase' = phase /\ cur_offset' = 0 /\ scope_stk' = Append(scope_stk, Scope(0))
          /\ epilogue_label' = label_count /\ label_count' = label_count + 1
          /\ Top.loc = Fresh /\ SetLoc(0)
      BY <1>3 DEF gen_func_enter, walkVars, new_label
    <2>2. scope_stk' \in Seq(ScopeType) /\ Len(scope_stk') = Len(scope_stk) + 1
      BY <1>1, <2>1, InText, PushScope
    <2>3. Cardinality(Opened(frames')) = Cardinality(Opened(frames)) + 1
      BY <1>0, <1>2, <2>1, OpenedSetLoc
    <2> QED
      BY <1>1, <2>1, <2>2, <2>3, InText, ScopeStep
  <1>4. CASE gen_func_param
    <2>1. CASE std_compile_error
      BY <2>1, ScopeError
    <2>2. CASE ~std_compile_error
      <3> DEFINE k == Top.loc + 1
      <3>1. /\ Top.loc \in 0..Len(Top.node.func_t.params) - 1
            /\ define_local(Top.node.func_t.params[k].ident.name)
            /\ SetLoc(k) /\ UNCHANGED <<walkVars, labelVars>>
        BY <1>4, <2>2 DEF gen_func_param
      <3>2. phase' = phase /\ label_count' = label_count /\ epilogue_label' = epilogue_label
        BY <3>1 DEF walkVars, labelVars
      <3>3. Len(Top.node.func_t.params) \in Nat
        BY <1>2 DEF WellFormed
      <3>4. k \in 1..Len(Top.node.func_t.params) /\ k \in Int /\ k # Fresh /\ Top.loc # Fresh
        BY <3>1, <3>3 DEF Fresh
      <3>5. Top.node.func_t.params[k].ident.name \in Name
        BY <1>2, <3>4 DEF WellFormed, Idents
      <3>6. /\ scope_stk' \in Seq(ScopeType) /\ Len(scope_stk') = Len(scope_stk)
            /\ cur_offset' \in Int
        BY <1>1, <3>1, <3>5, InText, DefineLocal
      <3>7. Opened(frames') = Opened(frames)
        BY <1>2, <3>1, <3>4, OpenedSetLoc
      <3> QED
        BY <1>1, <3>2, <3>6, <3>7, InText, ScopeStep
    <2> QED
      BY <2>1, <2>2
  <1>5. CASE gen_func_stmt
    <2>1. /\ UNCHANGED <<walkVars, scopeVars, labelVars>>
          /\ Descend(Top.loc, push_depth) /\ Top.loc = Len(Top.node.func_t.params)
      BY <1>5 DEF gen_func_stmt, AllParams
    <2>2. Top.loc # Fresh
      BY <1>2, <2>1 DEF WellFormed, Fresh
    <2>3. SameScopes
      BY <1>2, <2>1, <2>2, OpenedDescend DEF SameScopes
    <2> QED
      BY <1>1, <2>1, <2>3, Quiet
  <1>6. CASE gen_func_return
    <2>1. /\ phase' = phase /\ label_count' = label_count /\ epilogue_label' = NoLabel
          /\ pop_scope /\ Return /\ Top.loc = Len(Top.node.func_t.params)
      BY <1>6 DEF gen_func_return, AllParams, walkVars
    <2>2. Top.loc # Fresh
      BY <1>2, <2>1 DEF WellFormed, Fresh
    <2>3. /\ scope_stk' \in Seq(ScopeType) /\ Len(scope_stk') = Len(scope_stk) - 1
          /\ cur_offset' \in Int
      BY <1>1, <2>1, InText, PopScope
    <2>4. Cardinality(Opened(frames')) = Cardinality(Opened(frames)) - 1
      BY <1>2, <2>1, <2>2, OpenedReturn DEF Entered
    <2> QED
      BY <1>1, <2>1, <2>3, <2>4, InText, ScopeStep
  <1> QED
    BY <1>3, <1>4, <1>5, <1>6 DEF gen_func_decl

-----------------------------------------------------------------------------
(* Steps of gen_program *)

LEMMA NoneOpened ==
  Cardinality(Opened(<<>>)) = 0
  <1>1. Opened(<<>>) = {}
    BY DEF Opened
  <1> QED
    BY <1>1, FS_EmptySet

LEMMA program_scopes ==
  ASSUME IInv, ScopeInv, gen_program
  PROVE  ScopeInv'
  <1>1. CASE StartData \/ StartText
    <2>1. /\ frames' = <<>> /\ phase' \in {"data", "text"} /\ cur_offset' = cur_offset
          /\ UNCHANGED labelVars
          /\ \/ scope_stk = <<>> /\ push_scope
             \/ Len(scope_stk) = 1 /\ scope_stk' = scope_stk
      BY <1>1 DEF StartData, StartText, ScopeInv, IInv, WalkInv
    <2>2. scope_stk' \in Seq(ScopeType) /\ Len(scope_stk') = 1
      <3>1. scope_stk \in Seq(ScopeType) /\ cur_offset \in Int
        BY DEF ScopeInv
      <3>2. CASE scope_stk = <<>> /\ push_scope
        <4>1. scope_stk' \in Seq(ScopeType) /\ Len(scope_stk') = Len(scope_stk) + 1
          BY <3>1, <3>2, PushScope DEF push_scope
        <4> QED
          BY <3>2, <4>1
      <3> QED
        BY <2>1, <3>1, <3>2
    <2> QED
      BY <2>1, <2>2, NoneOpened DEF ScopeInv, labelVars
  <1>2. CASE DataStep
    <2>1. /\ phase' = "data" /\ phase = "data" /\ cur_offset' = cur_offset
          /\ UNCHANGED labelVars /\ i \in 1..Len(program) /\ program \in Programs
          /\ IsGlobal(i)
          /\ Define(program[i].ident.name, [kind |-> "global", off |-> 0])
      BY <1>2 DEF DataStep, gen_global, define_global, IInv, WalkInv
    <2>2. program[i] \in Node /\ program[i].type = "AST_VAR_DECL"
      BY <2>1, ProgramsAssumption DEF IsGlobal
    <2>3. program[i].ident.name \in Name
      BY <2>2, ProgramsAssumption DEF WellFormed, Idents
    <2>4. [kind |-> "global", off |-> 0] \in symbol_t
      BY DEF symbol_t
    <2>5. scope_stk \in Seq(ScopeType) /\ Len(scope_stk) = 1
      BY <2>1 DEF ScopeInv
    <2>6. scope_stk' \in Seq(ScopeType) /\ Len(scope_stk') = 1
      <3>1. PICK sym \in symbol_t : sym = [kind |-> "global", off |-> 0]
        BY <2>4
      <3>2. PICK x \in Name : x = program[i].ident.name
        BY <2>3
      <3>3. Define(x, sym)
        BY <2>1, <3>1, <3>2, Zenon
      <3>4. Len(scope_stk) > 0
        BY <2>5
      <3> HIDE DEF ScopeType, symbol_t
      <3> QED
        BY <2>5, <3>3, <3>4, DefineTyped
    <2> QED
      BY <2>1, <2>6 DEF ScopeInv, labelVars
  <1>3. CASE DataSkip
    BY <1>3 DEF DataSkip, ScopeInv, scopeVars, labelVars
  <1>4. CASE TextStep
    <2>1. /\ phase = "text" /\ phase' = "text" /\ frames = <<>>
          /\ UNCHANGED <<scopeVars, labelVars>>
          /\ frames' = <<>> \/ frames' = <<Frame(program[i], push_depth)>>
      BY <1>4 DEF TextStep
    <2>2. Opened(frames') = {}
      BY <2>1 DEF Opened, Entered, Frame
    <2>3. Cardinality(Opened(frames')) = Cardinality(Opened(frames))
      BY <2>1, <2>2, NoneOpened, FS_EmptySet
    <2> QED
      BY <2>1, <2>3 DEF ScopeInv, scopeVars, labelVars
  <1>5. CASE FinishProgram
    <2>1. /\ phase = "text" /\ phase' = "done" /\ frames = <<>> /\ pop_scope
          /\ UNCHANGED labelVars
      BY <1>5 DEF FinishProgram
    <2>2. scope_stk \in Seq(ScopeType) /\ Len(scope_stk) = 1
      BY <2>1, NoneOpened DEF ScopeInv
    <2>3. scope_stk' \in Seq(ScopeType) /\ cur_offset' \in Int
      BY <2>1, <2>2, PopScope
    <2> QED
      BY <2>1, <2>3 DEF ScopeInv, labelVars
  <1> QED
    BY <1>1, <1>2, <1>3, <1>4, <1>5 DEF gen_program

-----------------------------------------------------------------------------
(* The inductive invariant *)

Inv == IInv /\ ScopeInv

LEMMA Initially ==
  ASSUME Init
  PROVE  Inv
  <1>1. WalkInv
    BY DEF Init, WalkInv
  <1>2. FramesInv /\ DepthInv
    BY DEF Init, FramesInv, DepthInv, IsWalk, HeldBy
  <1>3. DepthMatchesStack /\ CallAligned /\ rsp \in Int /\ call_rsp \subseteq Int
    BY DEF Init, DepthMatchesStack, InBody, CallAligned
  <1>4. ScopeInv
    BY DEF Init, ScopeInv, NoLabel
  <1> QED
    BY <1>1, <1>2, <1>3, <1>4 DEF Inv, IInv

LEMMA Stuttering ==
  ASSUME Inv, UNCHANGED vars
  PROVE  Inv'
  <1>1. /\ program' = program /\ phase' = phase /\ i' = i /\ frames' = frames
        /\ scope_stk' = scope_stk /\ cur_offset' = cur_offset
        /\ label_count' = label_count /\ epilogue_label' = epilogue_label
        /\ push_depth' = push_depth /\ rsp' = rsp /\ call_rsp' = call_rsp
    BY DEF vars, walkVars, scopeVars, labelVars, outVars
  <1>2. WalkInv' /\ FramesInv' /\ DepthInv' /\ CallAligned'
    BY <1>1 DEF Inv, IInv, WalkInv, FramesInv, DepthInv, CallAligned
  <1>3. DepthMatchesStack'
    BY <1>1 DEF Inv, IInv, DepthMatchesStack, InBody, FrameSize
  <1>4. ScopeInv'
    BY <1>1 DEF Inv, ScopeInv
  <1> QED
    BY <1>1, <1>2, <1>3, <1>4 DEF Inv, IInv

LEMMA Inductive ==
  ASSUME Inv, [Next]_vars
  PROVE  Inv'
  <1>1. IInv /\ ScopeInv /\ label_count \in Int
    BY DEF Inv, ScopeInv
  <1>2. CASE gen_program
    BY <1>1, <1>2, start_step, data_step, skip_step, text_step, program_scopes
    DEF Inv, gen_program
  <1>3. CASE gen_func_decl
    BY <1>1, <1>3, func_step, func_scopes DEF Inv
  <1>4. CASE gen_stmt
    BY <1>1, <1>4, stmt_step, stmt_scopes DEF Inv
  <1>5. CASE gen_expr
    BY <1>1, <1>5, expr_step, expr_scopes DEF Inv
  <1>6. CASE UNCHANGED vars
    BY <1>6, Stuttering
  <1> QED
    BY <1>2, <1>3, <1>4, <1>5, <1>6 DEF Next, Generate, Terminated

\* Inv holds in every state the generator reaches.
THEOREM Invariance == Spec => []Inv
  <1> QED
    BY Initially, Inductive, PTL DEF Spec

-----------------------------------------------------------------------------
(***************************************************************************)
(* Every call instruction of a generated function is executed at an %rsp   *)
(* that is 8 short of a multiple of 16 relative to the function's entry:   *)
(* gen_call's padding is right for calls nested in operators and arguments *)
(* to any depth, in every program.                                         *)
(***************************************************************************)
THEOREM CallsAreAligned == Spec => []CallAligned
  <1>1. Inv => CallAligned
    BY DEF Inv, IInv
  <1> QED
    BY <1>1, Invariance, PTL

(***************************************************************************)
(* At every point of every function body, push_depth is the number of      *)
(* words the emitted code has pushed on top of the function's frame.       *)
(***************************************************************************)
THEOREM DepthIsTrue == Spec => []DepthMatchesStack
  <1>1. Inv => DepthMatchesStack
    BY DEF Inv, IInv
  <1> QED
    BY <1>1, Invariance, PTL

-----------------------------------------------------------------------------
(* What is left between two functions *)

\* With no function being generated the emitted code is outside all of them.
IdleInv == frames = <<>> /\ phase # "error" => rsp = 0 /\ epilogue_label = NoLabel

\* Only the end of gen_func_decl empties the call stack.
LEMMA StaysInside ==
  ASSUME IInv, NEW ty, Running(ty), ty # "AST_FUNC_DECL",
         \/ Return
         \/ \E l, depth : Descend(l, depth)
         \/ \E f : frames' = [frames EXCEPT ![Len(frames)] = f]
  PROVE  frames' # <<>>
  <1>1. /\ frames \in Seq(frame_t) /\ Len(frames) \in Nat /\ Len(frames) > 0
        /\ Top.node.type = "AST_FUNC_DECL" <=> Len(frames) = 1
    BY RunningTop, TopTyped DEF IInv, FramesInv
  <1>2. Len(frames) > 1
    BY <1>1, RunningTop, Positive
  <1>3. CASE Return
    <2>1. frames' \in Seq(frame_t) /\ Len(frames') = Len(frames) - 1
      BY <1>1, <1>3, RemoveLast DEF Return
    <2> QED
      BY <1>2, <2>1
  <1>4. ASSUME NEW l, NEW depth, Descend(l, depth)
        PROVE  frames' # <<>>
    BY <1>1, <1>4 DEF Descend
  <1>5. ASSUME NEW f, frames' = [frames EXCEPT ![Len(frames)] = f]
        PROVE  frames' # <<>>
    <2>1. 1 \in DOMAIN frames' /\ 1 \notin DOMAIN <<>>
      BY <1>1, <1>5
    <2> QED
      BY <2>1
  <1> QED
    BY <1>3, <1>4, <1>5

LEMMA ErrorIdle == ASSUME std_compile_error PROVE IdleInv'
  BY DEF std_compile_error, IdleInv

LEMMA expr_idle == ASSUME IInv, gen_expr PROVE IdleInv'
  <1>1. CASE gen_literal
    BY <1>1, StaysInside DEF gen_literal, IdleInv
  <1>2. CASE gen_identifier
    BY <1>2, StaysInside, ErrorIdle DEF gen_identifier, IdleInv
  <1>3. CASE gen_address
    BY <1>3, StaysInside, ErrorIdle DEF gen_address, IdleInv
  <1>4. CASE gen_unary
    BY <1>4, StaysInside, ErrorIdle DEF gen_unary, IdleInv
  <1>5. CASE gen_binary
    BY <1>5, StaysInside DEF gen_binary, IdleInv
  <1>6. CASE gen_call_enter
    BY <1>6, StaysInside, ErrorIdle DEF gen_call_enter, SetLoc, IdleInv
  <1>7. CASE gen_call_arg
    BY <1>7, StaysInside DEF gen_call_arg, SetLoc, IdleInv
  <1>8. CASE gen_call_pop
    BY <1>8, StaysInside DEF gen_call_pop, IdleInv
  <1>9. CASE gen_call_return
    BY <1>9, StaysInside DEF gen_call_return, IdleInv
  <1>10. CASE gen_assign
    BY <1>10, StaysInside, ErrorIdle DEF gen_assign, IdleInv
  <1>11. CASE gen_cast
    BY <1>11, StaysInside DEF gen_cast, IdleInv
  <1>12. CASE gen_unsupported
    BY <1>12, ErrorIdle DEF gen_unsupported
  <1> QED
    BY <1>1, <1>2, <1>3, <1>4, <1>5, <1>6, <1>7, <1>8, <1>9, <1>10, <1>11, <1>12 DEF gen_expr

LEMMA stmt_idle == ASSUME IInv, gen_stmt PROVE IdleInv'
  <1>1. CASE gen_var_decl
    BY <1>1, StaysInside DEF gen_var_decl, IdleInv
  <1>2. CASE gen_return
    BY <1>2, StaysInside DEF gen_return, IdleInv
  <1>3. CASE gen_if
    BY <1>3, StaysInside DEF gen_if, IdleInv
  <1>4. CASE gen_block
    BY <1>4, StaysInside DEF gen_block, SetLoc, IdleInv
  <1>5. CASE gen_comment
    BY <1>5, StaysInside DEF gen_comment, IdleInv
  <1> QED
    BY <1>1, <1>2, <1>3, <1>4, <1>5 DEF gen_stmt

LEMMA func_idle == ASSUME IInv, gen_func_decl PROVE IdleInv'
  <1>1. CASE gen_func_return
    BY <1>1, EmitEpilogue DEF gen_func_return, Emit, IdleInv
  <1>2. frames # <<>>
    BY DEF gen_func_decl, gen_func_enter, gen_func_param, gen_func_stmt, gen_func_return, Running
  <1>3. frames \in Seq(frame_t) /\ Len(frames) \in Nat /\ Len(frames) > 0
    BY <1>2, TopTyped DEF IInv, FramesInv
  <1>4. ASSUME NEW f, frames' = [frames EXCEPT ![Len(frames)] = f]
        PROVE  frames' # <<>>
    <2>1. 1 \in DOMAIN frames' /\ 1 \notin DOMAIN <<>>
      BY <1>3, <1>4
    <2> QED
      BY <2>1
  <1>5. CASE gen_func_enter
    BY <1>4, <1>5 DEF gen_func_enter, SetLoc, IdleInv
  <1>6. CASE gen_func_param
    BY <1>4, <1>6, ErrorIdle DEF gen_func_param, SetLoc, IdleInv
  <1>7. CASE gen_func_stmt
    BY <1>3, <1>7 DEF gen_func_stmt, Descend, IdleInv
  <1> QED
    BY <1>1, <1>5, <1>6, <1>7 DEF gen_func_decl

LEMMA program_idle == ASSUME IInv, IdleInv, gen_program PROVE IdleInv'
  <1>1. CASE StartData \/ StartText
    <2>1. frames = <<>> /\ phase # "error" /\ epilogue_label' = epilogue_label
      BY <1>1 DEF StartData, StartText, IInv, WalkInv, labelVars
    <2>2. PICK x \in still_op : Emit(<<Directive(x, NoOperand)>>)
      BY <1>1 DEF StartData, StartText, still_op
    <2>3. StackAfterAll(rsp, <<Directive(x, NoOperand)>>) = rsp
      BY EmittingOne, StillLine DEF Directive
    <2> QED
      BY <2>1, <2>2, <2>3 DEF Emit, IdleInv
  <1>2. CASE DataStep
    <2>1. frames = <<>> /\ phase # "error" /\ epilogue_label' = epilogue_label
          /\ i \in 1..Len(program) /\ program \in Programs
      BY <1>2 DEF DataStep, IInv, WalkInv, labelVars
    <2> DEFINE n == program[i]
    <2>2. n.ident.name \in Name
      BY <1>2, <2>1, ProgramsAssumption DEF DataStep, IsGlobal, WellFormed, Idents
    <2>3. directive_of(type_size(n.var_t)) \in still_op
      BY DEF directive_of, type_size, still_op
    <2>4. PICK v : Emit(<<Label(mk_label(n.ident.name)),
                          Directive(directive_of(type_size(n.var_t)), v)>>)
      BY <1>2 DEF DataStep, gen_global
    <2> DEFINE a == Label(mk_label(n.ident.name))
               b == Directive(directive_of(type_size(n.var_t)), v)
    <2>5. \A r : StackAfter(r, a) = 0 /\ StackAfter(r, b) = r
      BY <2>2, <2>3, LabelLine, StillLine DEF Directive
    <2>6. rsp' = StackAfterAll(rsp, <<a, b>>)
      BY <2>4 DEF Emit
    <2> HIDE DEF a, b
    <2>7. rsp' = 0
      BY <2>5, <2>6, EmittingTwo
    <2> QED
      BY <2>1, <2>7 DEF IdleInv
  <1>3. CASE DataSkip \/ TextStep \/ FinishProgram
    <2>1. frames = <<>> /\ phase # "error" /\ epilogue_label' = epilogue_label /\ rsp' = rsp
      BY <1>3 DEF DataSkip, TextStep, FinishProgram, IInv, WalkInv, labelVars, outVars
    <2> QED
      BY <2>1 DEF IdleInv
  <1> QED
    BY <1>1, <1>2, <1>3 DEF gen_program

LEMMA Idles ==
  ASSUME IInv, IdleInv, [Next]_vars
  PROVE  IdleInv'
  <1>1. CASE UNCHANGED vars
    BY <1>1 DEF vars, walkVars, labelVars, outVars, IdleInv
  <1> QED
    BY <1>1, expr_idle, stmt_idle, func_idle, program_idle DEF Next, Generate, Terminated

(***************************************************************************)
(* After every function of every program, each push has been undone, each  *)
(* scope left and the epilogue label forgotten: nothing of a function is   *)
(* there when the next one is generated.                                   *)
(***************************************************************************)
THEOREM FunctionsLeaveNothing == Spec => []Balanced
  <1>1. Init => IdleInv
    BY DEF Init, IdleInv
  <1>2. Inv /\ IdleInv /\ [Next]_vars => IdleInv'
    BY Idles DEF Inv
  <1>3. Inv /\ IdleInv => Balanced
    <2> SUFFICES ASSUME Inv, IdleInv, phase = "text", frames = <<>>
                 PROVE  Len(scope_stk) = 1 /\ push_depth = 0 /\ rsp = 0 /\ epilogue_label = NoLabel
      BY DEF Balanced
    <2>1. push_depth = 0
      BY DEF Inv, IInv, DepthInv, HeldBy
    <2>2. Len(scope_stk) = 1
      BY NoneOpened DEF Inv, ScopeInv
    <2> QED
      BY <2>1, <2>2 DEF IdleInv
  <1> QED
    BY <1>1, <1>2, <1>3, Invariance, PTL DEF Spec

-----------------------------------------------------------------------------
(***************************************************************************)
(* The type invariant, lines included: every line emitted is built from    *)
(* registers, sizes, names and integers that exist.                        *)
(***************************************************************************)

\* find_symbol returns NoSymbol or what the innermost scope with the name holds.
LEMMA FindSymbolTyped ==
  ASSUME scope_stk \in Seq(ScopeType), NEW x \in Name
  PROVE  find_symbol(x) \in symbol_t
  <1> DEFINE having == {k \in DOMAIN scope_stk : scope_stk[k].symbols[x] # NoSymbol}
  <1>1. NoSymbol \in symbol_t
    BY DEF NoSymbol, symbol_t
  <1>2. \A k \in DOMAIN scope_stk : scope_stk[k].symbols[x] \in symbol_t
    <2> SUFFICES ASSUME NEW k \in DOMAIN scope_stk
                 PROVE  scope_stk[k].symbols[x] \in symbol_t
      OBVIOUS
    <2>1. PICK s \in ScopeType : s = scope_stk[k]
      OBVIOUS
    <2>2. s.symbols \in [Name -> symbol_t]
      BY DEF ScopeType
    <2> QED
      BY <2>1, <2>2
  <1>3. Len(scope_stk) \in Nat /\ having \subseteq 0..Len(scope_stk)
    OBVIOUS
  <1>4. find_symbol(x) = IF having = {} THEN NoSymbol ELSE scope_stk[Max(having)].symbols[x]
    BY DEF find_symbol
  <1>5. having # {} => Max(having) \in having
    <2> HIDE DEF having
    <2> QED
      BY <1>3, Greatest DEF Max
  <1> QED
    BY <1>1, <1>2, <1>4, <1>5

-----------------------------------------------------------------------------
(* Operands and lines *)

LEMMA OperandsTyped ==
  /\ NoOperand \in Operand
  /\ \A r \in regid, z \in regsize : mk_register(r, z) \in Operand
  /\ \A n \in Int : mk_immutable(n) \in Operand /\ mk_local_label(n) \in Operand
  /\ \A n \in Int : Slot(n) \in Operand
  /\ \A x \in Name : mk_label(x) \in Operand /\ mk_rip(x) \in Operand
  <1>1. NoOperand \in Operand
    BY DEF NoOperand, Operand, regid, regsize, operandkind
  <1>2. PICK e \in Operand : e = NoOperand
    BY <1>1
  <1>3. "REG_RBP" \in regid /\ "SZ_64" \in regsize
    BY DEF regid, regsize
  <1>4. {"OP_REG", "OP_IMM", "OP_LABEL", "OP_MEM", "OP_RIP"} \subseteq operandkind
    BY DEF operandkind
  <1> HIDE DEF regid, regsize, operandkind
  <1>5. \A r \in regid, z \in regsize : mk_register(r, z) \in Operand
    BY <1>2, <1>4 DEF mk_register, Operand
  <1>6. \A n \in Int : mk_immutable(n) \in Operand /\ mk_local_label(n) \in Operand
    BY <1>2, <1>4 DEF mk_immutable, mk_local_label, Operand
  <1>7. \A n \in Int : Slot(n) \in Operand
    BY <1>2, <1>3, <1>4 DEF Slot, mk_mem, Operand
  <1>8. \A x \in Name : mk_label(x) \in Operand /\ mk_rip(x) \in Operand
    BY <1>2, <1>4 DEF mk_label, mk_rip, Operand
  <1> QED
    BY <1>1, <1>5, <1>6, <1>7, <1>8

LEMMA RegistersTyped ==
  /\ RAX \in Operand /\ RCX \in Operand /\ RBP \in Operand /\ RSP \in Operand
  /\ AL \in Operand
  BY OperandsTyped DEF RAX, RCX, RBP, RSP, AL, regid, regsize

LEMMA LineTyped ==
  ASSUME NEW o \in Opcode, NEW z \in regsize, NEW a \in Operand, NEW b \in Operand
  PROVE  Line(o, z, a, b) \in LineType
  BY DEF Line, LineType

LEMMA RegSizeTyped ==
  ASSUME NEW a \in Operand, NEW b \in Operand
  PROVE  get_reg_size(a, b) \in regsize
  BY DEF get_reg_size, Operand, regsize

LEMMA EmitsTyped ==
  ASSUME NEW a \in Operand, NEW b \in Operand
  PROVE  /\ emit_mov(a, b) \in LineType
         /\ emit_add(a, b) \in LineType
         /\ emit_sub(a, b) \in LineType
         /\ emit_imul(a, b) \in LineType
         /\ emit_cmp(a, b) \in LineType
         /\ emit_push(a) \in LineType
         /\ emit_pop(b) \in LineType
         /\ emit_idiv(a) \in LineType
         /\ emit_call(a) \in LineType
         /\ Label(b) \in LineType
         /\ leaq(a) \in LineType
  <1>1. NoOperand \in Operand /\ RAX \in Operand
    BY OperandsTyped, RegistersTyped
  <1>2. "SZ_64" \in regsize
    BY DEF regsize
  <1>3. emit_mov(a, b) \in LineType /\ emit_add(a, b) \in LineType
    BY RegSizeTyped, LineTyped DEF Opcode, emit_mov, emit_add
  <1>4. emit_sub(a, b) \in LineType /\ emit_imul(a, b) \in LineType
    BY RegSizeTyped, LineTyped DEF Opcode, emit_sub, emit_imul
  <1>5. emit_cmp(a, b) \in LineType
    BY RegSizeTyped, LineTyped DEF Opcode, emit_cmp
  <1>6. emit_push(a) \in LineType /\ emit_idiv(a) \in LineType
    BY <1>1, RegSizeTyped, LineTyped DEF Opcode, emit_push, emit_idiv
  <1>7. emit_pop(b) \in LineType
    BY <1>1, RegSizeTyped, LineTyped DEF Opcode, emit_pop
  <1>8. emit_call(a) \in LineType /\ Label(b) \in LineType /\ leaq(a) \in LineType
    BY <1>1, <1>2, LineTyped DEF Opcode, emit_call, Label, leaq
  <1> QED
    BY <1>3, <1>4, <1>5, <1>6, <1>7, <1>8

LEMMA FixedLinesTyped ==
  /\ negq \in LineType /\ movzbq \in LineType /\ cqto \in LineType /\ ret \in LineType
  /\ \A x \in Opcode : setcc(x) \in LineType
  /\ \A x \in Opcode, a \in Operand : Directive(x, a) \in LineType
  /\ \A n \in Int : jmp(n) \in LineType /\ je(n) \in LineType
  <1>1. NoOperand \in Operand /\ RAX \in Operand /\ AL \in Operand
    BY OperandsTyped, RegistersTyped
  <1>2. "SZ_64" \in regsize /\ "SZ_8" \in regsize
    BY DEF regsize
  <1>3. negq \in LineType /\ movzbq \in LineType /\ cqto \in LineType /\ ret \in LineType
    BY <1>1, <1>2, LineTyped DEF Opcode, negq, movzbq, cqto, ret
  <1>4. \A x \in Opcode : setcc(x) \in LineType
    BY <1>1, <1>2, LineTyped DEF setcc
  <1>5. \A x \in Opcode, a \in Operand : Directive(x, a) \in LineType
    BY <1>1, <1>2, LineTyped DEF Directive
  <1>6. ASSUME NEW n \in Int
        PROVE  jmp(n) \in LineType /\ je(n) \in LineType
    <2>1. mk_local_label(n) \in Operand
      BY OperandsTyped
    <2> QED
      BY <2>1, <1>1, <1>2, LineTyped DEF Opcode, jmp, je
  <1> QED
    BY <1>3, <1>4, <1>5, <1>6

LEMMA OutTyped ==
  ASSUME out \in Seq(LineType), NEW lines, lines \in Seq(LineType), out' = out \o lines
  PROVE  out' \in Seq(LineType)
  <1> HIDE DEF LineType
  <1> QED
    BY ConcatProperties

LEMMA LinesTyped ==
  /\ <<>> \in Seq(LineType)
  /\ \A a \in LineType : <<a>> \in Seq(LineType)
  /\ \A a, b \in LineType : <<a, b>> \in Seq(LineType)
  /\ \A a, b, c \in LineType : <<a, b, c>> \in Seq(LineType)
  /\ \A a, b, c, d \in LineType : <<a, b, c, d>> \in Seq(LineType)
  <1> HIDE DEF LineType
  <1> QED
    OBVIOUS

LEMMA AppendedTyped ==
  ASSUME NEW s, s \in Seq(LineType), NEW t, t \in Seq(LineType)
  PROVE  s \o t \in Seq(LineType)
  <1> HIDE DEF LineType
  <1> QED
    BY ConcatProperties

LEMMA PlaceTyped ==
  ASSUME scope_stk \in Seq(ScopeType), NEW x \in Name
  PROVE  Place(x) \in Operand
  <1>1. PICK s \in symbol_t : s = find_symbol(x)
    BY FindSymbolTyped
  <1>2. s.off \in Int
    BY DEF symbol_t
  <1>3. mk_rip(x) \in Operand /\ Slot(s.off) \in Operand
    BY <1>2, OperandsTyped
  <1> QED
    BY <1>1, <1>3 DEF Place

LEMMA UnaryLinesTyped ==
  ASSUME NEW o \in {"U_NEG", "U_NOT", "U_POS"}
  PROVE  UnaryLines(o) \in Seq(LineType)
  <1>1. mk_immutable(0) \in Operand /\ RAX \in Operand
    BY OperandsTyped, RegistersTyped
  <1>2. emit_cmp(mk_immutable(0), RAX) \in LineType
    BY <1>1, EmitsTyped
  <1>3. negq \in LineType /\ movzbq \in LineType /\ setcc("sete") \in LineType
    BY FixedLinesTyped DEF Opcode
  <1>4. /\ <<negq>> \in Seq(LineType) /\ <<>> \in Seq(LineType)
        /\ <<emit_cmp(mk_immutable(0), RAX), setcc("sete"), movzbq>> \in Seq(LineType)
    BY <1>2, <1>3, LinesTyped
  <1> QED
    BY <1>4 DEF UnaryLines

LEMMA BinaryLinesTyped ==
  ASSUME NEW o \in binary_expr_t
  PROVE  BinaryLines(o) \in Seq(LineType)
  <1>1. RAX \in Operand /\ RCX \in Operand
    BY RegistersTyped
  <1>2. /\ <<emit_add(RCX, RAX)>> \in Seq(LineType)
        /\ <<emit_sub(RCX, RAX)>> \in Seq(LineType)
        /\ <<emit_imul(RCX, RAX)>> \in Seq(LineType)
    BY <1>1, EmitsTyped, LinesTyped
  <1>3. <<cqto, emit_idiv(RCX)>> \in Seq(LineType)
    BY <1>1, EmitsTyped, FixedLinesTyped, LinesTyped
  <1>4. CASE o \in comparison_t
    <2>1. setcc_of(o) \in Opcode
      BY <1>4 DEF setcc_of, comparison_t, Opcode
    <2>2. /\ emit_cmp(RCX, RAX) \in LineType /\ setcc(setcc_of(o)) \in LineType
          /\ movzbq \in LineType
      BY <1>1, <2>1, EmitsTyped, FixedLinesTyped
    <2>3. <<emit_cmp(RCX, RAX), setcc(setcc_of(o)), movzbq>> \in Seq(LineType)
      BY <2>2, LinesTyped
    <2> QED
      BY <1>2, <1>3, <2>3, <1>4 DEF BinaryLines, comparison_t
  <1>5. CASE o \in arithmetic_t
    BY <1>2, <1>3, <1>5 DEF BinaryLines, arithmetic_t
  <1> QED
    BY <1>4, <1>5 DEF binary_expr_t

LEMMA PadLinesTyped ==
  ASSUME NEW fr
  PROVE  PadLines(fr) \in Seq(LineType) /\ UnpadLines(fr) \in Seq(LineType)
  <1>1. mk_immutable(8) \in Operand /\ RSP \in Operand
    BY OperandsTyped, RegistersTyped
  <1>2. /\ <<emit_sub(mk_immutable(8), RSP)>> \in Seq(LineType)
        /\ <<emit_add(mk_immutable(8), RSP)>> \in Seq(LineType) /\ <<>> \in Seq(LineType)
    BY <1>1, EmitsTyped, LinesTyped
  <1> QED
    BY <1>2 DEF PadLines, UnpadLines

LEMMA PrologueTyped ==
  ASSUME NEW x \in Name, NEW z \in Nat
  PROVE  Prologue(mk_label(x), z) \in Seq(LineType)
  <1>1. /\ mk_label(x) \in Operand /\ RBP \in Operand /\ RSP \in Operand
        /\ mk_immutable(z) \in Operand
    BY OperandsTyped, RegistersTyped
  <1>2. /\ Directive(".globl", mk_label(x)) \in LineType /\ Label(mk_label(x)) \in LineType
        /\ emit_push(RBP) \in LineType /\ emit_mov(RSP, RBP) \in LineType
        /\ emit_sub(mk_immutable(z), RSP) \in LineType
    BY <1>1, EmitsTyped, FixedLinesTyped DEF Opcode
  <1> DEFINE open == <<Directive(".globl", mk_label(x)), Label(mk_label(x)), emit_push(RBP),
                       emit_mov(RSP, RBP)>>
             reserve == IF z > 0 THEN <<emit_sub(mk_immutable(z), RSP)>> ELSE <<>>
  <1>3. open \in Seq(LineType) /\ reserve \in Seq(LineType)
    BY <1>2, LinesTyped
  <1>4. Prologue(mk_label(x), z) = open \o reserve
    BY DEF Prologue
  <1> HIDE DEF open, reserve
  <1> QED
    BY <1>3, <1>4, AppendedTyped

LEMMA EpilogueTyped ==
  ASSUME NEW n \in Int
  PROVE  Epilogue(n) \in Seq(LineType)
  <1>1. mk_local_label(n) \in Operand /\ RBP \in Operand /\ RSP \in Operand
    BY OperandsTyped, RegistersTyped
  <1>2. /\ Label(mk_local_label(n)) \in LineType /\ emit_mov(RBP, RSP) \in LineType
        /\ emit_pop(RBP) \in LineType /\ ret \in LineType
    BY <1>1, EmitsTyped, FixedLinesTyped
  <1> QED
    BY <1>2, LinesTyped DEF Epilogue

-----------------------------------------------------------------------------
(* Every action emits lines of the type, or none *)

\* A step that emits nothing.
LEMMA NoOutput ==
  ASSUME out \in Seq(LineType), std_compile_error \/ UNCHANGED outVars
  PROVE  out' \in Seq(LineType)
  BY DEF std_compile_error, outVars

LEMMA OutputOf ==
  ASSUME out \in Seq(LineType), NEW lines, lines \in Seq(LineType), Emit(lines)
  PROVE  out' \in Seq(LineType)
  BY OutTyped DEF Emit

LEMMA expr_output ==
  ASSUME Inv, out \in Seq(LineType), gen_expr
  PROVE  out' \in Seq(LineType)
  <1>0. IInv /\ scope_stk \in Seq(ScopeType)
    BY DEF Inv, ScopeInv
  <1>1. SUFFICES ASSUME ~std_compile_error, ~UNCHANGED outVars
                 PROVE  out' \in Seq(LineType)
    BY NoOutput
  <1>2. RAX \in Operand /\ RCX \in Operand
    BY RegistersTyped
  <1>3. CASE gen_literal
    <2>1. Running("AST_LITERAL") /\ Emit(<<load_imm(Top.node.num_value)>>)
      BY <1>3 DEF gen_literal
    <2>2. Top.node.num_value \in Int
      BY <1>0, <2>1, RunningTop DEF WellFormed
    <2>3. mk_immutable(Top.node.num_value) \in Operand
      BY <2>2, OperandsTyped
    <2>4. load_imm(Top.node.num_value) \in LineType
      BY <1>2, <2>3, EmitsTyped DEF load_imm
    <2>5. <<load_imm(Top.node.num_value)>> \in Seq(LineType)
      BY <2>4, LinesTyped
    <2> QED
      BY <2>1, <2>5, OutputOf
  <1>4. CASE gen_identifier
    <2>1. Running("AST_IDENTIFIER") /\ Emit(<<emit_mov(Place(Top.node.name), RAX)>>)
      BY <1>1, <1>4 DEF gen_identifier
    <2>2. Top.node.name \in Name
      BY <1>0, <2>1, RunningTop DEF WellFormed, Idents
    <2>3. Place(Top.node.name) \in Operand
      BY <1>0, <2>2, PlaceTyped
    <2>4. emit_mov(Place(Top.node.name), RAX) \in LineType
      BY <1>2, <2>3, EmitsTyped
    <2>5. <<emit_mov(Place(Top.node.name), RAX)>> \in Seq(LineType)
      BY <2>4, LinesTyped
    <2> QED
      BY <2>1, <2>5, OutputOf
  <1>5. CASE gen_address
    <2> DEFINE e == Top.node.expr
    <2>1. /\ Running("AST_UNARY") /\ Emit(<<leaq(Place(e.name))>>)
          /\ e.type = "AST_IDENTIFIER"
      BY <1>1, <1>5 DEF gen_address
    <2>2. e \in Node
      BY <1>0, <2>1, RunningTop DEF WellFormed
    <2>3. e.name \in Name
      BY <2>1, <2>2, ProgramsAssumption DEF WellFormed, Idents
    <2>4. Place(e.name) \in Operand
      BY <1>0, <2>3, PlaceTyped
    <2>5. leaq(Place(e.name)) \in LineType
      BY <1>2, <2>4, EmitsTyped
    <2>6. <<leaq(Place(e.name))>> \in Seq(LineType)
      BY <2>5, LinesTyped
    <2> QED
      BY <2>1, <2>6, OutputOf
  <1>6. CASE gen_unary
    <2>1. Top.node.op \in {"U_NEG", "U_NOT", "U_POS"} /\ Emit(UnaryLines(Top.node.op))
      BY <1>1, <1>6 DEF gen_unary
    <2>2. UnaryLines(Top.node.op) \in Seq(LineType)
      BY <2>1, UnaryLinesTyped
    <2> QED
      BY <2>1, <2>2, OutputOf
  <1>7. CASE gen_binary
    <2> DEFINE ends == <<emit_mov(RAX, RCX), pop_into("REG_RAX")>>
    <2>1. /\ Running("AST_BINARY")
          /\ \/ Emit(<<push_rax>>)
             \/ Emit(ends \o BinaryLines(Top.node.op))
      BY <1>1, <1>7 DEF gen_binary, outVars
    <2>2. Top.node.op \in binary_expr_t
      BY <1>0, <2>1, RunningTop DEF WellFormed
    <2>3. BinaryLines(Top.node.op) \in Seq(LineType)
      BY <2>2, BinaryLinesTyped
    <2>4. emit_mov(RAX, RCX) \in LineType /\ pop_into("REG_RAX") \in LineType
      BY <1>2, EmitsTyped DEF pop_into, RAX
    <2>5. ends \in Seq(LineType)
      BY <2>4, LinesTyped
    <2>6. push_rax \in LineType
      BY <1>2, EmitsTyped DEF push_rax
    <2>7. <<push_rax>> \in Seq(LineType)
      BY <2>6, LinesTyped
    <2> HIDE DEF ends
    <2>8. ends \o BinaryLines(Top.node.op) \in Seq(LineType)
      BY <2>3, <2>5, AppendedTyped
    <2> QED
      BY <2>1, <2>7, <2>8, OutputOf
  <1>8. CASE gen_call_enter
    <2>1. Emit(PadLines(Top))
      BY <1>1, <1>8 DEF gen_call_enter
    <2> QED
      BY <2>1, PadLinesTyped, OutputOf
  <1>9. CASE gen_call_arg
    <2>1. Emit(<<push_rax>>)
      BY <1>1, <1>9 DEF gen_call_arg, outVars
    <2>2. push_rax \in LineType
      BY <1>2, EmitsTyped DEF push_rax
    <2>3. <<push_rax>> \in Seq(LineType)
      BY <2>2, LinesTyped
    <2> QED
      BY <2>1, <2>3, OutputOf
  <1>10. CASE gen_call_pop
    <2>1. Running("AST_CALL") /\ Top.loc > 0 /\ Emit(<<pop_into(arg_regs[Top.loc])>>)
      BY <1>10 DEF gen_call_pop
    <2>2. CallFrame(Top) /\ Top.loc \in Int /\ Len(Top.node.args) \in Nat
      BY <1>0, <2>1, RunningTop DEF FrameInv, WellFormed
    <2>3. Top.loc \in 1..6
      BY <2>1, <2>2 DEF CallFrame, Fresh
    <2>4. PICK r \in regid : r = arg_regs[Top.loc]
      BY <2>3 DEF arg_regs, regid
    <2>5. mk_register(r, "SZ_64") \in Operand
      BY OperandsTyped DEF regsize
    <2>6. pop_into(r) \in LineType
      BY <2>5, EmitsTyped DEF pop_into
    <2>7. <<pop_into(r)>> \in Seq(LineType)
      BY <2>6, LinesTyped
    <2>8. Emit(<<pop_into(r)>>)
      BY <2>1, <2>4
    <2> QED
      BY <2>7, <2>8, OutputOf
  <1>11. CASE gen_call_return
    <2> DEFINE call == <<emit_call(mk_label(Top.node.callee.name))>>
    <2>1. Running("AST_CALL") /\ out' = out \o (call \o UnpadLines(Top))
      BY <1>11 DEF gen_call_return
    <2>2. Top.node.callee.name \in Name
      BY <1>0, <2>1, RunningTop DEF WellFormed, Idents
    <2>3. mk_label(Top.node.callee.name) \in Operand
      BY <2>2, OperandsTyped
    <2>4. emit_call(mk_label(Top.node.callee.name)) \in LineType
      BY <2>3, EmitsTyped
    <2>5. call \in Seq(LineType) /\ UnpadLines(Top) \in Seq(LineType)
      BY <2>4, LinesTyped, PadLinesTyped
    <2> HIDE DEF call
    <2>6. call \o UnpadLines(Top) \in Seq(LineType)
      BY <2>5, AppendedTyped
    <2> QED
      BY <2>1, <2>6, OutTyped
  <1>12. CASE gen_assign
    <2> DEFINE target == Top.node.target
    <2>1. /\ Running("AST_ASSIGN") /\ target.type = "AST_IDENTIFIER"
          /\ Emit(<<emit_mov(RAX, Place(target.name))>>)
      BY <1>1, <1>12 DEF gen_assign
    <2>2. target \in Node
      BY <1>0, <2>1, RunningTop DEF WellFormed
    <2>3. target.name \in Name
      BY <2>1, <2>2, ProgramsAssumption DEF WellFormed, Idents
    <2>4. Place(target.name) \in Operand
      BY <1>0, <2>3, PlaceTyped
    <2>5. emit_mov(RAX, Place(target.name)) \in LineType
      BY <1>2, <2>4, EmitsTyped
    <2>6. <<emit_mov(RAX, Place(target.name))>> \in Seq(LineType)
      BY <2>5, LinesTyped
    <2> QED
      BY <2>1, <2>6, OutputOf
  <1>13. CASE gen_cast
    BY <1>1, <1>13 DEF gen_cast
  <1>14. CASE gen_unsupported
    BY <1>1, <1>14 DEF gen_unsupported
  <1> QED
    BY <1>3, <1>4, <1>5, <1>6, <1>7, <1>8, <1>9, <1>10, <1>11, <1>12, <1>13, <1>14 DEF gen_expr

LEMMA stmt_output ==
  ASSUME Inv, cur_offset' \in Int, out \in Seq(LineType), gen_stmt
  PROVE  out' \in Seq(LineType)
  <1>0. IInv /\ ScopeInv
    BY DEF Inv
  <1>1. SUFFICES ASSUME ~UNCHANGED outVars
                 PROVE  out' \in Seq(LineType)
    BY NoOutput
  <1>2. RAX \in Operand
    BY RegistersTyped
  <1>3. CASE gen_var_decl
    <2>1. Running("AST_VAR_DECL") /\ Emit(<<store_local(Top.loc)>>)
      BY <1>1, <1>3 DEF gen_var_decl
    <2>2. Top.loc \in Int
      BY <1>0, <2>1, RunningTop
    <2>3. Slot(Top.loc) \in Operand
      BY <2>2, OperandsTyped
    <2>4. store_local(Top.loc) \in LineType
      BY <1>2, <2>3, EmitsTyped DEF store_local
    <2>5. <<store_local(Top.loc)>> \in Seq(LineType)
      BY <2>4, LinesTyped
    <2> QED
      BY <2>1, <2>5, OutputOf
  <1>4. CASE gen_return
    <2>1. Running("AST_RETURN") /\ Emit(<<jmp(epilogue_label)>>)
      BY <1>1, <1>4 DEF gen_return
    <2>2. epilogue_label \in Int
      BY <1>0 DEF ScopeInv, NoLabel
    <2>3. jmp(epilogue_label) \in LineType
      BY <2>2, FixedLinesTyped
    <2>4. <<jmp(epilogue_label)>> \in Seq(LineType)
      BY <2>3, LinesTyped
    <2> QED
      BY <2>1, <2>4, OutputOf
  <1>5. CASE gen_if
    <2> DEFINE else_lbl == Label(mk_local_label(Top.loc))
               end_lbl == Label(mk_local_label(Top.loc + 1))
               zero == mk_immutable(0)
    <2>1. /\ Running("AST_IF")
          /\ \/ Emit(<<emit_cmp(zero, RAX), je(Top.loc)>>)
             \/ Emit(<<jmp(Top.loc + 1), else_lbl>>)
             \/ Emit(<<jmp(Top.loc + 1), else_lbl, end_lbl>>)
             \/ Emit(<<end_lbl>>)
      BY <1>1, <1>5 DEF gen_if
    <2>2. Top.loc \in Int /\ Top.loc + 1 \in Int
      BY <1>0, <2>1, RunningTop
    <2>3. /\ mk_local_label(Top.loc) \in Operand /\ mk_local_label(Top.loc + 1) \in Operand
          /\ zero \in Operand
      BY <2>2, OperandsTyped
    <2>4. else_lbl \in LineType /\ end_lbl \in LineType /\ emit_cmp(zero, RAX) \in LineType
      BY <1>2, <2>3, EmitsTyped
    <2>5. je(Top.loc) \in LineType /\ jmp(Top.loc + 1) \in LineType
      BY <2>2, FixedLinesTyped
    <2> HIDE DEF else_lbl, end_lbl, zero
    <2>6. /\ <<emit_cmp(zero, RAX), je(Top.loc)>> \in Seq(LineType)
          /\ <<jmp(Top.loc + 1), else_lbl>> \in Seq(LineType)
          /\ <<jmp(Top.loc + 1), else_lbl, end_lbl>> \in Seq(LineType)
          /\ <<end_lbl>> \in Seq(LineType)
      BY <2>4, <2>5, LinesTyped
    <2> QED
      BY <2>1, <2>6, OutputOf
  <1>6. CASE gen_block \/ gen_comment
    BY <1>1, <1>6 DEF gen_block, gen_comment
  <1> QED
    BY <1>3, <1>4, <1>5, <1>6 DEF gen_stmt

LEMMA func_output ==
  ASSUME Inv, Inv', out \in Seq(LineType), gen_func_decl
  PROVE  out' \in Seq(LineType)
  <1>0. IInv /\ ScopeInv /\ cur_offset' \in Int
    BY DEF Inv, ScopeInv
  <1>1. SUFFICES ASSUME ~std_compile_error, ~UNCHANGED outVars
                 PROVE  out' \in Seq(LineType)
    BY NoOutput
  <1>2. CASE gen_func_enter
    <2> DEFINE x == Top.node.func_t.ident.name
               z == compute_frame_size(Top.node)
    <2>1. Running("AST_FUNC_DECL") /\ Emit(Prologue(mk_label(x), z))
      BY <1>2 DEF gen_func_enter
    <2>2. x \in Name /\ z \in Nat
      BY <1>0, <2>1, RunningTop, FrameSizeRounded DEF WellFormed, Idents
    <2> HIDE DEF x, z
    <2>3. Prologue(mk_label(x), z) \in Seq(LineType)
      BY <2>2, PrologueTyped
    <2> QED
      BY <2>1, <2>3, OutputOf
  <1>3. CASE gen_func_param
    <2>1. PICK r \in UNION {regid, {arg_regs[k] : k \in 1..6}} :
                 Emit(<<emit_mov(mk_register(r, "SZ_64"), Slot(cur_offset'))>>)
      <3>1. Top.loc \in 0..Len(Top.node.func_t.params) - 1 /\ Running("AST_FUNC_DECL")
        BY <1>3 DEF gen_func_param
      <3>2. Top.loc + 1 \in Int /\ Top.loc + 1 >= 1
        BY <3>1, <1>0, RunningTop DEF WellFormed
      <3>3. \E reg \in IF Top.loc + 1 <= 6 THEN {arg_regs[Top.loc + 1]} ELSE regid :
              Emit(<<emit_mov(mk_register(reg, "SZ_64"), Slot(cur_offset'))>>)
        BY <1>1, <1>3 DEF gen_func_param
      <3> QED
        BY <3>2, <3>3
    <2>2. r \in regid
      BY DEF arg_regs, regid
    <2>3. mk_register(r, "SZ_64") \in Operand /\ Slot(cur_offset') \in Operand
      BY <1>0, <2>2, OperandsTyped DEF regsize
    <2>4. emit_mov(mk_register(r, "SZ_64"), Slot(cur_offset')) \in LineType
      BY <2>3, EmitsTyped
    <2>5. <<emit_mov(mk_register(r, "SZ_64"), Slot(cur_offset'))>> \in Seq(LineType)
      BY <2>4, LinesTyped
    <2> QED
      BY <2>1, <2>5, OutputOf
  <1>4. CASE gen_func_stmt
    BY <1>1, <1>4 DEF gen_func_stmt
  <1>5. CASE gen_func_return
    <2>1. Emit(Epilogue(epilogue_label))
      BY <1>5 DEF gen_func_return
    <2>2. epilogue_label \in Int
      BY <1>0 DEF ScopeInv, NoLabel
    <2>3. Epilogue(epilogue_label) \in Seq(LineType)
      BY <2>2, EpilogueTyped
    <2> QED
      BY <2>1, <2>3, OutputOf
  <1> QED
    BY <1>2, <1>3, <1>4, <1>5 DEF gen_func_decl

LEMMA program_output ==
  ASSUME Inv, out \in Seq(LineType), gen_program
  PROVE  out' \in Seq(LineType)
  <1>0. IInv
    BY DEF Inv
  <1>1. CASE StartData \/ StartText
    <2>1. PICK x \in {".data", ".text"} : Emit(<<Directive(x, NoOperand)>>)
      BY <1>1 DEF StartData, StartText
    <2>2. Directive(x, NoOperand) \in LineType
      BY OperandsTyped, FixedLinesTyped DEF Opcode
    <2>3. <<Directive(x, NoOperand)>> \in Seq(LineType)
      BY <2>2, LinesTyped
    <2> QED
      BY <2>1, <2>3, OutputOf
  <1>2. CASE DataStep
    <2> DEFINE n == program[i]
               x == n.ident.name
               size == directive_of(type_size(n.var_t))
               val == IF n.assign.type = "AST_LITERAL" THEN n.assign.num_value ELSE 0
    <2>1. /\ i \in 1..Len(program) /\ program \in Programs /\ n.type = "AST_VAR_DECL"
          /\ Emit(<<Label(mk_label(x)), Directive(size, mk_immutable(val))>>)
      BY <1>0, <1>2 DEF DataStep, gen_global, IInv, WalkInv, IsGlobal
    <2>2. n \in Node
      BY <2>1, ProgramsAssumption
    <2>3. x \in Name
      BY <2>1, <2>2, ProgramsAssumption DEF WellFormed, Idents
    <2>4. val \in Int
      <3>1. CASE n.assign.type = "AST_LITERAL"
        <4>1. n.assign # Null
          BY <3>1 DEF Null
        <4>2. Subs(n) = <<n.assign>>
          BY <2>1, <4>1 DEF Subs
        <4>3. <<n.assign>> \in Seq(Node)
          BY <2>2, <4>2, SubsTyped
        <4>4. n.assign \in Node
          BY <4>3
        <4> QED
          BY <3>1, <4>4, ProgramsAssumption DEF WellFormed
      <3> QED
        BY <3>1
    <2>5. size \in Opcode
      <3>1. type_size(n.var_t) \in {1, 2, 4, 8}
        BY DEF type_size
      <3> QED
        BY <3>1 DEF directive_of, Opcode
    <2> HIDE DEF x, size, val
    <2>6. mk_label(x) \in Operand /\ mk_immutable(val) \in Operand
      BY <2>3, <2>4, OperandsTyped
    <2>7. Label(mk_label(x)) \in LineType /\ Directive(size, mk_immutable(val)) \in LineType
      BY <2>5, <2>6, EmitsTyped, FixedLinesTyped
    <2>8. <<Label(mk_label(x)), Directive(size, mk_immutable(val))>> \in Seq(LineType)
      BY <2>7, LinesTyped
    <2> QED
      BY <2>1, <2>8, OutputOf
  <1>3. CASE DataSkip \/ TextStep \/ FinishProgram
    BY <1>3, NoOutput DEF DataSkip, TextStep, FinishProgram
  <1> QED
    BY <1>1, <1>2, <1>3 DEF gen_program

-----------------------------------------------------------------------------
TypeInv == Inv /\ out \in Seq(LineType)

LEMMA TypesKept ==
  ASSUME TypeInv, [Next]_vars
  PROVE  TypeInv'
  <1>1. Inv /\ Inv' /\ out \in Seq(LineType)
    BY Inductive DEF TypeInv
  <1>2. cur_offset' \in Int
    BY <1>1 DEF Inv, ScopeInv
  <1>3. CASE UNCHANGED vars
    BY <1>1, <1>3, NoOutput DEF vars, TypeInv
  <1>4. CASE Next
    <2>1. out' \in Seq(LineType)
      BY <1>1, <1>2, <1>4, NoOutput, expr_output, stmt_output, func_output, program_output
      DEF Next, Generate, Terminated, vars
    <2> QED
      BY <1>1, <2>1 DEF TypeInv
  <1> QED
    BY <1>3, <1>4

LEMMA TypesHold == Spec => []TypeInv
  <1>1. Init => TypeInv
    <2>1. Init => out = <<>>
      BY DEF Init
    <2> QED
      BY <2>1, Initially, LinesTyped DEF TypeInv
  <1>2. TypeInv /\ [Next]_vars => TypeInv'
    BY TypesKept
  <1> QED
    BY <1>1, <1>2, PTL DEF Spec

(***************************************************************************)
(* The type invariant, for every program: in particular push_depth, an     *)
(* unsigned int, is never decremented below 0, and pop_scope always finds  *)
(* a scope.                                                                *)
(***************************************************************************)
THEOREM TypeCorrect == Spec => []TypeOK
  <1>1. TypeInv => TypeOK
    BY DEF TypeInv, Inv, IInv, ScopeInv, WalkInv, FramesInv, DepthInv, frame_t, TypeOK
  <1> QED
    BY <1>1, TypesHold, PTL

=============================================================================
