------------------------- MODULE CodegenProperties -------------------------
(***************************************************************************)
(* What the code generator has to get right, on every program of the       *)
(* constant Programs and at every step of the walk.                        *)
(***************************************************************************)
EXTENDS Codegen

Operand ==
  [kind : operandkind, id : regid, size : regsize, num : Int, name : Name \cup {NoName}]
Opcode ==
  {"mov", "push", "pop", "add", "sub", "imul", "idiv", "cmp", "call", "ret", "jmp", "je",
   "lea", "neg", "movzb", "cqto", "setl", "setg", "sete", "setne", "setge", "setle",
   "label", ".globl", ".data", ".text", ".byte", ".word", ".long", ".quad"}
LineType == [op : Opcode, size : regsize, src : Operand, dst : Operand]
ScopeType == [symbols : [Name -> symbol_t], base_offset : Int]

(***************************************************************************)
(* Type invariant.  push_depth is `unsigned int` in asm_ctx: that it never *)
(* leaves Nat says it is never decremented below 0.                        *)
(***************************************************************************)
TypeOK ==
  /\ program \in Programs
  /\ phase \in {"start", "data", "text", "done", "error"}
  /\ i \in Nat
  /\ frames \in Seq([node : Node, at : Nat, base : Nat, loc : Int])
  /\ scope_stk \in Seq(ScopeType)
  /\ cur_offset \in Int
  /\ label_count \in Nat
  /\ push_depth \in Nat
  /\ epilogue_label \in Nat \cup {NoLabel}
  /\ out \in Seq(LineType)
  /\ rsp \in Int
  /\ call_rsp \subseteq Int

-----------------------------------------------------------------------------
(* The stack *)

(***************************************************************************)
(* The System V ABI: %rsp is a multiple of 16 at every call, so it is 8    *)
(* short of one when a function is entered.  gen_call's `pad`, the counter *)
(* push_depth and the rounding of compute_frame_size achieve it together,  *)
(* for calls nested in operators, arguments and other calls to any depth.  *)
(***************************************************************************)
CallAligned == \A r \in call_rsp : (r + 8) % 16 = 0

\* A function's prologue has been emitted and its epilogue has not.
InBody == frames # <<>> /\ frames[1].loc # Fresh
FrameSize == compute_frame_size(frames[1].node)

(***************************************************************************)
(* The counter push_depth tells the truth about the emitted code: at every *)
(* point of a function body the lines emitted so far have moved %rsp past  *)
(* the saved %rbp, the frame and exactly push_depth words.                 *)
(***************************************************************************)
DepthMatchesStack == InBody => rsp = 8 + FrameSize + 8 * push_depth

\* %rsp before each emitted line, in straight-line order.
StackBefore ==
  LET before[k \in 1..Len(out)] == IF k = 1 THEN 0 ELSE StackAfter(before[k-1], out[k-1])
  IN before

IsLabel(k, n) == out[k].op = "label" /\ out[k].dst = mk_local_label(n)
IsLocalLabel(k) == out[k].op = "label" /\ out[k].dst.name = NoName
IsJump(k) == out[k].op \in {"jmp", "je"}
Target(k) == out[k].src.num

(***************************************************************************)
(* Straight-line bookkeeping is sound although code jumps: wherever a jump *)
(* and its label are both emitted, %rsp is the same at both, so the stack  *)
(* at a label does not depend on how it was reached (gen_if, gen_return).  *)
(***************************************************************************)
JumpsKeepStack ==
  Halted => LET before == StackBefore
            IN \A k, l \in DOMAIN out :
                 IsJump(k) /\ IsLabel(l, Target(k)) => before[k] = before[l]

-----------------------------------------------------------------------------
(* Labels *)

\* The position of the .globl that opens the function line k belongs to.
FunctionOf(k) == Max({0} \cup {j \in 1..k : out[j].op = ".globl"})

(***************************************************************************)
(* label_count is shared by all functions and never reset: in a generated  *)
(* program no label is defined twice, and every jump goes to a label that  *)
(* is defined, in the same function, and further on (the language has no   *)
(* loop, so generated functions can only recurse).                         *)
(***************************************************************************)
LabelsResolve ==
  phase = "done" =>
    /\ \A k, l \in DOMAIN out :
         IsLocalLabel(k) /\ IsLocalLabel(l) /\ out[k].dst = out[l].dst => k = l
    /\ \A k \in DOMAIN out :
         IsJump(k) => \E l \in DOMAIN out : /\ IsLabel(l, Target(k))
                                            /\ FunctionOf(l) = FunctionOf(k)
                                            /\ l > k

-----------------------------------------------------------------------------
(* Scopes and slots *)

\* The names declared by the first k of the nodes below n, in order.
LetsOf(n) ==
  LET names[k \in 0..Len(Subs(n))] ==
        IF k = 0 THEN <<>>
        ELSE IF Subs(n)[k].type = "AST_VAR_DECL" THEN Append(names[k - 1], Subs(n)[k].ident.name)
        ELSE names[k - 1]
  IN names

\* The names the frame at depth f has declared so far, in order: the stored
\* parameters of a function, then the declarations among the nodes reached.
\* A declaration counts from the moment its own frame has defined the local.
DeclaredBy(f) ==
  LET fr == frames[f]
      stored == IF fr.node.type = "AST_FUNC_DECL" /\ fr.loc # Fresh THEN fr.loc ELSE 0
      params == [k \in 1..stored |-> fr.node.func_t.params[k].ident.name]
      Undefined == /\ f < Len(frames)
                   /\ frames[f + 1].node.type = "AST_VAR_DECL"
                   /\ frames[f + 1].at = 0
  IN IF fr.node.type \in {"AST_FUNC_DECL", "AST_BLOCK"}
     THEN params \o LetsOf(fr.node)[IF Undefined THEN fr.at - 1 ELSE fr.at]
     ELSE <<>>

\* The locals in scope, outermost first.
Live ==
  LET live[k \in 0..Len(frames)] == IF k = 0 THEN <<>> ELSE live[k - 1] \o DeclaredBy(k)
  IN live[Len(frames)]

Globals == {program[k].ident.name : k \in {j \in DOMAIN program : IsGlobal(j)}}

(***************************************************************************)
(* Lexical scoping: a name means the innermost live declaration of it, and *)
(* the k-th live declaration owns the k-th slot below %rbp, so no two live *)
(* locals share one although sibling blocks reuse slots.  A name with no   *)
(* live declaration is the global of that name or unknown.  (push_scope,   *)
(* pop_scope, define_local and find_symbol, with params and body in one    *)
(* scope.)                                                                 *)
(***************************************************************************)
LexicalScoping ==
  InBody /\ ~Halted =>
    LET live == Live
    IN /\ cur_offset = -8 * Len(live)
       /\ \A x \in Name :
            LET decls == {k \in DOMAIN live : live[k] = x}
            IN find_symbol(x) =
                 IF decls # {} THEN [kind |-> "local", off |-> -8 * Max(decls)]
                 ELSE IF x \in Globals THEN [kind |-> "global", off |-> 0]
                 ELSE NoSymbol

(***************************************************************************)
(* The frame is big enough: every slot used lies between the saved %rbp    *)
(* and the first pushed value.  compute_frame_size counts declarations     *)
(* before the walk, cur_offset moves with it.                              *)
(***************************************************************************)
LocalsInFrame == InBody => cur_offset \in -FrameSize..0

\* Every scope entered is left: between functions only the global scope and
\* no frame, no pending push and no epilogue label remain.
Balanced ==
  phase = "text" /\ frames = <<>> =>
    /\ Len(scope_stk) = 1
    /\ push_depth = 0
    /\ rsp = 0
    /\ epilogue_label = NoLabel

-----------------------------------------------------------------------------
(***************************************************************************)
(* The generator always stops, with the whole program generated or with an *)
(* error: every recursive call is on a smaller node.                       *)
(***************************************************************************)
Termination == <>Halted
=============================================================================
