------------------------------ MODULE Codegen ------------------------------
(***************************************************************************)
(* The code generator (assembler.c): a recursive walk over the AST that    *)
(* emits x86-64 assembly for a stack machine.  Every expression leaves its *)
(* value in %rax; a binary operator and a call push intermediate values.   *)
(*                                                                         *)
(* The walk is a state machine.  `frames` is the C call stack of the gen_* *)
(* functions, `Top` its youngest frame, and each action is what one gen_*  *)
(* function does from one recursive call to the next.  A frame records     *)
(*   node  the function's argument                                         *)
(*   at    how many of the node's sub-nodes (Subs) it has called gen_* on  *)
(*   base  push_depth when it was entered                                  *)
(*   loc   the local variable it keeps across the calls, or Fresh          *)
(* The dispatch of gen_stmt and gen_expr is the type of Top.node.          *)
(***************************************************************************)
EXTENDS Trees, Emitter, SequencesExt

CONSTANTS
  Programs,        \* the programs to compile: sequences of top-level nodes
  LocalsSum(_, _)  \* LocalsSum(b, k): `sum` of count_locals(b) after k iterations

VARIABLES
  program,        \* the nodes of the AST_PROGRAM node
  phase,          \* where gen_program is; "error" is exit(1)
  i,              \* the index of gen_program's loop
  frames,         \* the gen_* calls in progress
  scope_stk,      \* ctx->scope_stk, the innermost scope last
  cur_offset,     \* ctx->cur_offset
  label_count,    \* ctx->label_count
  push_depth,     \* ctx->push_depth
  epilogue_label, \* ctx->epilogue_label, a label number or NoLabel
  out,            \* the lines emitted so far
  rsp,            \* history: bytes those lines, run in order, leave on the
                  \* stack below the return address of the current function
  call_rsp        \* history: the values of rsp at the calls emitted so far

walkVars == <<program, phase, i>>
scopeVars == <<scope_stk, cur_offset>>
labelVars == <<label_count, epilogue_label>>
outVars == <<out, rsp, call_rsp>>
vars == <<walkVars, frames, scopeVars, labelVars, push_depth, outVars>>

-----------------------------------------------------------------------------
(***************************************************************************)
(* What count_locals adds up, by the sums of its loop over each block.     *)
(* The branches of an if are blocks (parse_if_stmt).                       *)
(***************************************************************************)
BlockLocals(b) == IF b = Null THEN 0 ELSE LocalsSum(b, Len(b.nodes))

count_locals(n) ==
  CASE n.type = "AST_BLOCK"    -> BlockLocals(n)
    [] n.type = "AST_VAR_DECL" -> 8
    [] n.type = "AST_IF"       -> BlockLocals(n.then_branch) + BlockLocals(n.else_branch)
    [] OTHER                   -> 0

\* Mutants: the parameters are forgotten; the size is not rounded up.
frame_size_no_params(func_decl) ==
  LET size == count_locals(func_decl.block)
  IN IF size % 16 # 0 THEN size + (16 - (size % 16)) ELSE size
frame_size_unrounded(func_decl) ==
  count_locals(func_decl.block) + 8 * Len(func_decl.func_t.params)

compute_frame_size(func_decl) ==
  LET size == count_locals(func_decl.block) + 8 * Len(func_decl.func_t.params)
  IN IF size % 16 # 0 THEN size + (16 - (size % 16)) ELSE size

type_size(t) ==
  IF t.is_adr THEN 8
  ELSE CASE t.lit = "LIT_BYTE"  -> 1
         [] t.lit = "LIT_WORD"  -> 2
         [] t.lit = "LIT_DWORD" -> 4
         [] OTHER               -> 8

\* The constants describe trees of the parser's shape.
ASSUME ProgramsAssumption ==
  /\ NoName \notin Name
  /\ \A n \in Node : WellFormed(n)
  /\ Programs \subseteq Seq(Node)
  /\ \A p \in Programs : \A k \in DOMAIN p : p[k].type \in top_t

ASSUME LocalsSumAssumption ==
  \A b \in Node : b.type = "AST_BLOCK" =>
    /\ LocalsSum(b, 0) = 0
    /\ \A k \in 1..Len(b.nodes) :
         LocalsSum(b, k) = LocalsSum(b, k - 1) + count_locals(b.nodes[k])
    /\ \A k \in 0..Len(b.nodes) : LocalsSum(b, k) \in Nat

-----------------------------------------------------------------------------
(* The C call stack *)

Fresh == -1
Frame(node, base) == [node |-> node, at |-> 0, base |-> base, loc |-> Fresh]

Top == Last(frames)
Running(t) == phase = "text" /\ frames # <<>> /\ Top.node.type = t
Finished == Top.at = Len(Subs(Top.node))

\* The next recursive call, at push_depth `depth`; `loc` is kept meanwhile.
Descend(loc, depth) ==
  /\ Top.at < Len(Subs(Top.node))
  /\ frames' = Append([frames EXCEPT ![Len(frames)].at = @ + 1, ![Len(frames)].loc = loc],
                      Frame(Subs(Top.node)[Top.at + 1], depth))

SetLoc(loc) == frames' = [frames EXCEPT ![Len(frames)].loc = loc]

Return == frames' = Front(frames)

std_compile_error ==
  /\ phase' = "error"
  /\ UNCHANGED <<program, i, frames, scopeVars, labelVars, push_depth, outVars>>

-----------------------------------------------------------------------------
(* Emitting lines *)

\* The stack after one line, in bytes below the function's return address.
\* A function's own label starts from nothing; the epilogue's mov discards
\* everything above the saved %rbp.
StackAfter(r, line) ==
  CASE line.op = "push"                          -> r + 8
    [] line.op = "pop"                           -> r - 8
    [] line.op = "sub" /\ line.dst = RSP         -> r + line.src.num
    [] line.op = "add" /\ line.dst = RSP         -> r - line.src.num
    [] line.op = "mov" /\ line.dst = RSP         -> 8
    [] line.op = "label" /\ line.dst.name \in Name -> 0
    [] OTHER                                     -> r

\* No action emits more than five lines.
StackAfterAll(r, lines) ==
  LET Next1(s, k) == IF k <= Len(lines) THEN StackAfter(s, lines[k]) ELSE s
  IN Next1(Next1(Next1(Next1(Next1(r, 1), 2), 3), 4), 5)

Emit(lines) ==
  /\ out' = out \o lines
  /\ rsp' = StackAfterAll(rsp, lines)
  /\ UNCHANGED call_rsp

push_rax == emit_push(RAX)
pop_into(id) == emit_pop(mk_register(id, "SZ_64"))
load_imm(val) == emit_mov(mk_immutable(val), RAX)
Slot(offset) == mk_mem("REG_RBP", "SZ_64", offset)
load_local(offset) == emit_mov(Slot(offset), RAX)
store_local(offset) == emit_mov(RAX, Slot(offset))

-----------------------------------------------------------------------------
(* Scopes.  A hash table of symbols is the function it implements. *)

NoSymbol == [kind |-> "none", off |-> 0]
symbol_t == [kind : {"none", "local", "global"}, off : Int]
Scope(base) == [symbols |-> [x \in Name |-> NoSymbol], base_offset |-> base]

push_scope == scope_stk' = Append(scope_stk, Scope(cur_offset))

\* Mutant: the scope stays on the stack.
pop_scope_peeks ==
  /\ cur_offset' = Last(scope_stk).base_offset
  /\ UNCHANGED scope_stk

pop_scope ==
  /\ cur_offset' = Last(scope_stk).base_offset
  /\ scope_stk' = Front(scope_stk)

\* Mutant: the search starts at the outermost scope.
find_symbol_outermost(name) ==
  LET having == {k \in DOMAIN scope_stk : scope_stk[k].symbols[name] # NoSymbol}
  IN IF having = {} THEN NoSymbol ELSE scope_stk[Min(having)].symbols[name]

find_symbol(name) ==
  LET having == {k \in DOMAIN scope_stk : scope_stk[k].symbols[name] # NoSymbol}
  IN IF having = {} THEN NoSymbol ELSE scope_stk[Max(having)].symbols[name]

\* add_ht into the innermost table: a second declaration overwrites the first.
Define(name, sym) == scope_stk' = [scope_stk EXCEPT ![Len(scope_stk)].symbols[name] = sym]

\* type_size is at most 8 and a slot is never smaller, so every slot has 8 bytes.
define_local(name) ==
  /\ cur_offset' = cur_offset - 8
  /\ Define(name, [kind |-> "local", off |-> cur_offset'])

define_global(name) ==
  /\ Define(name, [kind |-> "global", off |-> 0])
  /\ UNCHANGED cur_offset

\* The operand through which a found symbol is read or written.
Place(name) ==
  LET sym == find_symbol(name)
  IN IF sym.kind = "global" THEN mk_rip(name) ELSE Slot(sym.off)

\* `n` fresh labels, from label_count on.  Mutant: the counter stays.
new_label_stuck(n) == UNCHANGED label_count
new_label(n) == label_count' = label_count + n

-----------------------------------------------------------------------------
(* Expressions *)

gen_literal ==
  /\ Running("AST_LITERAL")
  /\ Emit(<<load_imm(Top.node.num_value)>>)
  /\ Return
  /\ UNCHANGED <<walkVars, scopeVars, labelVars, push_depth>>

gen_identifier ==
  /\ Running("AST_IDENTIFIER")
  /\ \/ /\ find_symbol(Top.node.name) = NoSymbol
        /\ std_compile_error
     \/ /\ find_symbol(Top.node.name) # NoSymbol
        /\ Emit(<<emit_mov(Place(Top.node.name), RAX)>>)
        /\ Return
        /\ UNCHANGED <<walkVars, scopeVars, labelVars, push_depth>>

\* &x
gen_address ==
  /\ Running("AST_UNARY")
  /\ Top.node.op = "U_ADDR"
  /\ LET e == Top.node.expr
         Known == e.type = "AST_IDENTIFIER" /\ find_symbol(e.name) # NoSymbol
     IN \/ /\ ~Known
           /\ std_compile_error
        \/ /\ Known
           /\ Emit(<<leaq(Place(e.name))>>)
           /\ Return
           /\ UNCHANGED <<walkVars, scopeVars, labelVars, push_depth>>

UnaryLines(op) ==
  CASE op = "U_NEG" -> <<negq>>
    [] op = "U_NOT" -> <<emit_cmp(mk_immutable(0), RAX), setcc("sete"), movzbq>>
    [] op = "U_POS" -> <<>>

gen_unary ==
  /\ Running("AST_UNARY")
  /\ Top.node.op # "U_ADDR"
  /\ \/ /\ ~Finished
        /\ Descend(Fresh, push_depth)
        /\ UNCHANGED <<walkVars, scopeVars, labelVars, push_depth, outVars>>
     \/ /\ Finished
        /\ Top.node.op \in {"U_PLUS_PLUS", "U_MINUS_MINUS"}
        /\ std_compile_error
     \/ /\ Finished
        /\ Top.node.op \in {"U_NEG", "U_NOT", "U_POS"}
        /\ Emit(UnaryLines(Top.node.op))
        /\ Return
        /\ UNCHANGED <<walkVars, scopeVars, labelVars, push_depth>>

setcc_of(op) ==
  CASE op = "B_LESS"        -> "setl"
    [] op = "B_GREATER"     -> "setg"
    [] op = "B_EQUAL_EQUAL" -> "sete"
    [] op = "B_NOT_EQUAL"   -> "setne"
    [] op = "B_GEQ"         -> "setge"
    [] op = "B_LEQ"         -> "setle"

\* Mutant: %rdx is not set before the division.
BinaryLines_no_cqto(op) ==
  CASE op = "B_ADD" -> <<emit_add(RCX, RAX)>>
    [] op = "B_SUB" -> <<emit_sub(RCX, RAX)>>
    [] op = "B_MUL" -> <<emit_imul(RCX, RAX)>>
    [] op = "B_DIV" -> <<emit_idiv(RCX)>>
    [] OTHER        -> <<emit_cmp(RCX, RAX), setcc(setcc_of(op)), movzbq>>

\* The left operand is in %rax, the right one in %rcx.
BinaryLines(op) ==
  CASE op = "B_ADD" -> <<emit_add(RCX, RAX)>>
    [] op = "B_SUB" -> <<emit_sub(RCX, RAX)>>
    [] op = "B_MUL" -> <<emit_imul(RCX, RAX)>>
    [] op = "B_DIV" -> <<cqto, emit_idiv(RCX)>>
    [] OTHER        -> <<emit_cmp(RCX, RAX), setcc(setcc_of(op)), movzbq>>

gen_binary ==
  /\ Running("AST_BINARY")
  /\ UNCHANGED <<walkVars, scopeVars, labelVars>>
  /\ \/ /\ Top.at = 0
        /\ UNCHANGED <<push_depth, outVars>>
        /\ Descend(Fresh, push_depth)
     \/ /\ Top.at = 1
        /\ Emit(<<push_rax>>)
        /\ push_depth' = push_depth + 1
        /\ Descend(Fresh, push_depth + 1)
     \/ /\ Finished
        /\ Emit(<<emit_mov(RAX, RCX), pop_into("REG_RAX")>> \o BinaryLines(Top.node.op))
        /\ push_depth' = push_depth - 1
        /\ Return

arg_regs == <<"REG_RDI", "REG_RSI", "REG_RDX", "REG_RCX", "REG_R8", "REG_R9">>

\* The C flag `pad`: the call is made at an odd depth.  Mutant: never.
NoPad(frame) == 0
Pad(frame) == frame.base % 2

PadLines(frame) == IF Pad(frame) = 1 THEN <<emit_sub(mk_immutable(8), RSP)>> ELSE <<>>

\* What the end of gen_call gives back.  Mutants: it does so unasked, which
\* takes the counter below 0; only the counter is adjusted.
AlwaysUnpad(frame) == 1
Unpad(frame) == Pad(frame)
NoUnpadLines(frame) == <<>>
UnpadLines(frame) == IF Unpad(frame) = 1 THEN <<emit_add(mk_immutable(8), RSP)>> ELSE <<>>

(***************************************************************************)
(* gen_call: pad, evaluate and push every argument, pop them all into the  *)
(* argument registers, call, unpad.  `loc` counts the values pushed and    *)
(* not yet popped; `at` goes one past the last argument when popping starts.*)
(***************************************************************************)
gen_call_enter ==
  /\ Running("AST_CALL")
  /\ Top.loc = Fresh
  /\ \/ /\ Len(Top.node.args) > 6
        /\ std_compile_error
     \/ /\ Len(Top.node.args) <= 6
        /\ Emit(PadLines(Top))
        /\ push_depth' = push_depth + Pad(Top)
        /\ SetLoc(0)
        /\ UNCHANGED <<walkVars, scopeVars, labelVars>>

gen_call_arg ==
  /\ Running("AST_CALL")
  /\ UNCHANGED <<walkVars, scopeVars, labelVars>>
  /\ \/ /\ Top.loc = Top.at
        /\ UNCHANGED <<push_depth, outVars>>
        /\ Descend(Top.loc, push_depth)
     \/ /\ Top.loc # Fresh
        /\ Top.loc = Top.at - 1
        /\ Top.at <= Len(Top.node.args)
        /\ Emit(<<push_rax>>)
        /\ push_depth' = push_depth + 1
        /\ SetLoc(Top.loc + 1)

AllPushed == Top.at >= Len(Top.node.args) /\ (Top.at = Top.loc \/ Top.at > Len(Top.node.args))

gen_call_pop ==
  /\ Running("AST_CALL")
  /\ AllPushed
  /\ Top.loc > 0
  /\ Emit(<<pop_into(arg_regs[Top.loc])>>)
  /\ push_depth' = push_depth - 1
  /\ frames' = [frames EXCEPT ![Len(frames)].at = Len(Top.node.args) + 1,
                              ![Len(frames)].loc = @ - 1]
  /\ UNCHANGED <<walkVars, scopeVars, labelVars>>

gen_call_return ==
  /\ Running("AST_CALL")
  /\ AllPushed
  /\ Top.loc = 0
  /\ LET lines == <<emit_call(mk_label(Top.node.callee.name))>> \o UnpadLines(Top)
     IN /\ out' = out \o lines
        /\ rsp' = StackAfterAll(rsp, lines)
        /\ call_rsp' = call_rsp \cup {rsp}
  /\ push_depth' = push_depth - Unpad(Top)
  /\ Return
  /\ UNCHANGED <<walkVars, scopeVars, labelVars>>

gen_assign ==
  /\ Running("AST_ASSIGN")
  /\ LET target == Top.node.target
         Named == target.type = "AST_IDENTIFIER"
         Known == find_symbol(target.name) # NoSymbol
     IN \/ /\ ~Named
           /\ std_compile_error
        \/ /\ Named
           /\ Top.at = 0
           /\ UNCHANGED <<walkVars, scopeVars, labelVars, push_depth, outVars>>
           /\ Descend(Fresh, push_depth)
        \/ /\ Named
           /\ Finished
           /\ ~Known
           /\ std_compile_error
        \/ /\ Named
           /\ Finished
           /\ Known
           /\ Emit(<<emit_mov(RAX, Place(target.name))>>)
           /\ Return
           /\ UNCHANGED <<walkVars, scopeVars, labelVars, push_depth>>

\* A cast generates its operand and nothing of its own.
gen_cast ==
  /\ Running("AST_CAST")
  /\ UNCHANGED <<walkVars, scopeVars, labelVars, push_depth, outVars>>
  /\ IF Finished THEN Return ELSE Descend(Fresh, push_depth)

\* The expressions no gen_* function handles.
gen_unsupported ==
  /\ Running("AST_INDEX")
  /\ std_compile_error

gen_expr ==
  \/ gen_literal \/ gen_identifier \/ gen_address \/ gen_unary \/ gen_binary
  \/ gen_call_enter \/ gen_call_arg \/ gen_call_pop \/ gen_call_return
  \/ gen_assign \/ gen_cast \/ gen_unsupported

-----------------------------------------------------------------------------
(* Statements *)

\* `let`: the local is defined before its initial value is generated.
gen_var_decl ==
  /\ Running("AST_VAR_DECL")
  /\ UNCHANGED <<walkVars, labelVars, push_depth>>
  /\ \/ /\ Top.at = 0
        /\ define_local(Top.node.ident.name)
        /\ UNCHANGED outVars
        /\ IF Top.node.assign = Null THEN Return ELSE Descend(cur_offset', push_depth)
     \/ /\ Top.at = 1
        /\ Emit(<<store_local(Top.loc)>>)
        /\ Return
        /\ UNCHANGED scopeVars

gen_return ==
  /\ Running("AST_RETURN")
  /\ UNCHANGED <<walkVars, scopeVars, labelVars, push_depth>>
  /\ \/ /\ UNCHANGED outVars
        /\ Descend(Fresh, push_depth)
     \/ /\ Finished
        /\ Emit(<<jmp(epilogue_label)>>)
        /\ Return

\* else_lbl is kept in `loc`; end_lbl is the label after it.
gen_if ==
  /\ Running("AST_IF")
  /\ UNCHANGED <<walkVars, scopeVars, epilogue_label, push_depth>>
  /\ LET else_lbl == Label(mk_local_label(Top.loc))
         end_lbl == Label(mk_local_label(Top.loc + 1))
     IN \/ /\ Top.at = 0
           /\ new_label(2)
           /\ UNCHANGED outVars
           /\ Descend(label_count, push_depth)
        \/ /\ Top.at = 1
           /\ Emit(<<emit_cmp(mk_immutable(0), RAX), je(Top.loc)>>)
           /\ Descend(Top.loc, push_depth)
           /\ UNCHANGED label_count
        \/ /\ Top.at = 2
           /\ Top.node.else_branch # Null
           /\ Emit(<<jmp(Top.loc + 1), else_lbl>>)
           /\ Descend(Top.loc, push_depth)
           /\ UNCHANGED label_count
        \/ /\ Top.at = 2
           /\ Top.node.else_branch = Null
           /\ Emit(<<jmp(Top.loc + 1), else_lbl, end_lbl>>)
           /\ Return
           /\ UNCHANGED label_count
        \/ /\ Top.at = 3
           /\ Emit(<<end_lbl>>)
           /\ Return
           /\ UNCHANGED label_count

gen_block ==
  /\ Running("AST_BLOCK")
  /\ UNCHANGED <<walkVars, labelVars, push_depth, outVars>>
  /\ \/ /\ Top.loc = Fresh
        /\ push_scope
        /\ SetLoc(0)
        /\ UNCHANGED cur_offset
     \/ /\ Top.loc = 0
        /\ Descend(0, push_depth)
        /\ UNCHANGED scopeVars
     \/ /\ Top.loc = 0
        /\ Finished
        /\ pop_scope
        /\ Return

gen_comment ==
  /\ Running("AST_COMMENT")
  /\ Return
  /\ UNCHANGED <<walkVars, scopeVars, labelVars, push_depth, outVars>>

gen_stmt == gen_var_decl \/ gen_return \/ gen_if \/ gen_block \/ gen_comment

-----------------------------------------------------------------------------
(* Functions.  `loc` counts the parameters already stored in their slots. *)

NoLabel == -1

Prologue(name, frame) ==
  <<Directive(".globl", name), Label(name), emit_push(RBP), emit_mov(RSP, RBP)>>
  \o (IF frame > 0 THEN <<emit_sub(mk_immutable(frame), RSP)>> ELSE <<>>)

\* Mutant: the frame is not discarded.
Epilogue_no_mov(label) == <<Label(mk_local_label(label)), emit_pop(RBP), ret>>
Epilogue(label) == <<Label(mk_local_label(label)), emit_mov(RBP, RSP), emit_pop(RBP), ret>>

gen_func_enter ==
  /\ Running("AST_FUNC_DECL")
  /\ Top.loc = Fresh
  /\ Emit(Prologue(mk_label(Top.node.func_t.ident.name), compute_frame_size(Top.node)))
  /\ epilogue_label' = label_count
  /\ new_label(1)
  /\ cur_offset' = 0
  /\ push_depth' = 0
  /\ scope_stk' = Append(scope_stk, Scope(0))
  /\ SetLoc(0)
  /\ UNCHANGED walkVars

\* From the seventh parameter on, arg_regs is read past its end: the value
\* may be any register id, or none, and then reg_to_str exits.
gen_func_param ==
  /\ Running("AST_FUNC_DECL")
  /\ Top.loc \in 0..Len(Top.node.func_t.params) - 1
  /\ LET k == Top.loc + 1
     IN \/ /\ define_local(Top.node.func_t.params[k].ident.name)
           /\ \E reg \in IF k <= 6 THEN {arg_regs[k]} ELSE regid :
                Emit(<<emit_mov(mk_register(reg, "SZ_64"), Slot(cur_offset'))>>)
           /\ SetLoc(k)
           /\ UNCHANGED <<walkVars, labelVars, push_depth>>
        \/ /\ k > 6
           /\ std_compile_error

AllParams == Top.loc = Len(Top.node.func_t.params)

gen_func_stmt ==
  /\ Running("AST_FUNC_DECL")
  /\ AllParams
  /\ UNCHANGED <<walkVars, scopeVars, labelVars, push_depth, outVars>>
  /\ Descend(Top.loc, push_depth)

gen_func_return ==
  /\ Running("AST_FUNC_DECL")
  /\ AllParams
  /\ Finished
  /\ Emit(Epilogue(epilogue_label))
  /\ pop_scope
  /\ epilogue_label' = NoLabel
  /\ Return
  /\ UNCHANGED <<walkVars, label_count, push_depth>>

gen_func_decl == gen_func_enter \/ gen_func_param \/ gen_func_stmt \/ gen_func_return

-----------------------------------------------------------------------------
(* The program *)

IsGlobal(k) == program[k].type = "AST_VAR_DECL"
directive_of(sz) == CASE sz = 1 -> ".byte" [] sz = 2 -> ".word" [] sz = 4 -> ".long" [] sz = 8 -> ".quad"

StartData ==
  /\ phase = "start"
  /\ \E k \in DOMAIN program : IsGlobal(k)
  /\ Emit(<<Directive(".data", NoOperand)>>)
  /\ push_scope
  /\ phase' = "data"
  /\ UNCHANGED <<program, i, frames, cur_offset, labelVars, push_depth>>

StartText ==
  /\ \/ /\ phase = "start"
        /\ ~\E k \in DOMAIN program : IsGlobal(k)
        /\ push_scope
     \/ /\ phase = "data"
        /\ i > Len(program)
        /\ UNCHANGED scope_stk
  /\ Emit(<<Directive(".text", NoOperand)>>)
  /\ phase' = "text"
  /\ i' = 1
  /\ UNCHANGED <<program, frames, cur_offset, labelVars, push_depth>>

\* A global that is not initialised by a literal starts as 0.
gen_global(n) ==
  LET val == IF n.assign.type = "AST_LITERAL" THEN n.assign.num_value ELSE 0
  IN /\ define_global(n.ident.name)
     /\ Emit(<<Label(mk_label(n.ident.name)),
               Directive(directive_of(type_size(n.var_t)), mk_immutable(val))>>)

DataStep ==
  /\ phase = "data"
  /\ i <= Len(program)
  /\ IsGlobal(i)
  /\ gen_global(program[i])
  /\ i' = i + 1
  /\ UNCHANGED <<program, phase, frames, labelVars, push_depth>>

\* Mutant: the loop over the globals does not get past a function.
DataSkip_stuck == phase = "data" /\ i <= Len(program) /\ ~IsGlobal(i) /\ UNCHANGED vars

DataSkip ==
  /\ phase = "data"
  /\ i <= Len(program)
  /\ ~IsGlobal(i)
  /\ i' = i + 1
  /\ UNCHANGED <<program, phase, frames, scopeVars, labelVars, push_depth, outVars>>

TextStep ==
  /\ phase = "text"
  /\ frames = <<>>
  /\ i <= Len(program)
  /\ i' = i + 1
  /\ frames' = IF program[i].type = "AST_FUNC_DECL"
               THEN <<Frame(program[i], push_depth)>> ELSE <<>>
  /\ UNCHANGED <<program, phase, scopeVars, labelVars, push_depth, outVars>>

FinishProgram ==
  /\ phase = "text"
  /\ frames = <<>>
  /\ i > Len(program)
  /\ pop_scope
  /\ phase' = "done"
  /\ UNCHANGED <<program, i, frames, labelVars, push_depth, outVars>>

gen_program == StartData \/ DataStep \/ DataSkip \/ StartText \/ TextStep \/ FinishProgram

Halted == phase \in {"done", "error"}

\* asm_init, for any of the programs.
Init ==
  /\ program \in Programs
  /\ phase = "start"
  /\ i = 1
  /\ frames = <<>>
  /\ scope_stk = <<>>
  /\ cur_offset = 0
  /\ label_count = 0
  /\ push_depth = 0
  /\ epilogue_label = NoLabel
  /\ out = <<>>
  /\ rsp = 0
  /\ call_rsp = {}

\* The generator is sequential: it stops when the program is generated or an
\* error is reported.
Terminated == Halted /\ UNCHANGED vars

Generate == gen_program \/ gen_func_decl \/ gen_stmt \/ gen_expr

Next == Generate \/ Terminated

Spec == Init /\ [][Next]_vars
FairSpec == Spec /\ WF_vars(Generate)
=============================================================================
