------------------------------ MODULE Emitter ------------------------------
(***************************************************************************)
(* The emitter (emitter.c): operands and the lines of AT&T assembly made   *)
(* from them.  A line is a record, not text: an opcode, the operand size   *)
(* its mnemonic carries, a source and a destination.  The code generator   *)
(* also prints lines itself (asm_emit, asm_raw); those are the same        *)
(* records, built with Line, Label and Directive.                          *)
(***************************************************************************)
EXTENDS Integers

regid == {"REG_RAX", "REG_RBX", "REG_RCX", "REG_RDX", "REG_RSI", "REG_RDI",
          "REG_RBP", "REG_RSP", "REG_R8", "REG_R9", "REG_R10", "REG_R11",
          "REG_R12", "REG_R13", "REG_R14", "REG_R15"}

regsize == {"SZ_8", "SZ_16", "SZ_32", "SZ_64"}

\* `OP_RIP` is the name(%rip) form, which only asm_emit prints; a label is
\* either a name or, for .L<n>, the number n with no name.
operandkind == {"OP_NONE", "OP_REG", "OP_IMM", "OP_MEM", "OP_LABEL", "OP_RIP"}

NoName == "no name"
NoOperand ==
  [kind |-> "OP_NONE", id |-> "REG_RAX", size |-> "SZ_64", num |-> 0, name |-> NoName]

mk_register(id, size) == [NoOperand EXCEPT !.kind = "OP_REG", !.id = id, !.size = size]
mk_immutable(imm) == [NoOperand EXCEPT !.kind = "OP_IMM", !.num = imm]
mk_mem(id, size, disp) ==
  [NoOperand EXCEPT !.kind = "OP_MEM", !.id = id, !.size = size, !.num = disp]
mk_label(name) == [NoOperand EXCEPT !.kind = "OP_LABEL", !.name = name]
mk_local_label(n) == [NoOperand EXCEPT !.kind = "OP_LABEL", !.num = n]
mk_rip(name) == [NoOperand EXCEPT !.kind = "OP_RIP", !.name = name]

\* The size the mnemonic's suffix names: the destination's, or the source's.
get_reg_size(src, dst) ==
  IF dst.kind \in {"OP_REG", "OP_MEM"} THEN dst.size
  ELSE IF src.kind \in {"OP_REG", "OP_MEM"} THEN src.size
  ELSE "SZ_64"

-----------------------------------------------------------------------------
(* Lines *)

Line(op, size, src, dst) == [op |-> op, size |-> size, src |-> src, dst |-> dst]

Label(l) == Line("label", "SZ_64", NoOperand, l)
Directive(op, operand) == Line(op, "SZ_64", operand, NoOperand)

emit_mov(src, dst)  == Line("mov", get_reg_size(src, dst), src, dst)
emit_push(operand)  == Line("push", get_reg_size(operand, NoOperand), operand, NoOperand)
emit_pop(operand)   == Line("pop", get_reg_size(operand, NoOperand), NoOperand, operand)
emit_add(src, dst)  == Line("add", get_reg_size(src, dst), src, dst)
emit_sub(src, dst)  == Line("sub", get_reg_size(src, dst), src, dst)
emit_imul(src, dst) == Line("imul", get_reg_size(src, dst), src, dst)
emit_idiv(divisor)  == Line("idiv", get_reg_size(divisor, NoOperand), divisor, NoOperand)
emit_cmp(src, dst)  == Line("cmp", get_reg_size(src, dst), src, dst)
emit_call(label)    == Line("call", "SZ_64", label, NoOperand)

\* The registers and the 64-bit lines the code generator prints as text.
RAX == mk_register("REG_RAX", "SZ_64")
RCX == mk_register("REG_RCX", "SZ_64")
RBP == mk_register("REG_RBP", "SZ_64")
RSP == mk_register("REG_RSP", "SZ_64")
AL  == mk_register("REG_RAX", "SZ_8")

jmp(n)   == Line("jmp", "SZ_64", mk_local_label(n), NoOperand)
je(n)    == Line("je", "SZ_64", mk_local_label(n), NoOperand)
leaq(src)  == Line("lea", "SZ_64", src, RAX)
negq       == Line("neg", "SZ_64", NoOperand, RAX)
setcc(op)  == Line(op, "SZ_8", NoOperand, AL)
movzbq     == Line("movzb", "SZ_64", AL, RAX)
cqto       == Line("cqto", "SZ_64", NoOperand, NoOperand)
ret        == Line("ret", "SZ_64", NoOperand, NoOperand)
=============================================================================
