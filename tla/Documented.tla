----------------------------- MODULE Documented -----------------------------
(***************************************************************************)
(* Statements the repository's documents and messages make about compiled  *)
(* programs and that the code generator does not keep.  Each one is the    *)
(* property of a run that exhibits a program on which it fails.            *)
(***************************************************************************)
EXTENDS CompiledProperties

\* The bytes the declaration of global g reserves, and the value they hold.
DatumOf(g) == out[LineOf(out, mk_label(g)) + 1]
ValueOfBytes(bytes) == FromBytes(bytes \o [k \in 1..8 - Len(bytes) |-> 0])
Reserved(g) == SubSeq(machine.data, Address(out, g) + 1, Address(out, g) + WidthOf(DatumOf(g).op))

(***************************************************************************)
(* README.md: "BYTE --> holds a single byte of information (8 bits)", and  *)
(* wider types more: when a global is read, what is loaded is the value of *)
(* the bytes that its own declaration reserves.  (gen_identifier loads     *)
(* eight bytes.)                                                           *)
(***************************************************************************)
GlobalHoldsItsWidth ==
  IsRunning /\ Current.op = "mov" /\ Current.src.kind = "OP_RIP" =>
    Load(out, machine, Current.src) = ValueOfBytes(Reserved(Current.src.name))

(***************************************************************************)
(* README.md: `let QWORD foo = 1` creates foo "and set it equal to 1": a   *)
(* global starts with the value of its initialiser.  (gen_global takes the *)
(* value of a literal and 0 for every other expression.)                   *)
(***************************************************************************)
GlobalStartsInitialised ==
  machine # Off /\ machine.pc = LineOf(out, mk_label("main")) =>
    \A g \in Globals : Load(out, machine, mk_rip(g)) = A!GlobalsOf(program)[g]

(***************************************************************************)
(* README.md: "BYTE --> holds a single byte of information (8 bits)": what *)
(* a function declared BYTE returns from a BYTE variable is a byte, signed *)
(* or unsigned.  (Locals, casts and returns are all 64 bits wide.)         *)
(***************************************************************************)
ByteHoldsAByte ==
  machine.status = "halted" => machine.reg["REG_RAX"] \in -(Base \div 2)..Base - 1

(***************************************************************************)
(* gen_call: "more than 6 args not supported": a program is compiled only  *)
(* if every parameter is passed in a register, each in its own one.        *)
(* (gen_func_decl does not check, and reads arg_regs past its end.)        *)
(***************************************************************************)
ParamsHaveRegisters ==
  phase = "done" =>
    \A k \in DOMAIN program :
      program[k].type = "AST_FUNC_DECL" => Len(program[k].func_t.params) <= Len(arg_regs)
=============================================================================
