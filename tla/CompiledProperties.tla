------------------------- MODULE CompiledProperties -------------------------
(***************************************************************************)
(* What the machine of Compiled computes, compared with the meaning that   *)
(* ASemantics gives the program.                                           *)
(***************************************************************************)
EXTENDS Compiled

A == INSTANCE ASemantics

(***************************************************************************)
(* The compiler is correct: the compiled program halts with the value the  *)
(* program means in %rax and the values it means in the globals, and traps *)
(* exactly when a division is undefined.  Stale operands, swapped          *)
(* operands, a clobbered register or slot and a jump to the wrong arm all  *)
(* show up here.                                                           *)
(***************************************************************************)
ResultCorrect ==
  /\ machine.status # "fault"
  /\ machine.status \in {"halted", "trap"} =>
    LET meant == A!Run(program, "main")
    IN /\ meant.st.trap <=> machine.status = "trap"
       /\ machine.status = "halted" =>
            /\ machine.reg["REG_RAX"] = meant.val
            /\ \A g \in Globals : Load(out, machine, mk_rip(g)) = meant.st.globals[g]
=============================================================================
