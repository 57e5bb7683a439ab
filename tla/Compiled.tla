------------------------------ MODULE Compiled ------------------------------
(***************************************************************************)
(* The whole back end at work: a program is compiled by Codegen and the    *)
(* emitted lines, if they assemble and link, are then run by the machine   *)
(* of X86, from `main`.                                                    *)
(***************************************************************************)
EXTENDS CodegenProperties, X86

VARIABLES
  machine, \* the machine, or Off before the program is compiled
  active   \* history: pc, %rsp and %rbp to be found after each pending return

allVars == <<vars, machine, active>>

Off == [status |-> "off"]

CompiledInit == Init /\ machine = Off /\ active = <<>>

Compile == Generate /\ UNCHANGED <<machine, active>>

Start ==
  /\ phase = "done"
  /\ machine = Off
  /\ Links(out, "main")
  /\ machine' = Boot(out, "main")
  /\ active' = <<[pc |-> 0, rsp |-> 0, rbp |-> Garbage]>>
  /\ UNCHANGED vars

IsRunning == machine.status = "running"
Current == out[machine.pc]

Run ==
  /\ IsRunning
  /\ machine' = Step(out, machine)
  /\ active' = CASE Current.op = "call" ->
                      Append(active, [pc |-> machine.pc + 1, rsp |-> machine.reg["REG_RSP"],
                                      rbp |-> machine.reg["REG_RBP"]])
                 [] Current.op = "ret"  -> Front(active)
                 [] OTHER               -> active
  /\ UNCHANGED vars

Stopped ==
  \/ machine.status \in {"halted", "trap", "fault"}
  \/ phase = "error"
  \/ phase = "done" /\ machine = Off /\ ~Links(out, "main")

CompiledNext == Compile \/ Start \/ Run \/ (Stopped /\ UNCHANGED allVars)

CompiledSpec == CompiledInit /\ [][CompiledNext]_allVars

-----------------------------------------------------------------------------
\* The machine finds %rsp a multiple of 16 at every call it executes, on
\* whatever path it reached it.
AlignedAtRuntime ==
  IsRunning /\ Current.op = "call" => machine.reg["REG_RSP"] % 16 = 0

(***************************************************************************)
(* A function returns to the line after its call and gives back %rsp and   *)
(* the callee-saved %rbp, however deep in ifs and blocks it returned from. *)
(***************************************************************************)
FramesRestored ==
  [][IsRunning /\ Current.op = "ret" =>
       /\ machine'.pc = Last(active).pc
       /\ machine'.reg["REG_RSP"] = Last(active).rsp
       /\ machine'.reg["REG_RBP"] = Last(active).rbp]_allVars
=============================================================================
