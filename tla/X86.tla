-------------------------------- MODULE X86 --------------------------------
(***************************************************************************)
(* The machine that runs what the code generator emits: the x86-64         *)
(* instructions assembler.c uses, as AT&T syntax orders their operands.    *)
(* It is not code of the repository; it says what each emitted line does.  *)
(*                                                                         *)
(* A word has 8 bytes, as on the real machine, but a byte has ByteBits     *)
(* bits, so that all values of a word are few.  Words are signed integers. *)
(* %rsp and %rbp hold addresses, which are not bounded by the word: the    *)
(* stack starts at address 0 and grows down a word at a time; the data     *)
(* section is a sequence of bytes of its own.                              *)
(***************************************************************************)
EXTENDS Integers, Sequences, SequencesExt, Emitter

CONSTANTS ByteBits,   \* the width of a byte
          StackWords, \* the size of the stack
          Garbage     \* what registers and the stack hold at first

\* There is room for the address that the first function returns to.
ASSUME StackAssumption == StackWords \in Nat \ {0}

Base == 2 ^ ByteBits
Word == Base ^ 8

\* The word with the same low bits as the integer n.
Wrap(n) == ((n + Word \div 2) % Word) - Word \div 2

\* Byte k, counted from the low end, of a word; and a word from its 8 bytes.
ByteOf(v, k) == (v \div (Base ^ k)) % Base
FromBytes(bytes) == Wrap(FoldRight(LAMBDA byte, acc : acc * Base + byte, bytes, 0))

-----------------------------------------------------------------------------
(* The data section: `directive value` lines between .data and .text *)

WidthOf(op) == CASE op = ".byte" -> 1 [] op = ".word" -> 2 [] op = ".long" -> 4 [] op = ".quad" -> 8

IsDatum(line) == line.op \in {".byte", ".word", ".long", ".quad"}

BytesOf(line) == [k \in 1..WidthOf(line.op) |-> ByteOf(line.src.num, k - 1)]

\* The first of the section's bytes, followed by a word of slack, that belongs
\* to the n-th line of the code.
DataBefore(code, n) ==
  FoldLeft(LAMBDA acc, line : IF IsDatum(line) THEN acc \o BytesOf(line) ELSE acc, <<>>,
           SubSeq(code, 1, n))
DataSection(code) == DataBefore(code, Len(code)) \o [k \in 1..8 |-> 0]

LineOf(code, label) == CHOOSE k \in DOMAIN code : code[k].op = "label" /\ code[k].dst = label
Address(code, name) == Len(DataBefore(code, LineOf(code, mk_label(name))))

(***************************************************************************)
(* What the assembler and the linker demand of the code: a name is defined *)
(* once, what is called is defined, the entry is defined and global, and   *)
(* no amount by which %rsp moves is too large for an instruction.  (The    *)
(* labels .L<n> are left to the generator: that it defines each once is a  *)
(* property of its own.)                                                   *)
(***************************************************************************)
Links(code, entry) ==
  LET labels == {k \in DOMAIN code : code[k].op = "label"}
      named == {k \in labels : code[k].dst.name # NoName}
      called == {code[k].src : k \in {j \in DOMAIN code : code[j].op = "call"}}
      moves == {k \in DOMAIN code : code[k].op \in {"add", "sub"} /\ code[k].src.kind = "OP_IMM"}
  IN /\ \A k, l \in named : code[k].dst = code[l].dst => k = l
     /\ \A target \in called \cup {mk_label(entry)} : \E k \in named : code[k].dst = target
     /\ \E k \in DOMAIN code : code[k] = Directive(".globl", mk_label(entry))
     /\ \A k \in moves : Wrap(code[k].src.num) = code[k].src.num

-----------------------------------------------------------------------------
(* Machine states *)

\* Execution starts in the function `entry`, called from address 0.
Boot(code, entry) ==
  [ pc |-> LineOf(code, mk_label(entry)),
    reg |-> [r \in regid |-> IF r = "REG_RSP" THEN -8 ELSE Garbage],
    stack |-> [k \in 1..StackWords |-> IF k = 1 THEN 0 ELSE Garbage],
    data |-> DataSection(code),
    flags |-> <<0, 0>>,
    status |-> "running" ]

\* The stack word at an address.
At(a) == (-a) \div 8

Load(code, m, o) ==
  CASE o.kind = "OP_IMM" -> Wrap(o.num)
    [] o.kind = "OP_REG" -> m.reg[o.id]
    [] o.kind = "OP_MEM" -> m.stack[At(m.reg[o.id] + o.num)]
    [] o.kind = "OP_RIP" ->
         LET a == Address(code, o.name) IN FromBytes(SubSeq(m.data, a + 1, a + 8))

Store(code, m, o, v) ==
  CASE o.kind = "OP_REG" -> [m EXCEPT !.reg[o.id] = v]
    [] o.kind = "OP_MEM" -> [m EXCEPT !.stack[At(m.reg[o.id] + o.num)] = v]
    [] o.kind = "OP_RIP" ->
         LET a == Address(code, o.name)
         IN [m EXCEPT !.data = [k \in DOMAIN @ |->
               IF k \in a+1..a+8 THEN ByteOf(v, k - a - 1) ELSE @[k]]]

\* An address is not a number of the program; any word may come of it.
AddressOf(code, m, o) ==
  IF o.kind = "OP_RIP" THEN Wrap(Address(code, o.name)) ELSE Wrap(m.reg[o.id] + o.num)

Push(m, v) ==
  LET a == m.reg["REG_RSP"] - 8
  IN [m EXCEPT !.reg["REG_RSP"] = a, !.stack[At(a)] = v]
Pop(code, m, o) ==
  LET a == m.reg["REG_RSP"]
  IN Store(code, [m EXCEPT !.reg["REG_RSP"] = a + 8], o, m.stack[At(a)])

Condition(op, a, b) ==
  CASE op \in {"sete", "je"} -> a = b
    [] op = "setne"          -> a # b
    [] op = "setl"           -> a < b
    [] op = "setg"           -> a > b
    [] op = "setge"          -> a >= b
    [] op = "setle"          -> a <= b

Abs(n) == IF n < 0 THEN -n ELSE n

\* %rsp and %rbp are added to as addresses, other registers as words.
Sum(o, n) == IF o = RSP THEN n ELSE Wrap(n)

Jump(code, m, label) == [m EXCEPT !.pc = LineOf(code, label)]

-----------------------------------------------------------------------------
(* One instruction, at a pc already moved past it *)

Divide(code, m, line) ==
  LET divisor == Load(code, m, line.src)
      dividend == m.reg["REG_RDX"] * Word + (m.reg["REG_RAX"] % Word)
      quotient == IF (dividend < 0) = (divisor < 0) THEN Abs(dividend) \div Abs(divisor)
                  ELSE -(Abs(dividend) \div Abs(divisor))
  IN IF divisor = 0 \/ Wrap(quotient) # quotient THEN [m EXCEPT !.status = "trap"]
     ELSE [m EXCEPT !.reg["REG_RAX"] = quotient,
                    !.reg["REG_RDX"] = Wrap(dividend - quotient * divisor)]

Execute(code, m, line) ==
  LET src == Load(code, m, line.src)
      dst == Load(code, m, line.dst)
      Put(v) == Store(code, m, line.dst, v)
  IN CASE line.op = "mov"   -> Put(src)
       [] line.op = "lea"   -> Put(AddressOf(code, m, line.src))
       [] line.op = "push"  -> Push(m, src)
       [] line.op = "pop"   -> Pop(code, m, line.dst)
       [] line.op = "add"   -> Put(Sum(line.dst, dst + src))
       [] line.op = "sub"   -> Put(Sum(line.dst, dst - src))
       [] line.op = "imul"  -> Put(Wrap(dst * src))
       [] line.op = "neg"   -> Put(Wrap(-dst))
       [] line.op = "cqto"  -> [m EXCEPT !.reg["REG_RDX"] = IF m.reg["REG_RAX"] < 0 THEN -1 ELSE 0]
       [] line.op = "idiv"  -> Divide(code, m, line)
       [] line.op = "cmp"   -> [m EXCEPT !.flags = <<dst, src>>]
       [] line.op \in {"sete", "setne", "setl", "setg", "setge", "setle"} ->
            LET bit == IF Condition(line.op, m.flags[1], m.flags[2]) THEN 1 ELSE 0
            IN Put(Wrap(dst - ByteOf(dst, 0) + bit))
       [] line.op = "movzb" -> Put(ByteOf(src, 0))
       [] line.op = "jmp"   -> Jump(code, m, line.src)
       [] line.op = "je"    -> IF Condition("je", m.flags[1], m.flags[2])
                               THEN Jump(code, m, line.src) ELSE m
       [] line.op = "call"  -> Jump(code, Push(m, m.pc), line.src)
       [] line.op = "ret"   ->
            LET a == m.reg["REG_RSP"]
                back == [m EXCEPT !.reg["REG_RSP"] = a + 8, !.pc = m.stack[At(a)]]
            IN IF back.pc = 0 THEN [back EXCEPT !.status = "halted"] ELSE back
       [] OTHER             -> m

\* The addresses on the stack that a line reads or writes.
Touches(m, line) ==
  LET operands == {o \in {line.src, line.dst} : o.kind = "OP_MEM" /\ line.op # "lea"}
      top == m.reg["REG_RSP"]
  IN {m.reg[o.id] + o.num : o \in operands}
     \cup (CASE line.op \in {"push", "call"} -> {top - 8}
             [] line.op \in {"pop", "ret"}   -> {top}
             [] OTHER                        -> {})

\* The system stops a program that leaves its stack or executes its data.
Faults(m, line) == IsDatum(line) \/ \E a \in Touches(m, line) : At(a) \notin 1..StackWords

Step(code, m) ==
  IF Faults(m, code[m.pc]) THEN [m EXCEPT !.status = "fault"]
  ELSE Execute(code, [m EXCEPT !.pc = @ + 1], code[m.pc])
=============================================================================
