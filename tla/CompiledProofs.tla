--------------------------- MODULE CompiledProofs ---------------------------
(***************************************************************************)
(* What the generated code does when it runs, for every program that       *)
(* compiles and links: a function gives back %rsp and %rbp and returns to  *)
(* the line after its call, and every call is executed at a %rsp that is a *)
(* multiple of 16.                                                         *)
(*                                                                         *)
(* The argument has two halves.  The first is about the lines as they are  *)
(* emitted: each lies in a zone (the prologue, the body or the epilogue of *)
(* a function, or the data), and the height of the stack there is known.   *)
(* The second is about the machine: where the pc is says what %rsp and     *)
(* %rbp are, and what is kept on the stack for every pending return.       *)
(***************************************************************************)
EXTENDS Compiled, WalkProofs

-----------------------------------------------------------------------------
(* The zones of the emitted lines *)

\* A register or a place that the lines of a body may write.
Dest(o) ==
  \/ o.kind = "OP_REG" /\ o.id \in regid \ {"REG_RSP", "REG_RBP"}
  \/ o.kind = "OP_MEM" /\ o.id = "REG_RBP" /\ o.num \in Int /\ o.num <= -8
  \/ o.kind = "OP_RIP"

set_op == {"sete", "setne", "setl", "setg", "setge", "setle"}
dest_op == {"mov", "lea", "imul", "neg", "movzb", "pop", "add", "sub"} \cup set_op

\* A line of a body that goes on to the next line, one that may jump, a call.
StraightLine(x) ==
  \/ x.op \in dest_op /\ Dest(x.dst)
  \/ x.op \in {"add", "sub"} /\ x.dst = RSP /\ x.src.kind = "OP_IMM" /\ x.src.num \in Int
  \/ x.op \in {"push", "cmp", "cqto", "idiv"}
  \/ x.op = "label" /\ x.dst.name = NoName
JumpLine(x) == x.op \in {"jmp", "je"} /\ x.src = mk_local_label(x.src.num)
AlignedCall(x, r) == x.op = "call" /\ (r + 8) % 16 = 0

\* The lines of each zone, at the height r of the stack.
Belongs(x, z, r) ==
  CASE z = "between" -> x.op \in {".globl", ".data", ".text"}
    [] z = "data"    -> x.op = ".text" \/ (x.op = "label" /\ x.dst.name # NoName)
    [] z = "datum"   -> IsDatum(x)
    [] z = "globl"   -> x.op = "label" /\ x.dst.name # NoName
    [] z = "entry"   -> x = emit_push(RBP)
    [] z = "saved"   -> x = emit_mov(RSP, RBP)
    [] z = "body"    -> StraightLine(x) \/ JumpLine(x) \/ AlignedCall(x, r) \/ x = emit_mov(RBP, RSP)
    [] z = "left"    -> x = emit_pop(RBP)
    [] z = "exit"    -> x = ret
    [] OTHER         -> FALSE

\* The zone after a line.
ZoneAfter(z, x) ==
  CASE z = "between" -> (CASE x.op = ".globl" -> "globl" [] x.op = ".data" -> "data"
                           [] OTHER -> "between")
    [] z = "data"    -> IF x.op = "label" THEN "datum" ELSE "between"
    [] z = "datum"   -> "data"
    [] z = "globl"   -> "entry"
    [] z = "entry"   -> "saved"
    [] z = "saved"   -> "body"
    [] z = "body"    -> IF x = emit_mov(RBP, RSP) THEN "left" ELSE "body"
    [] z = "left"    -> "exit"
    [] z = "exit"    -> "between"
    [] OTHER         -> "between"

\* The saved %rbp, at least, is on the stack in a body.
Deep(r) == r \in Int /\ r >= 8
DeepAt(z, r) ==
  /\ z = "entry" => r = 0
  /\ z = "saved" => r = 8
  /\ z = "body" => Deep(r)

\* z and h are the zone and the height of the stack before each line of s.
Laid(s, z, h) ==
  /\ z[1] = "between"
  /\ h[1] = 0
  /\ \A k \in 1..Len(s) :
       /\ h[k+1] = StackAfter(h[k], s[k])
       /\ z[k+1] = ZoneAfter(z[k], s[k])
       /\ Belongs(s[k], z[k], h[k])
       /\ DeepAt(z[k+1], h[k+1])
Zoned(s, q, r) == \E z, h : Laid(s, z, h) /\ z[Len(s) + 1] = q /\ h[Len(s) + 1] = r

LEMMA ZonedLine ==
  ASSUME NEW s, NEW t, NEW x, Adds(s, t, x), NEW q, NEW r, Zoned(s, q, r), Belongs(x, q, r),
         DeepAt(ZoneAfter(q, x), StackAfter(r, x))
  PROVE  Zoned(t, ZoneAfter(q, x), StackAfter(r, x))
  <1> DEFINE n == Len(s)
             u == StackAfter(r, x)
             v == ZoneAfter(q, x)
  <1>1. n \in Nat /\ Len(t) = n + 1 /\ t[n + 1] = x /\ \A k \in 1..n : t[k] = s[k]
    BY DEF Adds, Grows
  <1>2. PICK z, h : Laid(s, z, h) /\ z[n + 1] = q /\ h[n + 1] = r
    BY DEF Zoned
  <1> DEFINE f == [k \in Nat |-> IF k = n + 2 THEN u ELSE h[k]]
             g == [k \in Nat |-> IF k = n + 2 THEN v ELSE z[k]]
  <1>3. /\ f[n + 2] = u /\ \A k \in 1..n + 1 : f[k] = h[k]
        /\ g[n + 2] = v /\ \A k \in 1..n + 1 : g[k] = z[k]
    BY <1>1
  <1>4. u = StackAfter(r, x) /\ v = ZoneAfter(q, x)
    OBVIOUS
  <1> HIDE DEF f, g, u, v
  <1>5. f[1] = 0 /\ g[1] = "between"
    BY <1>1, <1>2, <1>3 DEF Laid
  <1>6. ASSUME NEW k \in 1..n + 1
        PROVE  /\ f[k+1] = StackAfter(f[k], t[k]) /\ g[k+1] = ZoneAfter(g[k], t[k])
               /\ Belongs(t[k], g[k], f[k]) /\ DeepAt(g[k+1], f[k+1])
    <2>1. CASE k = n + 1
      <3>1. f[k+1] = u /\ f[k] = r /\ g[k+1] = v /\ g[k] = q /\ t[k] = x
        BY <1>1, <1>2, <1>3, <2>1
      <3> QED
        BY <3>1, <1>4
    <2>2. CASE k # n + 1
      <3>1. /\ k \in 1..n /\ f[k] = h[k] /\ f[k+1] = h[k+1] /\ g[k] = z[k] /\ g[k+1] = z[k+1]
            /\ t[k] = s[k]
        BY <1>1, <1>3, <2>2
      <3> QED
        BY <1>2, <3>1 DEF Laid
    <2> QED
      BY <2>1, <2>2
  <1>7. (n + 1) + 1 = n + 2
    BY <1>1
  <1>8. Laid(t, g, f)
    BY <1>1, <1>5, <1>6 DEF Laid
  <1> QED
    BY <1>1, <1>3, <1>4, <1>7, <1>8 DEF Zoned

\* A line of a body stays in it.
BodyLine(x, r) == StraightLine(x) \/ JumpLine(x) \/ AlignedCall(x, r)

LEMMA NotLeaving ==
  ASSUME NEW x, NEW r, BodyLine(x, r)
  PROVE  x # emit_mov(RBP, RSP)
  <1> SUFFICES ASSUME x = emit_mov(RBP, RSP)
               PROVE  FALSE
    OBVIOUS
  <1>1. x.op = "mov" /\ x.dst = RSP
    BY DEF emit_mov, Line
  <1>2. ~Dest(RSP)
    BY DEF Dest, RSP, mk_register, NoOperand
  <1> QED
    BY <1>1, <1>2 DEF BodyLine, StraightLine, JumpLine, AlignedCall

LEMMA BodyGoesOn ==
  ASSUME NEW s, NEW t, NEW x, Adds(s, t, x), NEW r, Zoned(s, "body", r), BodyLine(x, r),
         Deep(StackAfter(r, x))
  PROVE  Zoned(t, "body", StackAfter(r, x))
  <1>1. ZoneAfter("body", x) = "body"
    BY NotLeaving DEF ZoneAfter
  <1>2. Belongs(x, "body", r) /\ DeepAt("body", StackAfter(r, x))
    BY DEF Belongs, DeepAt, BodyLine
  <1> QED
    BY <1>1, <1>2, ZonedLine

\* Lines of a body that leave the stack where it is.
Calm(x) == StraightLine(x) /\ \A r : StackAfter(r, x) = r

\* Lines of a body: the first two may move the stack or jump, the first
\* may call.
BodyLines(r, l) ==
  \E a, b, c, d, e :
    /\ BodyLine(a, r) /\ Deep(StackAfter(r, a))
    /\ StraightLine(b) \/ JumpLine(b)
    /\ Deep(StackAfter(StackAfter(r, a), b))
    /\ Calm(c) /\ Calm(d) /\ Calm(e)
    /\ l \in {<<>>, <<a>>, <<a, b>>, <<a, b, c>>, <<a, b, c, d>>, <<a, b, c, d, e>>}

LEMMA ZonedLines ==
  ASSUME NEW S, NEW s \in Seq(S), NEW r, Zoned(s, "body", r), NEW l, BodyLines(r, l)
  PROVE  Zoned(s \o l, "body", StackAfterAll(r, l))
  <1>0. PICK a, b, c, d, e :
          /\ BodyLine(a, r) /\ Deep(StackAfter(r, a))
          /\ StraightLine(b) \/ JumpLine(b)
    /\ Deep(StackAfter(StackAfter(r, a), b))
          /\ Calm(c) /\ Calm(d) /\ Calm(e)
          /\ l \in {<<>>, <<a>>, <<a, b>>, <<a, b, c>>, <<a, b, c, d>>, <<a, b, c, d, e>>}
    BY DEF BodyLines
  <1> DEFINE T == {a, b, c, d, e}
             l0 == <<>>
             l1 == <<a>>
             l2 == <<a, b>>
             l3 == <<a, b, c>>
             l4 == <<a, b, c, d>>
             l5 == <<a, b, c, d, e>>
             r1 == StackAfter(r, a)
             r2 == StackAfter(r1, b)
  <1>1. l0 \in Seq(T) /\ l1 \in Seq(T) /\ l2 \in Seq(T) /\ l3 \in Seq(T) /\ l4 \in Seq(T)
    OBVIOUS
  <1>2. /\ l1 = Append(l0, a) /\ l2 = Append(l1, b) /\ l3 = Append(l2, c)
        /\ l4 = Append(l3, d) /\ l5 = Append(l4, e)
    OBVIOUS
  <1>3. /\ StackAfter(r2, c) = r2 /\ StackAfter(r2, d) = r2 /\ StackAfter(r2, e) = r2
        /\ Deep(r1) /\ Deep(r2)
    BY <1>0 DEF Calm
  <1>4. /\ StackAfterAll(r, l0) = r /\ StackAfterAll(r, l1) = r1 /\ StackAfterAll(r, l2) = r2
        /\ StackAfterAll(r, l3) = r2 /\ StackAfterAll(r, l4) = r2 /\ StackAfterAll(r, l5) = r2
    BY <1>3, EmittingNone, EmittingOne, EmittingTwo, EmittingThree, EmittingFour, EmittingFive
  <1>5. l \in {l0, l1, l2, l3, l4, l5}
    BY <1>0
  <1>6. a \in T /\ b \in T /\ c \in T /\ d \in T /\ e \in T
    OBVIOUS
  <1>7. s \o l0 = s
    BY ConcatEmptySeq
  <1>8. BodyLine(b, r1) /\ BodyLine(c, r2) /\ BodyLine(d, r2) /\ BodyLine(e, r2)
    BY <1>0 DEF BodyLine, Calm
  <1>9. r1 = StackAfter(r, a) /\ r2 = StackAfter(r1, b)
    OBVIOUS
  <1> HIDE DEF T, l0, l1, l2, l3, l4, l5, r1, r2
  <1>10. /\ Adds(s \o l0, s \o l1, a) /\ Adds(s \o l1, s \o l2, b) /\ Adds(s \o l2, s \o l3, c)
         /\ Adds(s \o l3, s \o l4, d) /\ Adds(s \o l4, s \o l5, e)
    BY <1>1, <1>2, <1>6, AppendAdds
  <1>11. Zoned(s \o l1, "body", r1)
    BY <1>0, <1>3, <1>7, <1>9, <1>10, BodyGoesOn
  <1>12. Zoned(s \o l2, "body", r2)
    BY <1>3, <1>8, <1>9, <1>10, <1>11, BodyGoesOn
  <1>13. Zoned(s \o l3, "body", r2)
    BY <1>3, <1>8, <1>10, <1>12, BodyGoesOn
  <1>14. Zoned(s \o l4, "body", r2)
    BY <1>3, <1>8, <1>10, <1>13, BodyGoesOn
  <1>15. Zoned(s \o l5, "body", r2)
    BY <1>3, <1>8, <1>10, <1>14, BodyGoesOn
  <1> QED
    BY <1>4, <1>5, <1>7, <1>11, <1>12, <1>13, <1>14, <1>15

-----------------------------------------------------------------------------
(* The lines that the generator emits in a body *)

LEMMA DestIs ==
  /\ Dest(RAX) /\ Dest(RCX) /\ Dest(AL)
  /\ \A r \in regid \ {"REG_RSP", "REG_RBP"} : Dest(mk_register(r, "SZ_64"))
  /\ \A k \in Int : k <= -8 => Dest(Slot(k))
  /\ \A x : Dest(mk_rip(x))
  /\ ~Dest(RSP)
  BY DEF Dest, RAX, RCX, AL, RSP, Slot, mk_rip, mk_mem, mk_register, NoOperand, regid

LEMMA StraightDest ==
  ASSUME NEW o \in dest_op, NEW z, NEW a, NEW b, Dest(b)
  PROVE  /\ StraightLine(Line(o, z, a, b))
         /\ o # "pop" => Calm(Line(o, z, a, b))
  <1>1. StraightLine(Line(o, z, a, b))
    BY DEF StraightLine, Line
  <1>2. b # RSP
    BY DestIs
  <1>3. ASSUME o # "pop", NEW r
        PROVE  StackAfter(r, Line(o, z, a, b)) = r
    BY <1>2, <1>3 DEF StackAfter, Line, dest_op, set_op
  <1> QED
    BY <1>1, <1>3 DEF Calm

LEMMA StraightOther ==
  ASSUME NEW o \in {"push", "cmp", "cqto", "idiv"}, NEW z, NEW a, NEW b
  PROVE  /\ StraightLine(Line(o, z, a, b))
         /\ o # "push" => Calm(Line(o, z, a, b))
  <1>1. StraightLine(Line(o, z, a, b))
    BY DEF StraightLine, Line
  <1>2. ASSUME o # "push", NEW r
        PROVE  StackAfter(r, Line(o, z, a, b)) = r
    BY <1>2 DEF StackAfter, Line
  <1> QED
    BY <1>1, <1>2 DEF Calm

LEMMA StraightEmits ==
  /\ \A a, b : Dest(b) =>
       /\ Calm(emit_mov(a, b)) /\ Calm(emit_add(a, b)) /\ Calm(emit_sub(a, b))
       /\ Calm(emit_imul(a, b))
  /\ \A b : Dest(b) => StraightLine(emit_pop(b))
  /\ \A a : StraightLine(emit_push(a)) /\ Calm(emit_idiv(a)) /\ Calm(leaq(a))
  /\ \A a, b : Calm(emit_cmp(a, b))
  /\ Calm(negq) /\ Calm(movzbq) /\ Calm(cqto)
  /\ \A o \in set_op : Calm(setcc(o))
  <1>1. Dest(RAX) /\ Dest(AL)
    BY DestIs
  <1>2. \A a, b : Dest(b) => Calm(emit_mov(a, b)) /\ Calm(emit_add(a, b))
    BY StraightDest DEF emit_mov, emit_add, dest_op
  <1>3. \A a, b : Dest(b) => Calm(emit_sub(a, b)) /\ Calm(emit_imul(a, b))
    BY StraightDest DEF emit_sub, emit_imul, dest_op
  <1>4. \A b : Dest(b) => StraightLine(emit_pop(b))
    BY StraightDest DEF emit_pop, dest_op
  <1>5. \A a : StraightLine(emit_push(a)) /\ Calm(emit_idiv(a))
    BY StraightOther DEF emit_push, emit_idiv
  <1>6. (\A a, b : Calm(emit_cmp(a, b))) /\ Calm(cqto)
    BY StraightOther DEF emit_cmp, cqto
  <1>7. (\A a : Calm(leaq(a))) /\ Calm(negq) /\ Calm(movzbq)
    BY <1>1, StraightDest DEF leaq, negq, movzbq, dest_op
  <1>8. \A o \in set_op : Calm(setcc(o))
    BY <1>1, StraightDest DEF setcc, dest_op, set_op
  <1> QED
    BY <1>2, <1>3, <1>4, <1>5, <1>6, <1>7, <1>8

LEMMA StraightAdjust ==
  ASSUME NEW k \in Int
  PROVE  /\ StraightLine(emit_sub(mk_immutable(k), RSP))
         /\ StraightLine(emit_add(mk_immutable(k), RSP))
  BY DEF StraightLine, emit_sub, emit_add, Line, mk_immutable, NoOperand

LEMMA StraightLabel ==
  ASSUME NEW k
  PROVE  Calm(Label(mk_local_label(k))) /\ JumpLine(jmp(k)) /\ JumpLine(je(k))
  <1>1. StraightLine(Label(mk_local_label(k)))
    BY DEF StraightLine, Label, Line, mk_local_label, NoOperand
  <1>2. \A r : StackAfter(r, Label(mk_local_label(k))) = r
    BY ProgramsAssumption DEF StackAfter, Label, Line, mk_local_label, NoOperand
  <1>3. JumpLine(jmp(k)) /\ JumpLine(je(k))
    BY DEF JumpLine, jmp, je, Line, mk_local_label, NoOperand
  <1> QED
    BY <1>1, <1>2, <1>3 DEF Calm

\* Lines of which none moves the stack.
LEMMA CalmLines ==
  ASSUME NEW r, Deep(r), NEW a, NEW b, NEW c, NEW d, NEW e,
         Calm(a) \/ JumpLine(a), Calm(b) \/ JumpLine(b), Calm(c), Calm(d), Calm(e)
  PROVE  /\ BodyLines(r, <<>>) /\ BodyLines(r, <<a>>) /\ BodyLines(r, <<a, b>>)
         /\ BodyLines(r, <<a, b, c>>) /\ BodyLines(r, <<a, b, c, d>>)
         /\ BodyLines(r, <<a, b, c, d, e>>)
  <1>1. StackAfter(r, a) = r /\ StackAfter(r, b) = r
    BY DEF Calm, JumpLine, StackAfter
  <1>2. /\ BodyLine(a, r) /\ StackAfter(StackAfter(r, a), b) = r
        /\ StraightLine(b) \/ JumpLine(b)
    BY <1>1 DEF BodyLine, Calm
  <1> QED
    BY <1>1, <1>2 DEF BodyLines

\* One line that may move the stack.
LEMMA MovingLine ==
  ASSUME NEW r, NEW a, BodyLine(a, r), Deep(StackAfter(r, a))
  PROVE  BodyLines(r, <<a>>)
  <1>1. Calm(cqto)
    BY StraightEmits
  <1>2. StraightLine(cqto) /\ StackAfter(StackAfter(r, a), cqto) = StackAfter(r, a)
    BY <1>1 DEF Calm
  <1> QED
    BY <1>1, <1>2 DEF BodyLines

LEMMA UnaryBody ==
  ASSUME NEW r, Deep(r), NEW o \in {"U_NEG", "U_NOT", "U_POS"}
  PROVE  BodyLines(r, UnaryLines(o))
  <1> DEFINE a == emit_cmp(mk_immutable(0), RAX)
             b == setcc("sete")
  <1>1. Calm(a) /\ Calm(b) /\ Calm(movzbq) /\ Calm(negq)
    BY StraightEmits DEF set_op
  <1>2. UnaryLines(o) \in {<<negq>>, <<a, b, movzbq>>, <<>>}
    BY DEF UnaryLines
  <1> HIDE DEF a, b
  <1>3. BodyLines(r, <<negq>>) /\ BodyLines(r, <<>>) /\ BodyLines(r, <<a, b, movzbq>>)
    BY <1>1, CalmLines
  <1> QED
    BY <1>2, <1>3

LEMMA BinaryBody ==
  ASSUME NEW r, Deep(r), Deep(r - 8), NEW o \in binary_expr_t
  PROVE  BodyLines(r, <<emit_mov(RAX, RCX), pop_into("REG_RAX")>> \o BinaryLines(o))
  <1> DEFINE a == emit_mov(RAX, RCX)
             b == pop_into("REG_RAX")
  <1>1. Calm(a) /\ StraightLine(b) /\ StackAfter(r, b) = r - 8
    <2>1. Calm(a) /\ StraightLine(b)
      BY StraightEmits, DestIs DEF pop_into, RAX
    <2> QED
      BY <2>1, PopLine DEF pop_into
  <1> HIDE DEF a, b
  <1>7. StackAfter(r, a) = r /\ BodyLine(a, r)
    BY <1>1 DEF Calm, BodyLine
  <1>2. \/ \E x : Calm(x) /\ BinaryLines(o) = <<x>>
        \/ \E x, y : Calm(x) /\ Calm(y) /\ BinaryLines(o) = <<x, y>>
        \/ \E x, y, z : Calm(x) /\ Calm(y) /\ Calm(z) /\ BinaryLines(o) = <<x, y, z>>
    <2>0. Dest(RAX)
      BY DestIs
    <2>1. CASE o \in {"B_ADD", "B_SUB", "B_MUL"}
      BY <2>0, <2>1, StraightEmits DEF BinaryLines
    <2>2. CASE o = "B_DIV"
      BY <2>2, StraightEmits DEF BinaryLines
    <2>3. CASE o \in comparison_t
      <3>1. BinaryLines(o) = <<emit_cmp(RCX, RAX), setcc(setcc_of(o)), movzbq>>
        BY <2>3 DEF BinaryLines, comparison_t
      <3>2. setcc_of(o) \in set_op
        BY <2>3 DEF setcc_of, comparison_t, set_op
      <3> QED
        BY <3>1, <3>2, StraightEmits
    <2> QED
      BY <2>1, <2>2, <2>3 DEF binary_expr_t, arithmetic_t
  <1>3. ASSUME NEW x, Calm(x), BinaryLines(o) = <<x>>
        PROVE  BodyLines(r, <<a, b>> \o BinaryLines(o))
    <2>1. <<a, b>> \o BinaryLines(o) = <<a, b, x>>
      BY <1>3, ConcatThree, Zenon
    <2> QED
      BY <1>1, <1>3, <1>7, <2>1 DEF BodyLines
  <1>4. ASSUME NEW x, NEW y, Calm(x), Calm(y), BinaryLines(o) = <<x, y>>
        PROVE  BodyLines(r, <<a, b>> \o BinaryLines(o))
    <2>1. <<a, b>> \o BinaryLines(o) = <<a, b, x, y>>
      BY <1>4, ConcatFour, Zenon
    <2> QED
      BY <1>1, <1>4, <1>7, <2>1 DEF BodyLines
  <1>5. ASSUME NEW x, NEW y, NEW z, Calm(x), Calm(y), Calm(z), BinaryLines(o) = <<x, y, z>>
        PROVE  BodyLines(r, <<a, b>> \o BinaryLines(o))
    <2>1. <<a, b>> \o BinaryLines(o) = <<a, b, x, y, z>>
      BY <1>5, ConcatFive, ZenonT(60)
    <2> QED
      BY <1>1, <1>5, <1>7, <2>1 DEF BodyLines
  <1>6. BodyLines(r, <<a, b>> \o BinaryLines(o))
    BY <1>2, <1>3, <1>4, <1>5
  <1> QED
    BY <1>6 DEF a, b

\* The call, and what it gives back.
LEMMA CallBody ==
  ASSUME NEW r, Deep(r), NEW fr, Deep(r - 8) \/ UnpadLines(fr) = <<>>, NEW x, (r + 8) % 16 = 0
  PROVE  BodyLines(r, <<emit_call(x)>> \o UnpadLines(fr))
  <1> DEFINE a == emit_call(x)
             b == emit_add(mk_immutable(8), RSP)
  <1>1. BodyLine(a, r) /\ StackAfter(r, a) = r
    <2>1. a.op = "call"
      BY DEF emit_call, Line
    <2> QED
      BY <2>1 DEF BodyLine, AlignedCall, StackAfter
  <1>2. StraightLine(b) /\ StackAfter(r, b) = r - 8
    BY StraightAdjust, AdjustLine
  <1>3. UnpadLines(fr) = <<>> \/ (UnpadLines(fr) = <<b>> /\ UnpadLines(fr) # <<>>)
    BY DEF UnpadLines
  <1>4. <<a>> \o <<>> = <<a>> /\ <<a>> \o <<b>> = <<a, b>>
    <2> HIDE DEF a, b
    <2>1. <<a>> \o <<>> = <<a>>
      BY ConcatNone, Zenon
    <2>2. <<a>> \o <<b>> = <<a, b>>
      BY ConcatTwo, Zenon
    <2> QED
      BY <2>1, <2>2
  <1> HIDE DEF a, b
  <1>5. BodyLines(r, <<a>>)
    BY <1>1, MovingLine
  <1>6. Deep(r - 8) => BodyLines(r, <<a, b>>)
    <2>1. Calm(cqto)
      BY StraightEmits
    <2> QED
      BY <1>1, <1>2, <2>1 DEF BodyLines
  <1>7. BodyLines(r, <<a>> \o UnpadLines(fr))
    <2>1. CASE UnpadLines(fr) = <<>>
      <3>1. <<a>> \o UnpadLines(fr) = <<a>>
        BY <1>4, <2>1, Zenon
      <3> QED
        BY <1>5, <3>1
    <2>2. CASE UnpadLines(fr) = <<b>> /\ UnpadLines(fr) # <<>>
      <3>1. <<a>> \o UnpadLines(fr) = <<a, b>>
        BY <1>4, <2>2, Zenon
      <3> QED
        BY <1>6, <2>2, <3>1
    <2> QED
      BY <1>3, <2>1, <2>2
  <1> QED
    BY <1>7 DEF a

-----------------------------------------------------------------------------
(* The places of the variables *)

\* A name that is found is a global or has a slot below %rbp.
LEMMA Found ==
  ASSUME Inv, SpaceInv, ScopesInv, InBody, ~Halted, NEW x \in Name
  PROVE  \/ find_symbol(x) \in {NoSymbol, GlobalSymbol}
         \/ \E p \in Nat \ {0} : find_symbol(x) = LocalAt(p)
  <1> DEFINE n == Len(frames)
             dec == Decs(frames)
             opened == Opened(frames)
  <1>1. /\ phase = "text" /\ frames # <<>> /\ FramesInv /\ frames \in Seq(frame_t)
        /\ frames[1].loc # Fresh /\ scope_stk \in Seq(ScopeType) /\ Path(frames)
        /\ \A k \in 1..Len(frames) : Within(frames[k])
    BY DEF InBody, Halted, Inv, IInv, WalkInv, FramesInv, ScopeInv, ScopesInv, SpaceInv
  <1>2. n \in Nat /\ opened \subseteq 1..n
    BY <1>1 DEF Opened
  <1>3. Match(n, dec, opened, scope_stk, cur_offset, Globals)
    BY <1>1 DEF ScopesInv, Scoped, Known
  <1>4. DecTyped(dec, n)
    BY <1>1, DecsTyped
  <1>5. DecsIn(dec, n, opened)
    <2>1. \A l \in 1..n : frames[l].node.type = "AST_FUNC_DECL" <=> l = 1
      BY <1>1 DEF FramesInv, IsWalk
    <2> QED
      BY <1>1, <2>1, DecsOpened DEF DecsIn
  <1>6. PICK live, e :
          Holds(n, dec, opened, scope_stk, cur_offset, Globals, live, e)
    BY <1>3 DEF Match
  <1>7. Finds(live[n], Globals, x)
    <2> HIDE DEF n, dec, opened
    <2> QED
      BY <1>1, <1>2, <1>4, <1>5, <1>6, Lookup
  <1>8. live[n] \in Seq(Name)
    BY <1>2, <1>6 DEF Holds, IsLive
  <1>9. \A p \in Nat : LastFrom(live[n], 0, x, p) => p \in Nat \ {0}
    BY <1>8 DEF LastFrom
  <1> QED
    BY <1>7, <1>9 DEF Finds

LEMMA PlaceDest ==
  ASSUME Inv, SpaceInv, ScopesInv, InBody, ~Halted, NEW x \in Name, find_symbol(x) # NoSymbol
  PROVE  Dest(Place(x))
  <1>1. CASE find_symbol(x) = GlobalSymbol
    <2>1. Place(x) = mk_rip(x)
      BY <1>1 DEF Place, GlobalSymbol
    <2> QED
      BY <2>1, DestIs
  <1>2. ASSUME NEW p \in Nat \ {0}, find_symbol(x) = LocalAt(p)
        PROVE  Dest(Place(x))
    <2>1. Place(x) = Slot(-8 * p)
      BY <1>2 DEF Place, LocalAt
    <2>2. -8 * p \in Int /\ -8 * p <= -8
      OBVIOUS
    <2> QED
      BY <2>1, <2>2, DestIs
  <1> QED
    BY <1>1, <1>2, Found

\* A declaration keeps the slot of its local while its value is generated.
Slotted(fr) == fr.node.type = "AST_VAR_DECL" /\ fr.at = 1 => fr.loc <= -8
SlotsInv == \A k \in 1..Len(frames) : Slotted(frames[k])

LEMMA SlotsDescend ==
  ASSUME FramesInv, frames # <<>>, SlotsInv, NEW l \in Int, NEW depth, Descend(l, depth),
         Top.node.type = "AST_VAR_DECL" => l <= -8
  PROVE  SlotsInv'
  <1> DEFINE n == Len(frames)
             t == [Top EXCEPT !.at = @ + 1, !.loc = l]
             new == Frame(Subs(Top.node)[Top.at + 1], depth)
  <1>1. frames \in Seq(frame_t) /\ n \in Nat /\ n > 0 /\ Top = frames[n] /\ Top \in frame_t
    BY TopTyped DEF FramesInv
  <1>2. /\ Len(frames') = n + 1
        /\ \A k \in 1..n : frames'[k] = IF k = n THEN t ELSE frames[k]
        /\ frames'[n + 1] = new
    BY DescendShape
  <1>3. t.node = Top.node /\ t.loc = l
    BY <1>1 DEF frame_t
  <1>4. new.at = 0
    BY DEF Frame
  <1> HIDE DEF t, new
  <1>5. Slotted(t) /\ Slotted(new)
    BY <1>3, <1>4 DEF Slotted
  <1>6. \A k \in 1..n + 1 : k = n + 1 \/ k \in 1..n
    BY <1>1
  <1> QED
    BY <1>2, <1>5, <1>6 DEF SlotsInv

LEMMA SlotsMove ==
  ASSUME FramesInv, frames # <<>>, SlotsInv, Moves,
         Top.node.type = "AST_VAR_DECL" => Return
  PROVE  SlotsInv'
  <1> DEFINE n == Len(frames)
  <1>1. frames \in Seq(frame_t) /\ n \in Nat /\ n > 0 /\ Top = frames[n]
    BY TopTyped DEF FramesInv
  <1>2. CASE Return
    <2>1. Len(frames') = n - 1 /\ \A k \in 1..n - 1 : frames'[k] = frames[k]
      BY <1>1, <1>2, RemoveLast DEF Return
    <2>2. \A k \in 1..n - 1 : k \in 1..n
      BY <1>1
    <2> QED
      BY <2>1, <2>2 DEF SlotsInv
  <1>3. ASSUME Top.node.type # "AST_VAR_DECL", NEW l \in Int, NEW depth, Descend(l, depth)
        PROVE  SlotsInv'
    BY <1>3, SlotsDescend
  <1>4. ASSUME Top.node.type # "AST_VAR_DECL", NEW t \in frame_t, t.node = Top.node,
               frames' = [frames EXCEPT ![Len(frames)] = t]
        PROVE  SlotsInv'
    <2>1. /\ Len(frames') = n
          /\ \A k \in 1..n : frames'[k] = IF k = n THEN t ELSE frames[k]
      BY <1>1, <1>4, ReplaceLast
    <2>2. Slotted(t)
      BY <1>4 DEF Slotted
    <2> QED
      BY <2>1, <2>2 DEF SlotsInv
  <1> QED
    BY <1>2, <1>3, <1>4 DEF Moves

LEMMA OffsetBelow ==
  ASSUME SpaceInv
  PROVE  cur_offset \in Int /\ cur_offset <= 0
  BY DEF SpaceInv, Nested

LEMMA SlotsKept ==
  ASSUME TypeInv, TypeInv', SpaceInv, SlotsInv, [Next]_vars
  PROVE  SlotsInv'
  <1>1. IInv /\ FramesInv /\ out \in Seq(LineType) /\ cur_offset' \in Int
    BY DEF TypeInv, Inv, IInv, ScopeInv
  <1>2. CASE UNCHANGED vars \/ std_compile_error
    BY <1>2 DEF vars, SlotsInv, std_compile_error
  <1>3. CASE gen_expr /\ ~std_compile_error
    <2>1. PICK ty : Silently(ty)
      BY <1>3, expr_silent
    <2>2. ty \in expr_t
      BY <1>3, <2>1
      DEF Silently, Running, gen_expr, gen_literal, gen_identifier, gen_address, gen_unary,
          gen_binary, gen_call_enter, gen_call_arg, gen_call_pop, gen_call_return, gen_assign,
          gen_cast, gen_unsupported, expr_t
    <2>3. frames # <<>> /\ Moves /\ Top.node.type # "AST_VAR_DECL"
      BY <1>1, <2>1, <2>2, RunningTop DEF Silently, expr_t
    <2> QED
      BY <1>1, <2>3, SlotsMove
  <1>4. CASE gen_var_decl
    <2>1. /\ frames # <<>> /\ Top.node.type = "AST_VAR_DECL"
          /\ Return \/ (define_local(Top.node.ident.name) /\ Descend(cur_offset', push_depth))
      BY <1>1, <1>4, RunningTop DEF gen_var_decl
    <2>2. CASE Return
      BY <1>1, <2>1, <2>2, SlotsMove DEF Moves
    <2>3. CASE define_local(Top.node.ident.name) /\ Descend(cur_offset', push_depth)
      <3>1. cur_offset' = cur_offset - 8
        BY <2>3 DEF define_local
      <3>2. cur_offset' <= -8
        BY <3>1, OffsetBelow
      <3> QED
        BY <1>1, <2>1, <2>3, <3>2, SlotsDescend
    <2> QED
      BY <2>1, <2>2, <2>3
  <1>5. ASSUME NEW ty \in {"AST_RETURN", "AST_BLOCK", "AST_COMMENT", "AST_IF", "AST_FUNC_DECL"},
               Running(ty), Moves
        PROVE  SlotsInv'
    <2>1. frames # <<>> /\ Top.node.type = ty
      BY <1>1, <1>5, RunningTop
    <2> QED
      BY <1>1, <1>5, <2>1, SlotsMove
  <1>6. Fresh \in Int /\ 0 \in Int
    BY DEF Fresh
  <1>7. CASE gen_return
    BY <1>5, <1>6, <1>7 DEF gen_return, Moves
  <1>8. CASE gen_block
    <2>1. Running("AST_BLOCK") /\ (SetLoc(0) \/ Return \/ Descend(0, push_depth))
      BY <1>8 DEF gen_block
    <2>2. Moves
      BY <1>1, <1>6, <2>1, RunningTop, SetLocMoves DEF Moves
    <2> QED
      BY <1>5, <2>1, <2>2
  <1>9. CASE gen_comment
    BY <1>5, <1>9 DEF gen_comment, Moves
  <1>10. CASE gen_if
    <2>1. /\ Running("AST_IF")
          /\ Descend(label_count, push_depth) \/ Descend(Top.loc, push_depth) \/ Return
      BY <1>10 DEF gen_if
    <2>2. label_count \in Int /\ Top.loc \in Int
      BY <1>1, <2>1, RunningTop DEF TypeInv, Inv, ScopeInv
    <2> QED
      BY <1>5, <2>1, <2>2 DEF Moves
  <1>11. CASE gen_func_decl /\ ~std_compile_error
    <2>1. /\ Running("AST_FUNC_DECL")
          /\ SetLoc(0) \/ SetLoc(Top.loc + 1) \/ Descend(Top.loc, push_depth) \/ Return
      BY <1>11
      DEF gen_func_decl, gen_func_enter, gen_func_param, gen_func_stmt, gen_func_return
    <2>2. frames # <<>> /\ Top.loc \in Int /\ Top.loc + 1 \in Int
      BY <1>1, <2>1, RunningTop
    <2>3. Moves
      BY <1>1, <1>6, <2>1, <2>2, SetLocMoves DEF Moves
    <2> QED
      BY <1>5, <2>1, <2>3
  <1>12. CASE gen_program
    <2>1. frames' = <<>> \/ TextStep
      BY <1>1, <1>12
      DEF gen_program, StartData, DataStep, DataSkip, StartText, TextStep, FinishProgram,
          IInv, WalkInv
    <2>2. frames' = <<>> \/ frames' = <<Frame(program[i], push_depth)>>
      BY <2>1 DEF TextStep
    <2>3. Frame(program[i], push_depth).at = 0
      BY DEF Frame
    <2> QED
      BY <2>2, <2>3 DEF SlotsInv, Slotted
  <1> QED
    BY <1>2, <1>3, <1>4, <1>7, <1>8, <1>9, <1>10, <1>11, <1>12
    DEF Next, Generate, Terminated, gen_stmt

-----------------------------------------------------------------------------
(* Every action emits lines of the zone it is in *)

ZoneNow == IF InBody THEN "body" ELSE IF phase = "data" THEN "data" ELSE "between"
ZoneInv == phase # "error" => Zoned(out, ZoneNow, rsp)

BodyEmits == \E l : BodyLines(rsp, l) /\ out' = out \o l /\ rsp' = StackAfterAll(rsp, l)

LEMMA DeepInBody ==
  ASSUME IInv, InBody
  PROVE  Deep(rsp) /\ FrameSize \in Nat
  <1>1. frames \in Seq(frame_t) /\ Len(frames) \in Nat /\ Len(frames) > 0 /\ IsWalk(frames)
    BY TopTyped DEF IInv, FramesInv, InBody
  <1>2. 1 \in 1..Len(frames) /\ frames[1] \in frame_t
    BY <1>1
  <1>3. frames[1].node \in Node /\ frames[1].node.type = "AST_FUNC_DECL"
    BY <1>1, <1>2 DEF IsWalk, frame_t
  <1>4. FrameSize \in Nat
    BY <1>3, FrameSizeRounded DEF FrameSize
  <1>5. push_depth \in Nat /\ rsp = 8 + FrameSize + 8 * push_depth
    BY DEF IInv, DepthInv, DepthMatchesStack
  <1> HIDE DEF FrameSize
  <1> QED
    BY <1>4, <1>5 DEF Deep

LEMMA ZonesBody ==
  ASSUME out \in Seq(LineType), ZoneInv, phase # "error", InBody, InBody', BodyEmits
  PROVE  ZoneInv'
  <1>1. PICK l : BodyLines(rsp, l) /\ out' = out \o l /\ rsp' = StackAfterAll(rsp, l)
    BY DEF BodyEmits
  <1>2. Zoned(out, "body", rsp)
    BY DEF ZoneInv, ZoneNow
  <1> HIDE DEF LineType
  <1>3. Zoned(out', "body", rsp')
    BY <1>1, <1>2, ZonedLines
  <1> QED
    BY <1>3 DEF ZoneInv, ZoneNow

LEMMA CalmEmit ==
  ASSUME Deep(rsp), NEW a, Calm(a) \/ JumpLine(a), Emit(<<a>>)
  PROVE  BodyEmits
  <1>1. Calm(cqto)
    BY StraightEmits
  <1> QED
    BY <1>1, CalmLines DEF Emit, BodyEmits

LEMMA MovingEmit ==
  ASSUME Deep(rsp'), NEW a, StraightLine(a), Emit(<<a>>)
  PROVE  BodyEmits
  <1>1. rsp' = StackAfter(rsp, a)
    BY EmittingOne DEF Emit
  <1>2. BodyLines(rsp, <<a>>)
    BY <1>1, MovingLine DEF BodyLine
  <1> QED
    BY <1>2 DEF Emit, BodyEmits

LEMMA NoEmit ==
  ASSUME out \in Seq(LineType), Deep(rsp), UNCHANGED outVars
  PROVE  BodyEmits
  <1>1. Calm(cqto)
    BY StraightEmits
  <1>2. BodyLines(rsp, <<>>)
    BY <1>1, CalmLines
  <1>3. out' = out \o <<>>
    BY ConcatEmptySeq DEF outVars
  <1>4. rsp' = StackAfterAll(rsp, <<>>)
    BY EmittingNone DEF outVars
  <1> QED
    BY <1>2, <1>3, <1>4 DEF BodyEmits

LEMMA ArgumentDest ==
  ASSUME NEW k \in 1..6
  PROVE  Dest(mk_register(arg_regs[k], "SZ_64"))
  <1>1. arg_regs[k] \in regid \ {"REG_RSP", "REG_RBP"}
    BY DEF arg_regs, regid
  <1> QED
    BY <1>1, DestIs

LEMMA expr_lines ==
  ASSUME TypeInv, TypeInv', SpaceInv, ScopesInv, InBody, InBody', gen_expr, ~std_compile_error
  PROVE  BodyEmits
  <1>0. /\ Inv /\ IInv /\ IInv' /\ out \in Seq(LineType) /\ Deep(rsp)
    BY DeepInBody DEF TypeInv, Inv
  <1>1. Deep(rsp')
    <2>1. frames' \in Seq(frame_t) /\ IsWalk(frames)' /\ DepthInv'
      BY <1>0 DEF IInv, FramesInv
    <2>2. frames' # <<>> /\ Len(frames') \in Nat /\ Len(frames') > 0
      BY <2>1 DEF InBody
    <2>3. 1 \in 1..Len(frames') /\ frames'[1] \in frame_t
      BY <2>1, <2>2
    <2>4. frames'[1].node \in Node /\ frames'[1].node.type = "AST_FUNC_DECL"
      BY <2>1, <2>3 DEF IsWalk, frame_t
    <2>5. compute_frame_size(frames'[1].node) \in Nat
      BY <2>4, FrameSizeRounded
    <2>6. FrameSize' \in Nat
      BY <2>5 DEF FrameSize
    <2>7. push_depth' \in Nat /\ rsp' = 8 + FrameSize' + 8 * push_depth'
      BY <1>0, <2>1 DEF IInv, DepthInv, DepthMatchesStack
    <2>8. PICK f \in Nat, p \in Nat : f = FrameSize' /\ p = push_depth'
      BY <2>6, <2>7
    <2>9. rsp' = 8 + f + 8 * p
      BY <2>7, <2>8
    <2> QED
      BY <2>9 DEF Deep
  <1>2. ~std_compile_error
    OBVIOUS
  <1>3. CASE gen_literal
    <2>1. Emit(<<load_imm(Top.node.num_value)>>)
      BY <1>3 DEF gen_literal
    <2>2. Calm(load_imm(Top.node.num_value))
      BY StraightEmits, DestIs DEF load_imm
    <2> QED
      BY <1>0, <2>1, <2>2, CalmEmit
  <1>4. CASE gen_identifier
    <2>1. Emit(<<emit_mov(Place(Top.node.name), RAX)>>)
      BY <1>2, <1>4 DEF gen_identifier
    <2>2. Calm(emit_mov(Place(Top.node.name), RAX))
      BY StraightEmits, DestIs
    <2> QED
      BY <1>0, <2>1, <2>2, CalmEmit
  <1>5. CASE gen_address
    <2>1. Emit(<<leaq(Place(Top.node.expr.name))>>)
      BY <1>2, <1>5 DEF gen_address
    <2>2. Calm(leaq(Place(Top.node.expr.name)))
      BY StraightEmits
    <2> QED
      BY <1>0, <2>1, <2>2, CalmEmit
  <1>6. CASE gen_unary
    <2>1. \/ UNCHANGED outVars
          \/ Top.node.op \in {"U_NEG", "U_NOT", "U_POS"} /\ Emit(UnaryLines(Top.node.op))
      BY <1>2, <1>6 DEF gen_unary
    <2> QED
      BY <1>0, <2>1, NoEmit, UnaryBody DEF Emit, BodyEmits
  <1>7. CASE gen_binary
    <2>1. Top.node.op \in binary_expr_t
      BY <1>0, <1>7, RunningTop DEF gen_binary, WellFormed
    <2>2. CASE UNCHANGED outVars
      BY <1>0, <2>2, NoEmit
    <2>3. CASE Emit(<<push_rax>>)
      <3>1. StraightLine(push_rax)
        BY StraightEmits DEF push_rax
      <3> QED
        BY <1>1, <2>3, <3>1, MovingEmit
    <2>4. CASE Emit(<<emit_mov(RAX, RCX), pop_into("REG_RAX")>> \o BinaryLines(Top.node.op))
      <3>1. rsp' = rsp - 8
        BY <1>0, <2>1, <2>4, EmitBinary DEF Emit, IInv
      <3>2. BodyLines(rsp, <<emit_mov(RAX, RCX), pop_into("REG_RAX")>> \o BinaryLines(Top.node.op))
        BY <1>0, <1>1, <2>1, <3>1, BinaryBody
      <3> QED
        BY <2>4, <3>2 DEF Emit, BodyEmits
    <2> QED
      BY <1>7, <2>2, <2>3, <2>4 DEF gen_binary
  <1>8. CASE gen_call_enter
    <2> DEFINE a == emit_sub(mk_immutable(8), RSP)
    <2>1. Emit(PadLines(Top))
      BY <1>2, <1>8 DEF gen_call_enter
    <2>2. PadLines(Top) = <<>> \/ PadLines(Top) = <<a>>
      BY DEF PadLines
    <2>3. CASE PadLines(Top) = <<>>
      <3>1. Calm(cqto)
        BY StraightEmits
      <3>2. BodyLines(rsp, <<>>)
        BY <1>0, <3>1, CalmLines
      <3> QED
        BY <2>1, <2>3, <3>2 DEF Emit, BodyEmits
    <2>4. CASE PadLines(Top) = <<a>>
      <3>1. StraightLine(a)
        BY StraightAdjust
      <3> QED
        BY <1>1, <2>1, <2>4, <3>1, MovingEmit
    <2> QED
      BY <2>2, <2>3, <2>4
  <1>9. CASE gen_call_arg
    <2>1. UNCHANGED outVars \/ Emit(<<push_rax>>)
      BY <1>9 DEF gen_call_arg
    <2>2. StraightLine(push_rax)
      BY StraightEmits DEF push_rax
    <2> QED
      BY <1>0, <1>1, <2>1, <2>2, NoEmit, MovingEmit
  <1>10. CASE gen_call_pop
    <2>1. /\ Running("AST_CALL") /\ Emit(<<pop_into(arg_regs[Top.loc])>>) /\ Top.loc > 0
      BY <1>10 DEF gen_call_pop
    <2>2. Top.loc \in Int /\ CallFrame(Top) /\ Len(Top.node.args) \in Nat
      BY <1>0, <2>1, CallTop
    <2>3. Top.loc \in 1..6
      BY <2>1, <2>2 DEF CallFrame, Fresh
    <2>4. StraightLine(pop_into(arg_regs[Top.loc]))
      BY <2>3, ArgumentDest, StraightEmits DEF pop_into
    <2> QED
      BY <1>1, <2>1, <2>4, MovingEmit
  <1>11. CASE gen_call_return
    <2> DEFINE x == mk_label(Top.node.callee.name)
               l == <<emit_call(x)>> \o UnpadLines(Top)
    <2>1. out' = out \o l /\ rsp' = StackAfterAll(rsp, l) /\ call_rsp' = call_rsp \cup {rsp}
      BY <1>11 DEF gen_call_return
    <2>2. (rsp + 8) % 16 = 0
      BY <1>0, <2>1 DEF IInv, CallAligned
    <2>3. Deep(rsp - 8) \/ UnpadLines(Top) = <<>>
      <3>1. SUFFICES ASSUME UnpadLines(Top) # <<>>
                     PROVE  Deep(rsp - 8)
        OBVIOUS
      <3> DEFINE a == emit_call(x)
                 b == emit_add(mk_immutable(8), RSP)
      <3>2. UnpadLines(Top) = <<b>>
        BY <3>1 DEF UnpadLines
      <3>3. StackAfter(rsp, a) = rsp
        BY StillLine DEF emit_call, still_op
      <3>4. StackAfter(rsp, b) = rsp - 8
        BY AdjustLine
      <3> HIDE DEF a, b
      <3>5. <<a>> \o <<b>> = <<a, b>>
        BY ConcatTwo, Zenon
      <3>6. l = <<a, b>>
        BY <3>2, <3>5, Zenon DEF a
      <3>7. StackAfterAll(rsp, <<a, b>>) = rsp - 8
        BY <3>3, <3>4, EmittingTwo
      <3>8. rsp' = rsp - 8
        BY <2>1, <3>6, <3>7, Zenon
      <3> QED
        BY <1>1, <3>8
    <2> HIDE DEF x
    <2>4. BodyLines(rsp, l)
      BY <1>0, <2>2, <2>3, CallBody
    <2> QED
      BY <2>1, <2>4 DEF BodyEmits
  <1>12. CASE gen_assign
    <2>1. CASE UNCHANGED outVars
      BY <1>0, <2>1, NoEmit
    <2>2. CASE ~UNCHANGED outVars
      <3> DEFINE e == Top.node.target
      <3>1. /\ Running("AST_ASSIGN") /\ e.type = "AST_IDENTIFIER" /\ find_symbol(e.name) # NoSymbol
            /\ Emit(<<emit_mov(RAX, Place(e.name))>>)
        BY <1>2, <1>12, <2>2 DEF gen_assign
      <3>2. e \in Node /\ phase = "text"
        BY <1>0, <3>1, RunningTop DEF WellFormed
      <3>3. e.name \in Name
        BY <3>1, <3>2, ProgramsAssumption DEF WellFormed, Idents
      <3>4. Dest(Place(e.name))
        BY <1>0, <3>1, <3>2, <3>3, PlaceDest DEF Halted
      <3>5. Calm(emit_mov(RAX, Place(e.name)))
        BY <3>4, StraightEmits
      <3> QED
        BY <1>0, <3>1, <3>5, CalmEmit
    <2> QED
      BY <2>1, <2>2
  <1>13. CASE gen_cast
    BY <1>0, <1>13, NoEmit DEF gen_cast
  <1>14. CASE gen_unsupported
    BY <1>2, <1>14 DEF gen_unsupported
  <1> QED
    BY <1>3, <1>4, <1>5, <1>6, <1>7, <1>8, <1>9, <1>10, <1>11, <1>12, <1>13, <1>14 DEF gen_expr

LEMMA stmt_lines ==
  ASSUME TypeInv, SlotsInv, InBody, gen_stmt
  PROVE  BodyEmits
  <1>0. /\ IInv /\ FramesInv /\ out \in Seq(LineType) /\ Deep(rsp)
    BY DeepInBody DEF TypeInv, Inv, IInv
  <1>1. CASE UNCHANGED outVars
    BY <1>0, <1>1, NoEmit
  <1>2. CASE gen_var_decl /\ ~UNCHANGED outVars
    <2>1. Running("AST_VAR_DECL") /\ Top.at = 1 /\ Emit(<<store_local(Top.loc)>>)
      BY <1>2 DEF gen_var_decl
    <2>2. /\ frames # <<>> /\ Len(frames) \in 1..Len(frames) /\ Top = frames[Len(frames)]
          /\ Top.node.type = "AST_VAR_DECL" /\ Top.loc \in Int
      BY <1>0, <2>1, RunningTop, TopTyped
    <2>3. Top.loc <= -8
      BY <2>1, <2>2 DEF SlotsInv, Slotted
    <2>4. Calm(store_local(Top.loc))
      BY <2>2, <2>3, DestIs, StraightEmits DEF store_local
    <2> QED
      BY <1>0, <2>1, <2>4, CalmEmit
  <1>3. CASE gen_return /\ ~UNCHANGED outVars
    <2>1. Emit(<<jmp(epilogue_label)>>)
      BY <1>3 DEF gen_return
    <2> QED
      BY <1>0, <2>1, StraightLabel, CalmEmit
  <1>4. CASE gen_if /\ ~UNCHANGED outVars
    <2> DEFINE c == emit_cmp(mk_immutable(0), RAX)
               j == je(Top.loc)
               o == jmp(Top.loc + 1)
               a == Label(mk_local_label(Top.loc))
               b == Label(mk_local_label(Top.loc + 1))
    <2>1. Emit(<<c, j>>) \/ Emit(<<o, a>>) \/ Emit(<<o, a, b>>) \/ Emit(<<b>>)
      BY <1>4 DEF gen_if
    <2>2. Calm(c) /\ JumpLine(j) /\ JumpLine(o) /\ Calm(a) /\ Calm(b) /\ Calm(cqto)
      BY StraightEmits, StraightLabel
    <2> HIDE DEF c, j, o, a, b
    <2>3. /\ BodyLines(rsp, <<c, j>>) /\ BodyLines(rsp, <<o, a>>)
          /\ BodyLines(rsp, <<o, a, b>>) /\ BodyLines(rsp, <<b>>)
      BY <1>0, <2>2, CalmLines
    <2> QED
      BY <2>1, <2>3 DEF Emit, BodyEmits
  <1>5. CASE gen_block \/ gen_comment
    BY <1>1, <1>5 DEF gen_block, gen_comment
  <1> QED
    BY <1>1, <1>2, <1>3, <1>4, <1>5 DEF gen_stmt

\* The lines that open and close a function.
LEMMA PrologueZones ==
  ASSUME NEW S, NEW s \in Seq(S), NEW r, Zoned(s, "between", r), NEW x \in Name, NEW size \in Nat
  PROVE  LET l == Prologue(mk_label(x), size)
         IN Zoned(s \o l, "body", StackAfterAll(r, l))
  <1> DEFINE a == Directive(".globl", mk_label(x))
             b == Label(mk_label(x))
             c == emit_push(RBP)
             d == emit_mov(RSP, RBP)
             e == emit_sub(mk_immutable(size), RSP)
             p == Prologue(mk_label(x), size)
             T == {a, b, c, d, e}
             l0 == <<>>
             l1 == <<a>>
             l2 == <<a, b>>
             l3 == <<a, b, c>>
             l4 == <<a, b, c, d>>
             l5 == <<a, b, c, d, e>>
  <1>1. p = <<a, b, c, d>> \o (IF size > 0 THEN <<e>> ELSE <<>>)
    BY DEF Prologue
  <1>2. /\ StackAfter(r, a) = r /\ StackAfter(r, b) = 0 /\ StackAfter(0, c) = 8
        /\ StackAfter(8, d) = 8 /\ StackAfter(8, e) = 8 + size
    <2>1. StackAfter(r, a) = r
      BY StillLine DEF Directive, still_op
    <2>4. StackAfter(r, b) = 0
      BY LabelLine
    <2>2. StackAfter(0, c) = 8 /\ StackAfter(8, d) = 8
      BY PushLine, MovLine, NotRSP
    <2>3. StackAfter(8, e) = 8 + size
      BY AdjustLine
    <2> QED
      BY <2>1, <2>2, <2>3, <2>4
  <1>3. /\ a.op = ".globl" /\ b.op = "label" /\ b.dst.name # NoName
        /\ c = emit_push(RBP) /\ d = emit_mov(RSP, RBP) /\ StraightLine(e)
    <2>1. b.dst.name # NoName
      BY ProgramsAssumption DEF Label, Line, mk_label, NoOperand
    <2>2. StraightLine(e)
      BY StraightAdjust
    <2> QED
      BY <2>1, <2>2 DEF Directive, Label, Line
  <1>4. l0 \in Seq(T) /\ l1 \in Seq(T) /\ l2 \in Seq(T) /\ l3 \in Seq(T) /\ l4 \in Seq(T)
    OBVIOUS
  <1>5. /\ l1 = Append(l0, a) /\ l2 = Append(l1, b) /\ l3 = Append(l2, c)
        /\ l4 = Append(l3, d) /\ l5 = Append(l4, e)
    OBVIOUS
  <1>6. a \in T /\ b \in T /\ c \in T /\ d \in T /\ e \in T /\ s \o l0 = s
    BY ConcatEmptySeq
  <1>7. StackAfterAll(r, l4) = 8 /\ StackAfterAll(r, l5) = 8 + size
    BY <1>2, EmittingFour, EmittingFive
  <1>8. <<a, b, c, d>> \o <<>> = <<a, b, c, d>> /\ <<a, b, c, d>> \o <<e>> = <<a, b, c, d, e>>
    <2> HIDE DEF a, b, c, d, e, T, l0, l1, l2, l3, l4, l5, p
    <2>1. <<a, b, c, d>> \o <<>> = <<a, b, c, d>>
      BY ConcatNone, Zenon
    <2>2. <<a, b, c, d>> \o <<e>> = <<a, b, c, d, e>>
      BY ConcatLast, Zenon
    <2> QED
      BY <2>1, <2>2
  <1> HIDE DEF a, b, c, d, e, T
  <1>9. p = l4 \/ p = l5
    BY <1>1, <1>8, Zenon
  <1> HIDE DEF l0, l1, l2, l3, l4, l5, p
  <1>10. /\ Adds(s \o l0, s \o l1, a) /\ Adds(s \o l1, s \o l2, b) /\ Adds(s \o l2, s \o l3, c)
         /\ Adds(s \o l3, s \o l4, d) /\ Adds(s \o l4, s \o l5, e)
    BY <1>4, <1>5, <1>6, AppendAdds
  <1>11. Zoned(s \o l1, "globl", r)
    <2>1. ZoneAfter("between", a) = "globl" /\ Belongs(a, "between", r) /\ DeepAt("globl", r)
      BY <1>3 DEF ZoneAfter, Belongs, DeepAt
    <2> QED
      BY <1>2, <1>6, <1>10, <2>1, ZonedLine
  <1>12. Zoned(s \o l2, "entry", 0)
    <2>1. ZoneAfter("globl", b) = "entry" /\ Belongs(b, "globl", r) /\ DeepAt("entry", 0)
      BY <1>3 DEF ZoneAfter, Belongs, DeepAt
    <2> QED
      BY <1>2, <1>10, <1>11, <2>1, ZonedLine
  <1>13. Zoned(s \o l3, "saved", 8)
    <2>1. ZoneAfter("entry", c) = "saved" /\ Belongs(c, "entry", 0) /\ DeepAt("saved", 8)
      BY <1>3 DEF ZoneAfter, Belongs, DeepAt
    <2> QED
      BY <1>2, <1>10, <1>12, <2>1, ZonedLine
  <1>14. Zoned(s \o l4, "body", 8)
    <2>1. ZoneAfter("saved", d) = "body" /\ Belongs(d, "saved", 8) /\ DeepAt("body", 8)
      BY <1>3 DEF ZoneAfter, Belongs, DeepAt, Deep
    <2> QED
      BY <1>2, <1>10, <1>13, <2>1, ZonedLine
  <1>15. Zoned(s \o l5, "body", 8 + size)
    BY <1>2, <1>3, <1>10, <1>14, BodyGoesOn DEF Deep, BodyLine
  <1>16. Zoned(s \o p, "body", StackAfterAll(r, p))
    BY <1>7, <1>9, <1>14, <1>15
  <1> QED
    BY <1>16 DEF p

LEMMA EpilogueZones ==
  ASSUME NEW S, NEW s \in Seq(S), NEW r, Deep(r), Zoned(s, "body", r), NEW m
  PROVE  Zoned(s \o Epilogue(m), "between", StackAfterAll(r, Epilogue(m)))
  <1> DEFINE a == Label(mk_local_label(m))
             b == emit_mov(RBP, RSP)
             c == emit_pop(RBP)
             d == ret
             p == Epilogue(m)
             T == {a, b, c, d}
             l0 == <<>>
             l1 == <<a>>
             l2 == <<a, b>>
             l3 == <<a, b, c>>
             l4 == <<a, b, c, d>>
  <1>1. p = l4
    BY DEF Epilogue
  <1>2. /\ StackAfter(r, a) = r /\ StackAfter(r, b) = 8 /\ StackAfter(8, c) = 0
        /\ StackAfter(0, d) = 0 /\ Calm(a)
    <2>1. Calm(a)
      BY StraightLabel
    <2>2. StackAfter(r, b) = 8 /\ StackAfter(8, c) = 0
      BY RestoreLine, PopLine
    <2>3. StackAfter(0, d) = 0
      BY StillLine DEF ret, still_op
    <2> QED
      BY <2>1, <2>2, <2>3 DEF Calm
  <1>3. b = emit_mov(RBP, RSP) /\ c = emit_pop(RBP) /\ d = ret
    OBVIOUS
  <1>4. l0 \in Seq(T) /\ l1 \in Seq(T) /\ l2 \in Seq(T) /\ l3 \in Seq(T)
    OBVIOUS
  <1>5. l1 = Append(l0, a) /\ l2 = Append(l1, b) /\ l3 = Append(l2, c) /\ l4 = Append(l3, d)
    OBVIOUS
  <1>6. a \in T /\ b \in T /\ c \in T /\ d \in T /\ s \o l0 = s
    BY ConcatEmptySeq
  <1>7. StackAfterAll(r, l4) = 0
    BY <1>2, EmittingFour
  <1> HIDE DEF a, b, c, d, T, l0, l1, l2, l3, l4, p
  <1>8. /\ Adds(s \o l0, s \o l1, a) /\ Adds(s \o l1, s \o l2, b) /\ Adds(s \o l2, s \o l3, c)
        /\ Adds(s \o l3, s \o l4, d)
    BY <1>4, <1>5, <1>6, AppendAdds
  <1>9. Zoned(s \o l1, "body", r)
    BY <1>2, <1>6, <1>8, BodyGoesOn DEF Calm, BodyLine
  <1>10. Zoned(s \o l2, "left", 8)
    <2>1. ZoneAfter("body", b) = "left" /\ Belongs(b, "body", r) /\ DeepAt("left", 8)
      BY <1>3 DEF ZoneAfter, Belongs, DeepAt
    <2> QED
      BY <1>2, <1>8, <1>9, <2>1, ZonedLine
  <1>11. Zoned(s \o l3, "exit", 0)
    <2>1. ZoneAfter("left", c) = "exit" /\ Belongs(c, "left", 8) /\ DeepAt("exit", 0)
      BY <1>3 DEF ZoneAfter, Belongs, DeepAt
    <2> QED
      BY <1>2, <1>8, <1>10, <2>1, ZonedLine
  <1>12. Zoned(s \o l4, "between", 0)
    <2>1. ZoneAfter("exit", d) = "between" /\ Belongs(d, "exit", 0) /\ DeepAt("between", 0)
      BY <1>3 DEF ZoneAfter, Belongs, DeepAt
    <2> QED
      BY <1>2, <1>8, <1>11, <2>1, ZonedLine
  <1>13. Zoned(s \o p, "between", StackAfterAll(r, p))
    BY <1>1, <1>7, <1>12
  <1> QED
    BY <1>13 DEF p

LEMMA expr_zones ==
  ASSUME TypeInv, TypeInv', SpaceInv, ScopesInv, ZoneInv, gen_expr
  PROVE  ZoneInv'
  <1>1. CASE std_compile_error
    BY <1>1 DEF std_compile_error, ZoneInv
  <1>2. CASE ~std_compile_error
    <2>1. PICK ty : Silently(ty)
      BY <1>2, expr_silent
    <2>2. IInv /\ out \in Seq(LineType)
      BY DEF TypeInv, Inv
    <2>3. InBody /\ InBody' /\ phase # "error"
      BY <2>1, <2>2, MovesInBody, RunningTop DEF Silently
    <2>4. BodyEmits
      BY <1>2, <2>3, expr_lines
    <2> QED
      BY <2>2, <2>3, <2>4, ZonesBody
  <1> QED
    BY <1>1, <1>2

LEMMA stmt_moves ==
  ASSUME TypeInv, TypeInv', gen_stmt
  PROVE  \E ty : Running(ty) /\ ty # "AST_FUNC_DECL" /\ Moves
  <1>1. Fresh \in Int /\ IInv
    BY DEF Fresh, TypeInv, Inv
  <1>2. CASE gen_var_decl \/ gen_block \/ gen_comment
    BY <1>2, stmt_silent DEF Silently
  <1>3. CASE gen_return
    BY <1>1, <1>3 DEF gen_return, Moves
  <1>4. CASE gen_if
    <2>1. /\ Running("AST_IF")
          /\ Descend(label_count, push_depth) \/ Descend(Top.loc, push_depth) \/ Return
      BY <1>4 DEF gen_if
    <2>2. label_count \in Int /\ Top.loc \in Int
      BY <1>1, <2>1, RunningTop DEF TypeInv, Inv, ScopeInv
    <2> QED
      BY <2>1, <2>2 DEF Moves
  <1> QED
    BY <1>2, <1>3, <1>4 DEF gen_stmt

LEMMA stmt_zones ==
  ASSUME TypeInv, TypeInv', SlotsInv, ZoneInv, gen_stmt
  PROVE  ZoneInv'
  <1>1. IInv /\ out \in Seq(LineType)
    BY DEF TypeInv, Inv
  <1>2. PICK ty : Running(ty) /\ ty # "AST_FUNC_DECL" /\ Moves
    BY stmt_moves
  <1>3. InBody /\ InBody' /\ phase # "error"
    BY <1>1, <1>2, MovesInBody, RunningTop
  <1>4. BodyEmits
    BY <1>3, stmt_lines
  <1> QED
    BY <1>1, <1>3, <1>4, ZonesBody

LEMMA func_zones ==
  ASSUME TypeInv, TypeInv', SpaceInv, ZoneInv, gen_func_decl
  PROVE  ZoneInv'
  <1>1. Running("AST_FUNC_DECL")
    BY DEF gen_func_decl, gen_func_enter, gen_func_param, gen_func_stmt, gen_func_return
  <1>2. /\ Inv /\ IInv /\ FramesInv /\ out \in Seq(LineType) /\ Fresh \in Int /\ 0 \in Int
        /\ 0 # Fresh
    BY DEF TypeInv, Inv, IInv, Fresh
  <1>3. /\ phase = "text" /\ frames # <<>> /\ Top \in frame_t /\ WellFormed(Top.node)
        /\ Top.node.type = "AST_FUNC_DECL" /\ Top.loc \in Int
    BY <1>1, <1>2, RunningTop DEF Running
  <1>4. frames \in Seq(frame_t) /\ Len(frames) = 1 /\ Top = frames[1]
    BY <1>2, <1>3, TopTyped DEF FramesInv
  <1>5. InBody <=> Top.loc # Fresh
    BY <1>3, <1>4 DEF InBody
  <1>6. ASSUME NEW l \in Int, SetLoc(l)
        PROVE  InBody' <=> l # Fresh
    <2> DEFINE t == [Top EXCEPT !.loc = l]
    <2>1. t = [Top EXCEPT !.loc = l]
      OBVIOUS
    <2> HIDE DEF t
    <2>2. t \in frame_t /\ t.loc = l /\ frames' = [frames EXCEPT ![Len(frames)] = t]
      BY <1>2, <1>3, <1>6, <2>1, SettingLoc
    <2>3. Len(frames') = 1 /\ frames'[1] = t
      BY <1>4, <2>2, ReplaceLast
    <2> QED
      BY <2>2, <2>3 DEF InBody
  <1>7. CASE gen_func_enter
    <2> DEFINE x == Top.node.func_t.ident.name
               size == compute_frame_size(Top.node)
    <2>1. Top.loc = Fresh /\ Emit(Prologue(mk_label(x), size)) /\ SetLoc(0)
      BY <1>7 DEF gen_func_enter
    <2>2. x \in Name
      BY <1>3 DEF WellFormed, Idents
    <2>3. Top.node \in Node
      BY <1>3 DEF frame_t
    <2>4. size \in Nat
      BY <1>3, <2>3, FrameSizeRounded
    <2>5. InBody' /\ ~InBody
      BY <1>2, <1>5, <1>6, <2>1
    <2>6. Zoned(out, "between", rsp)
      BY <1>3, <2>5 DEF ZoneInv, ZoneNow
    <2> HIDE DEF x, size, LineType
    <2>7. Zoned(out', "body", rsp')
      BY <1>2, <2>1, <2>2, <2>4, <2>6, PrologueZones DEF Emit
    <2> QED
      BY <2>5, <2>7 DEF ZoneInv, ZoneNow
  <1>8. CASE gen_func_param
    <2>1. CASE std_compile_error
      BY <2>1 DEF std_compile_error, ZoneInv
    <2>2. CASE ~std_compile_error
      <3>1. /\ Top.loc \in 0..Len(Top.node.func_t.params) - 1
            /\ SetLoc(Top.loc + 1) /\ cur_offset' = cur_offset - 8
            /\ \E r : Emit(<<emit_mov(mk_register(r, "SZ_64"), Slot(cur_offset'))>>)
        BY <1>8, <2>2 DEF gen_func_param, define_local
      <3>2. Top.loc + 1 \in Int /\ Top.loc + 1 # Fresh /\ Top.loc # Fresh
        BY <1>3, <3>1 DEF Fresh, WellFormed
      <3>3. InBody /\ InBody' /\ Deep(rsp)
        BY <1>2, <1>5, <1>6, <3>1, <3>2, DeepInBody
      <3>4. PICK r : Emit(<<emit_mov(mk_register(r, "SZ_64"), Slot(cur_offset'))>>)
        BY <3>1
      <3>5. cur_offset' \in Int /\ cur_offset' <= -8
        BY <3>1, OffsetBelow
      <3>6. Calm(emit_mov(mk_register(r, "SZ_64"), Slot(cur_offset')))
        BY <3>5, DestIs, StraightEmits
      <3>7. BodyEmits
        BY <3>3, <3>4, <3>6, CalmEmit
      <3> QED
        BY <1>2, <1>3, <3>3, <3>7, ZonesBody
    <2> QED
      BY <2>1, <2>2
  <1>9. CASE gen_func_stmt
    <2>1. AllParams /\ UNCHANGED outVars /\ Descend(Top.loc, push_depth)
      BY <1>9 DEF gen_func_stmt
    <2>2. Top.loc # Fresh
      BY <1>3, <2>1 DEF AllParams, WellFormed, Fresh
    <2>3. InBody /\ InBody'
      <3>0. PICK l \in Int : l = Top.loc /\ Descend(l, push_depth)
        BY <1>3, <2>1
      <3>1. /\ Len(frames') = Len(frames) + 1
            /\ \A k \in 1..Len(frames) :
                 frames'[k] = IF k = Len(frames)
                                THEN [Top EXCEPT !.at = @ + 1, !.loc = l]
                                ELSE frames[k]
        BY ONLY <1>2, <1>3, <3>0, DescendShape
      <3>2. Len(frames') = 2 /\ frames'[1] = [Top EXCEPT !.at = @ + 1, !.loc = l]
        BY <1>4, <3>1
      <3>3. frames'[1].loc = Top.loc
        BY <1>3, <3>0, <3>2 DEF frame_t
      <3> QED
        BY <1>5, <2>2, <3>2, <3>3 DEF InBody
    <2>4. BodyEmits
      BY <1>2, <2>1, <2>3, NoEmit, DeepInBody
    <2> QED
      BY <1>2, <1>3, <2>3, <2>4, ZonesBody
  <1>10. CASE gen_func_return
    <2>1. AllParams /\ Emit(Epilogue(epilogue_label)) /\ Return
      BY <1>10 DEF gen_func_return
    <2>2. Top.loc # Fresh
      BY <1>3, <2>1 DEF AllParams, WellFormed, Fresh
    <2>3. InBody /\ Deep(rsp) /\ Zoned(out, "body", rsp)
      BY <1>2, <1>3, <1>5, <2>2, DeepInBody DEF ZoneInv, ZoneNow
    <2>4. ~InBody'
      <3>0. Len(frames) > 0 /\ frames' = Front(frames)
        BY <1>4, <2>1 DEF Return
      <3>1. frames' \in Seq(frame_t) /\ Len(frames') = Len(frames) - 1
        BY <1>4, <3>0, RemoveLast
      <3>2. frames' \in Seq(frame_t) /\ Len(frames') = 0
        BY <1>4, <3>1
      <3> QED
        BY <3>2 DEF InBody
    <2>5. phase' # "data"
      BY <1>3, <1>10 DEF gen_func_return, walkVars
    <2> HIDE DEF LineType
    <2>6. Zoned(out', "between", rsp')
      BY <1>2, <2>1, <2>3, EpilogueZones DEF Emit
    <2> QED
      BY <2>4, <2>5, <2>6 DEF ZoneInv, ZoneNow
  <1> QED
    BY <1>7, <1>8, <1>9, <1>10 DEF gen_func_decl

\* One line, or two, outside the functions.
LEMMA OutsideLine ==
  ASSUME NEW S, NEW s \in Seq(S), NEW r, NEW q, Zoned(s, q, r), NEW a,
         Belongs(a, q, r), DeepAt(ZoneAfter(q, a), StackAfter(r, a))
  PROVE  Zoned(s \o <<a>>, ZoneAfter(q, a), StackAfter(r, a))
  <1> DEFINE T == {a}
             l0 == <<>>
             l1 == <<a>>
  <1>1. l0 \in Seq(T) /\ l1 = Append(l0, a) /\ a \in T /\ s \o l0 = s
    BY ConcatEmptySeq
  <1> HIDE DEF T, l0, l1
  <1>2. Adds(s \o l0, s \o l1, a)
    BY <1>1, AppendAdds
  <1>3. Zoned(s \o l1, ZoneAfter(q, a), StackAfter(r, a))
    BY <1>1, <1>2, ZonedLine
  <1> QED
    BY <1>3 DEF l1

LEMMA DatumLines ==
  ASSUME NEW S, NEW s \in Seq(S), NEW r, Zoned(s, "data", r), NEW a, NEW b,
         a.op = "label", a.dst.name # NoName, IsDatum(b)
  PROVE  Zoned(s \o <<a, b>>, "data", StackAfter(StackAfter(r, a), b))
  <1> DEFINE T == {a, b}
             l0 == <<>>
             l1 == <<a>>
             l2 == <<a, b>>
  <1>1. /\ l0 \in Seq(T) /\ l1 = Append(l0, a) /\ a \in T /\ b \in T /\ s \o l0 = s
        /\ l1 \in Seq(T) /\ l2 = Append(l1, b)
    BY ConcatEmptySeq
  <1> HIDE DEF T, l0, l1, l2
  <1>2. Adds(s \o l0, s \o l1, a) /\ Adds(s \o l1, s \o l2, b)
    BY <1>1, AppendAdds
  <1>3. /\ ZoneAfter("data", a) = "datum" /\ ZoneAfter("datum", b) = "data"
        /\ Belongs(a, "data", r) /\ \A x : DeepAt("datum", x) /\ DeepAt("data", x)
        /\ \A x : Belongs(b, "datum", x)
    BY DEF ZoneAfter, Belongs, DeepAt
  <1>4. Zoned(s \o l1, "datum", StackAfter(r, a))
    BY <1>1, <1>2, <1>3, ZonedLine
  <1>5. Zoned(s \o l2, "data", StackAfter(StackAfter(r, a), b))
    BY <1>2, <1>3, <1>4, ZonedLine
  <1> QED
    BY <1>5 DEF l2

LEMMA program_zones ==
  ASSUME TypeInv, TypeInv', ZoneInv, gen_program
  PROVE  ZoneInv'
  <1>0. /\ IInv /\ out \in Seq(LineType) /\ frames = <<>> /\ ~InBody'
        /\ phase \in {"start", "data", "text"}
    BY program_outside
    DEF TypeInv, Inv, IInv, WalkInv, gen_program, StartData, DataStep, DataSkip, StartText,
        TextStep, FinishProgram
  <1>1. ~InBody /\ Zoned(out, IF phase = "data" THEN "data" ELSE "between", rsp)
    BY <1>0 DEF InBody, ZoneInv, ZoneNow
  <1>2. CASE StartData
    <2> DEFINE a == Directive(".data", NoOperand)
    <2>1. phase = "start" /\ phase' = "data" /\ Emit(<<a>>)
      BY <1>2 DEF StartData
    <2>2. /\ Belongs(a, "between", rsp) /\ ZoneAfter("between", a) = "data"
          /\ \A x : DeepAt("data", x)
      BY DEF Belongs, ZoneAfter, DeepAt, Directive, Line
    <2> HIDE DEF a, LineType
    <2>3. Zoned(out \o <<a>>, "data", StackAfter(rsp, a))
      BY <1>0, <1>1, <2>1, <2>2, OutsideLine
    <2> QED
      BY <1>0, <2>1, <2>3, EmittingOne DEF Emit, ZoneInv, ZoneNow
  <1>3. CASE StartText
    <2> DEFINE a == Directive(".text", NoOperand)
    <2>1. phase' = "text" /\ Emit(<<a>>)
      BY <1>3 DEF StartText
    <2>2. ASSUME NEW q \in {"between", "data"}
          PROVE  /\ Belongs(a, q, rsp) /\ ZoneAfter(q, a) = "between"
                 /\ \A x : DeepAt("between", x)
      BY DEF Belongs, ZoneAfter, DeepAt, Directive, Line
    <2> HIDE DEF a, LineType
    <2>3. Zoned(out \o <<a>>, "between", StackAfter(rsp, a))
      <3>1. PICK q \in {"between", "data"} : Zoned(out, q, rsp)
        BY <1>1
      <3> QED
        BY <1>0, <2>2, <3>1, OutsideLine
    <2> QED
      BY <1>0, <2>1, <2>3, EmittingOne DEF Emit, ZoneInv, ZoneNow
  <1>4. CASE DataStep
    <2> DEFINE n == program[i]
               d == directive_of(type_size(n.var_t))
    <2>1. n.ident.name \in Name
      <3>1. n.type = "AST_VAR_DECL" /\ i \in 1..Len(program)
        BY <1>0, <1>4 DEF DataStep, IsGlobal, IInv, WalkInv
      <3>2. program \in Seq(Node)
        BY <1>0, ProgramsAssumption DEF IInv, WalkInv
      <3>3. n \in Node
        BY ONLY <3>1, <3>2
      <3>4. \A id \in Idents(n) : id.name \in Name
        BY <3>3, ProgramsAssumption DEF WellFormed
      <3>5. n.ident \in Idents(n)
        BY ONLY <3>1 DEF Idents
      <3> QED
        BY ONLY <3>4, <3>5
    <2>2. d \in {".byte", ".word", ".long", ".quad"}
      BY DEF directive_of, type_size
    <2>3. PICK v : Emit(<<Label(mk_label(n.ident.name)), Directive(d, v)>>)
      BY <1>4 DEF DataStep, gen_global
    <2> DEFINE a == Label(mk_label(n.ident.name))
               b == Directive(d, v)
    <2>4. a.op = "label" /\ a.dst.name # NoName /\ IsDatum(b) /\ Emit(<<a, b>>)
      BY <2>1, <2>2, <2>3, ProgramsAssumption
      DEF Label, Directive, Line, mk_label, NoOperand, IsDatum
    <2>5. phase = "data" /\ phase' = "data"
      BY <1>4 DEF DataStep
    <2> HIDE DEF a, b, LineType
    <2>6. Zoned(out \o <<a, b>>, "data", StackAfter(StackAfter(rsp, a), b))
      BY <1>0, <1>1, <2>4, <2>5, DatumLines
    <2> QED
      BY <1>0, <2>4, <2>5, <2>6, EmittingTwo DEF Emit, ZoneInv, ZoneNow
  <1>5. CASE DataSkip \/ TextStep \/ FinishProgram
    <2>1. /\ out' = out /\ rsp' = rsp
          /\ (phase = "data" <=> phase' = "data")
      BY <1>5 DEF DataSkip, TextStep, FinishProgram, outVars
    <2> QED
      BY <1>0, <1>1, <2>1 DEF ZoneInv, ZoneNow
  <1> QED
    BY <1>2, <1>3, <1>4, <1>5 DEF gen_program

LEMMA ZonesKept ==
  ASSUME TypeInv, TypeInv', SpaceInv, ScopesInv, SlotsInv, ZoneInv, [Next]_vars
  PROVE  ZoneInv'
  <1>1. CASE UNCHANGED vars
    BY <1>1 DEF vars, walkVars, outVars, ZoneInv, ZoneNow, InBody
  <1> QED
    BY <1>1, expr_zones, stmt_zones, func_zones, program_zones DEF Next, Generate, Terminated

LEMMA ZonesBegin == Init => ZoneInv /\ SlotsInv
  <1> SUFFICES ASSUME Init
               PROVE  ZoneInv /\ SlotsInv
    OBVIOUS
  <1>1. out = <<>> /\ rsp = 0 /\ frames = <<>> /\ phase = "start"
    BY DEF Init
  <1> DEFINE h == [k \in {1} |-> 0]
             z == [k \in {1} |-> "between"]
  <1>2. h[1] = 0 /\ z[1] = "between"
    OBVIOUS
  <1> HIDE DEF h, z
  <1>3. Laid(<<>>, z, h) /\ Len(<<>>) = 0
    BY <1>2 DEF Laid
  <1>4. Zoned(<<>>, "between", 0)
    BY <1>2, <1>3 DEF Zoned
  <1> QED
    BY <1>1, <1>4 DEF ZoneInv, ZoneNow, SlotsInv, InBody

-----------------------------------------------------------------------------
(* What one line does to the machine *)

IsMachine(m) ==
  /\ DOMAIN m = {"pc", "reg", "stack", "data", "flags", "status"}
  /\ DOMAIN m.reg = regid
  /\ DOMAIN m.stack = 1..StackWords

Sp(m) == m.reg["REG_RSP"]
Fp(m) == m.reg["REG_RBP"]

\* The words from address a up are as they were.
Spared(m, n, a) == \A k \in 1..StackWords : k <= At(a) => n.stack[k] = m.stack[k]

\* %rsp is d lower, %rbp and the words from it up are as they were.
Passes(m, n, d) ==
  /\ IsMachine(n)
  /\ n.pc = m.pc
  /\ n.status \in {m.status, "trap"}
  /\ Sp(n) = Sp(m) - d
  /\ Fp(n) = Fp(m)
  /\ Spared(m, n, Fp(m))

LEMMA AtBelow ==
  ASSUME NEW a \in Int, NEW b \in Int
  PROVE  /\ At(a) \in Int
         /\ a <= b - 8 => At(b) + 1 <= At(a)
         /\ a <= b => At(b) <= At(a)
         /\ At(b - 8) = At(b) + 1
  <1>1. \A x, y \in Int : y >= x + 8 => y \div 8 >= x \div 8 + 1
    OBVIOUS
  <1>2. \A x, y \in Int : y >= x => y \div 8 >= x \div 8
    OBVIOUS
  <1>3. \A x \in Int : (x + 8) \div 8 = x \div 8 + 1
    OBVIOUS
  <1>4. -a \in Int /\ -b \in Int /\ -(b - 8) = -b + 8
    OBVIOUS
  <1> QED
    BY <1>1, <1>2, <1>3, <1>4 DEF At

LEMMA StoreSpares ==
  ASSUME NEW m, IsMachine(m), Fp(m) \in Int, NEW o, Dest(o), NEW code, NEW v, NEW n,
         n = Store(code, m, o, v)
  PROVE  Passes(m, n, 0) \/ Sp(m) \notin Int
  <1> SUFFICES ASSUME Sp(m) \in Int
               PROVE  Passes(m, n, 0)
    OBVIOUS
  <1>1. "REG_RSP" \in regid /\ "REG_RBP" \in regid /\ Sp(m) - 0 = Sp(m)
    BY DEF regid
  <1>2. CASE o.kind = "OP_REG" /\ o.id \in regid \ {"REG_RSP", "REG_RBP"}
    <2>1. n = [m EXCEPT !.reg[o.id] = v]
      BY <1>2 DEF Store
    <2> QED
      BY <1>1, <1>2, <2>1 DEF Passes, Spared, IsMachine, Sp, Fp
  <1>3. CASE o.kind = "OP_MEM" /\ o.id = "REG_RBP" /\ o.num \in Int /\ o.num <= -8
    <2> DEFINE c == At(m.reg[o.id] + o.num)
    <2>1. n = [m EXCEPT !.stack[c] = v]
      BY <1>3 DEF Store
    <2>2. At(Fp(m)) + 1 <= c /\ c \in Int /\ At(Fp(m)) \in Int
      <3>1. Fp(m) + o.num \in Int /\ Fp(m) + o.num <= Fp(m) - 8
        BY <1>3
      <3> QED
        BY <1>3, <3>1, AtBelow DEF Fp
    <2> HIDE DEF c
    <2>3. n.stack = [m.stack EXCEPT ![c] = v] /\ n.reg = m.reg /\ n.pc = m.pc /\ n.status = m.status
      BY <2>1 DEF IsMachine
    <2>4. IsMachine(n)
      BY <2>1, <2>3 DEF IsMachine
    <2>5. ASSUME NEW k \in 1..StackWords, k <= At(Fp(m))
          PROVE  n.stack[k] = m.stack[k]
      <3>1. k # c
        BY <2>2, <2>5, StackAssumption
      <3> QED
        BY <2>3, <3>1 DEF IsMachine
    <2> QED
      BY <1>1, <2>3, <2>4, <2>5 DEF Passes, Spared, Sp, Fp
  <1>4. CASE o.kind = "OP_RIP"
    <2>1. PICK d : n = [m EXCEPT !.data = d]
      BY <1>4 DEF Store
    <2> QED
      BY <1>1, <2>1 DEF Passes, Spared, IsMachine, Sp, Fp
  <1> QED
    BY <1>2, <1>3, <1>4 DEF Dest

\* What a line that writes its second operand does.
LEMMA ExecutePuts ==
  ASSUME NEW code, NEW m, NEW x, x.op \in dest_op \ {"pop"}
  PROVE  \E v : Execute(code, m, x) = Store(code, m, x.dst, v)
  <1>1. CASE x.op = "mov"
    BY <1>1 DEF Execute
  <1>2. CASE x.op = "lea"
    BY <1>2 DEF Execute
  <1>3. CASE x.op = "imul"
    BY <1>3 DEF Execute
  <1>4. CASE x.op = "neg"
    BY <1>4 DEF Execute
  <1>5. CASE x.op = "movzb"
    BY <1>5 DEF Execute
  <1>6. CASE x.op = "add"
    BY <1>6 DEF Execute
  <1>7. CASE x.op = "sub"
    BY <1>7 DEF Execute
  <1>8. CASE x.op \in set_op
    BY <1>8 DEF Execute, set_op
  <1> QED
    BY <1>1, <1>2, <1>3, <1>4, <1>5, <1>6, <1>7, <1>8 DEF dest_op

LEMMA DestNotRSP ==
  ASSUME NEW x, Dest(x.dst), NEW r
  PROVE  /\ x.op \in dest_op \ {"pop"} => StackAfter(r, x) = r
         /\ x.op = "pop" => StackAfter(r, x) = r - 8
  <1>1. x.dst # RSP
    BY DestIs
  <1> QED
    BY <1>1 DEF StackAfter, dest_op, set_op

LEMMA ExecuteStraight ==
  ASSUME NEW code, NEW m, IsMachine(m), Sp(m) \in Int, Fp(m) \in Int, Sp(m) <= Fp(m),
         NEW x, StraightLine(x),
         x.op \in {"add", "sub"} /\ x.src.kind = "OP_IMM" => Wrap(x.src.num) = x.src.num,
         NEW r \in Int, NEW n, n = Execute(code, m, x)
  PROVE  Passes(m, n, StackAfter(r, x) - r)
  <1>0. "REG_RSP" \in regid /\ "REG_RBP" \in regid /\ r - r = 0 /\ r - 8 - r = -8
        /\ "REG_RAX" \in regid /\ "REG_RDX" \in regid /\ r + 8 - r = 8
        /\ Sp(m) - 0 = Sp(m)
    BY DEF regid
  <1>1. CASE x.op \in dest_op \ {"pop"} /\ Dest(x.dst)
    <2>1. PICK v : n = Store(code, m, x.dst, v)
      BY <1>1, ExecutePuts
    <2>2. StackAfter(r, x) - r = 0
      BY <1>0, <1>1, DestNotRSP
    <2> QED
      BY <1>1, <2>1, <2>2, StoreSpares
  <1>2. CASE x.op = "pop" /\ Dest(x.dst)
    <2> DEFINE q == [m EXCEPT !.reg["REG_RSP"] = Sp(m) + 8]
    <2>1. n = Store(code, q, x.dst, m.stack[At(Sp(m))])
      BY <1>2 DEF Execute, Pop, Sp
    <2>2. /\ IsMachine(q) /\ Sp(q) = Sp(m) + 8 /\ Fp(q) = Fp(m) /\ q.pc = m.pc
          /\ q.status = m.status /\ q.stack = m.stack
      BY <1>0 DEF IsMachine, Sp, Fp
    <2> HIDE DEF q
    <2>3. Passes(q, n, 0)
      <3>1. Sp(q) \in Int /\ Fp(q) \in Int
        BY <2>2
      <3> QED
        BY <1>2, <2>1, <2>2, <3>1, StoreSpares
    <2>4. StackAfter(r, x) - r = -8
      BY <1>0, <1>2, DestNotRSP
    <2>5. Sp(q) - 0 = Sp(m) - (-8)
      BY <2>2
    <2> QED
      BY <2>2, <2>3, <2>4, <2>5 DEF Passes, Spared
  <1>3. CASE x.op \in {"add", "sub"} /\ x.dst = RSP /\ x.src.kind = "OP_IMM" /\ x.src.num \in Int
    <2> DEFINE k == x.src.num
    <2>1. Load(code, m, x.src) = k /\ Load(code, m, x.dst) = Sp(m)
      BY <1>3 DEF Load, Sp, RSP, mk_register, NoOperand
    <2>2. \A v : Store(code, m, x.dst, v) = [m EXCEPT !.reg["REG_RSP"] = v]
      BY <1>3 DEF Store, RSP, mk_register, NoOperand
    <2>3. /\ x.op = "add" => n = [m EXCEPT !.reg["REG_RSP"] = Sp(m) + k]
          /\ x.op = "sub" => n = [m EXCEPT !.reg["REG_RSP"] = Sp(m) - k]
      BY <1>3, <2>1, <2>2 DEF Execute, Sum
    <2>4. /\ x.op = "add" => StackAfter(r, x) - r = -k
          /\ x.op = "sub" => StackAfter(r, x) - r = k
      BY <1>3 DEF StackAfter
    <2>5. ASSUME NEW v, n = [m EXCEPT !.reg["REG_RSP"] = v]
          PROVE  /\ IsMachine(n) /\ Sp(n) = v /\ Fp(n) = Fp(m) /\ n.pc = m.pc
                 /\ n.status = m.status /\ n.stack = m.stack
      BY <1>0, <2>5 DEF IsMachine, Sp, Fp
    <2>6. CASE x.op = "add"
      <3>0. \A a, b \in Int : a - (-b) = a + b
        OBVIOUS
      <3>1. Sp(n) = Sp(m) + k /\ k \in Int
        BY <1>3, <2>3, <2>5, <2>6
      <3>2. Sp(n) = Sp(m) - (-k)
        BY <3>0, <3>1
      <3> QED
        BY <2>3, <2>4, <2>5, <2>6, <3>2 DEF Passes, Spared
    <2>7. CASE x.op = "sub"
      BY <2>3, <2>4, <2>5, <2>7 DEF Passes, Spared
    <2> QED
      BY <1>3, <2>6, <2>7
  <1>4. CASE x.op = "push"
    <2> DEFINE a == Sp(m) - 8
    <2>1. PICK v : n = [m EXCEPT !.reg["REG_RSP"] = a, !.stack[At(a)] = v]
      BY <1>4 DEF Execute, Push, Sp
    <2>2. a \in Int /\ At(a) \in Int /\ At(Fp(m)) \in Int /\ At(Fp(m)) + 1 <= At(a)
      <3>1. PICK s \in Int, f \in Int : s = Sp(m) /\ f = Fp(m) /\ s <= f
        OBVIOUS
      <3>2. s - 8 \in Int /\ s - 8 <= f - 8
        BY <3>1
      <3> QED
        BY <3>1, <3>2, AtBelow
    <2>3. StackAfter(r, x) - r = 8
      BY <1>0, <1>4 DEF StackAfter
    <2> HIDE DEF a
    <2>4. /\ n.stack = [m.stack EXCEPT ![At(a)] = v] /\ n.pc = m.pc /\ n.status = m.status
          /\ n.reg = [m.reg EXCEPT !["REG_RSP"] = a] /\ DOMAIN n = DOMAIN m
      BY <2>1 DEF IsMachine
    <2>5. IsMachine(n) /\ Sp(n) = a /\ Fp(n) = Fp(m)
      BY <1>0, <2>4 DEF IsMachine, Sp, Fp
    <2>6. ASSUME NEW k \in 1..StackWords, k <= At(Fp(m))
          PROVE  n.stack[k] = m.stack[k]
      <3>1. k # At(a)
        BY <2>2, <2>6, StackAssumption
      <3> QED
        BY <2>4, <3>1 DEF IsMachine
    <2> QED
      BY <2>3, <2>4, <2>5, <2>6 DEF Passes, Spared, a
  <1>5. CASE x.op \in {"cmp", "cqto", "idiv", "label"} /\ (x.op = "label" => x.dst.name = NoName)
    <2>1. StackAfter(r, x) - r = 0
      BY <1>0, <1>5, ProgramsAssumption DEF StackAfter
    <2>2. \/ n = m
          \/ \E v : n = [m EXCEPT !.flags = v]
          \/ \E v : n = [m EXCEPT !.reg["REG_RDX"] = v]
          \/ \E v, w : n = [m EXCEPT !.reg["REG_RAX"] = v, !.reg["REG_RDX"] = w]
          \/ n = [m EXCEPT !.status = "trap"]
      <3>1. CASE x.op = "cmp"
        BY <3>1 DEF Execute
      <3>2. CASE x.op = "cqto"
        BY <3>2 DEF Execute
      <3>3. CASE x.op = "idiv"
        BY <3>3 DEF Execute, Divide
      <3>4. CASE x.op = "label"
        BY <3>4 DEF Execute
      <3> QED
        BY <1>5, <3>1, <3>2, <3>3, <3>4
    <2>3. /\ IsMachine(n) /\ Sp(n) = Sp(m) /\ Fp(n) = Fp(m) /\ n.pc = m.pc
          /\ n.status \in {m.status, "trap"} /\ n.stack = m.stack
      <3> DEFINE keeps == /\ IsMachine(n) /\ Sp(n) = Sp(m) /\ Fp(n) = Fp(m) /\ n.pc = m.pc
                          /\ n.status \in {m.status, "trap"} /\ n.stack = m.stack
      <3>1. CASE n = m
        BY <1>0, <3>1
      <3>2. ASSUME NEW v, n = [m EXCEPT !.flags = v]
            PROVE  keeps
        BY <1>0, <3>2 DEF IsMachine, Sp, Fp
      <3>3. ASSUME NEW v, n = [m EXCEPT !.reg["REG_RDX"] = v]
            PROVE  keeps
        BY <1>0, <3>3 DEF IsMachine, Sp, Fp
      <3>4. ASSUME NEW v, NEW w, n = [m EXCEPT !.reg["REG_RAX"] = v, !.reg["REG_RDX"] = w]
            PROVE  keeps
        BY <1>0, <3>4 DEF IsMachine, Sp, Fp
      <3>5. CASE n = [m EXCEPT !.status = "trap"]
        BY <1>0, <3>5 DEF IsMachine, Sp, Fp
      <3> HIDE DEF keeps
      <3>6. keeps
        BY <2>2, <3>1, <3>2, <3>3, <3>4, <3>5 DEF keeps
      <3> QED
        BY <3>6 DEF keeps
    <2> QED
      BY <1>0, <2>1, <2>3 DEF Passes, Spared
  <1> QED
    BY <1>1, <1>2, <1>3, <1>4, <1>5 DEF StraightLine, dest_op

-----------------------------------------------------------------------------
(* The machine and the code it runs *)

\* Code that links, with the zones and the heights of its lines.
Ready(code, z, h) ==
  /\ Len(code) \in Nat
  /\ DOMAIN code = 1..Len(code)
  /\ Laid(code, z, h)
  /\ z[Len(code) + 1] = "between"
  /\ Links(code, "main")
  /\ \A k \in 1..Len(code) : code[k].op \in {"jmp", "je"} =>
       \E l \in 1..Len(code) : /\ code[l].op = "label"
                               /\ code[l].dst = mk_local_label(code[k].src.num)
  /\ \A k, l \in 1..Len(code) :
       /\ code[k].op \in {"jmp", "je"} /\ code[l].op = "label"
       /\ code[l].dst = mk_local_label(code[k].src.num)
       => h[k] = h[l]

\* A pending return, and where on the stack the machine finds its address.
Activation == [pc : Nat, rsp : Int, rbp : Int \cup {Garbage}]
Home(f) == f.rsp - 8

\* The function of f has saved %rbp below its return address.
Keeps(st, f) == At(Home(f) - 8) \in 1..StackWords /\ st[At(Home(f) - 8)] = f.rbp

\* The function of f goes on in its body when it is returned to as g says.
Resumes(f, g, z, h, last) ==
  /\ g.pc \in 1..last
  /\ z[g.pc] = "body"
  /\ g.rsp = Home(f) - h[g.pc]
  /\ g.rbp = Home(f) - 8

(***************************************************************************)
(* The pending returns are on the stack, each below what its caller keeps, *)
(* the first one to the system and the others into the bodies of functions.*)
(***************************************************************************)
Chain(act, st, z, h, last) ==
  /\ act \in Seq(Activation) /\ Len(act) > 0 /\ act[1].pc = 0
  /\ \A j \in 1..Len(act) : /\ act[j].rsp % 16 = 0
                            /\ At(Home(act[j])) \in 1..StackWords
                            /\ st[At(Home(act[j]))] = act[j].pc
  /\ \A k \in 1..Len(act) : \A j \in 1..k - 1 : Home(act[k]) <= Home(act[j]) - 16
  /\ \A j \in 1..Len(act) - 1 : Resumes(act[j], act[j+1], z, h, last) /\ Keeps(st, act[j])

\* %rsp and %rbp where the zone is q and the height r, in the function of f.
Placed(m, q, r, f) ==
  /\ q \in {"globl", "entry", "saved", "body", "left", "exit"}
  /\ q \in {"globl", "entry", "exit"} => Sp(m) = Home(f)
  /\ q \in {"saved", "left"} => Sp(m) = Home(f) - 8
  /\ q = "body" => Sp(m) = Home(f) - r
  /\ q \in {"body", "left"} => Fp(m) = Home(f) - 8
  /\ q \in {"globl", "entry", "saved", "exit"} => Fp(m) = f.rbp
  /\ q \in {"saved", "body", "left"} => Keeps(m.stack, f)

\* In the data there is nothing to run: the machine faults at the next line.
InData(q) == q \in {"data", "datum"}
Runs(code, z, h, m, act) ==
  /\ IsMachine(m)
  /\ m.pc \in 1..Len(code)
  /\ z[m.pc] = "data" => code[m.pc].op = "label"
  /\ ~InData(z[m.pc]) => /\ Chain(act, m.stack, z, h, Len(code))
                         /\ Placed(m, z[m.pc], h[m.pc], act[Len(act)])

LEMMA InZone ==
  ASSUME NEW code, NEW z, NEW h, Ready(code, z, h), NEW k \in 1..Len(code)
  PROVE  /\ Belongs(code[k], z[k], h[k])
         /\ z[k+1] = ZoneAfter(z[k], code[k])
         /\ h[k+1] = StackAfter(h[k], code[k])
         /\ z[k+1] # "between" => k + 1 \in 1..Len(code)
  <1>1. Len(code) \in Nat /\ z[Len(code) + 1] = "between"
    BY DEF Ready
  <1>2. z[k+1] # "between" => k + 1 # Len(code) + 1
    BY <1>1, Zenon
  <1> QED
    BY <1>1, <1>2 DEF Ready, Laid

LEMMA HeightThere ==
  ASSUME NEW code, NEW z, NEW h, Ready(code, z, h), NEW k \in 1..Len(code)
  PROVE  DeepAt(z[k], h[k])
  <1>1. CASE k = 1
    BY <1>1 DEF Ready, Laid, DeepAt
  <1>2. CASE k # 1
    <2>1. k - 1 \in 1..Len(code) /\ (k - 1) + 1 = k
      BY <1>2 DEF Ready
    <2>2. DeepAt(z[(k-1)+1], h[(k-1)+1])
      BY <2>1 DEF Ready, Laid
    <2> QED
      BY <2>1, <2>2
  <1> QED
    BY <1>1, <1>2

\* The zone of a line tells its opcode, and some opcodes tell the zone.
LEMMA ZoneOf ==
  ASSUME NEW x, NEW q, NEW r, Belongs(x, q, r)
  PROVE  /\ q \in {"between", "data", "datum", "globl", "entry", "saved", "body", "left", "exit"}
         /\ x.op = "label" /\ x.dst.name # NoName => q \in {"data", "globl"}
         /\ x.op = "label" /\ x.dst.name = NoName => q = "body"
         /\ x.op = "ret" => q = "exit"
         /\ x.op = "call" => q = "body" /\ AlignedCall(x, r)
  <1>1. /\ emit_push(RBP).op = "push" /\ emit_mov(RSP, RBP).op = "mov"
        /\ emit_mov(RBP, RSP).op = "mov" /\ emit_pop(RBP).op = "pop" /\ ret.op = "ret"
    BY DEF emit_push, emit_mov, emit_pop, ret, Line
  <1>2. q = "body" => StraightLine(x) \/ JumpLine(x) \/ AlignedCall(x, r) \/ x = emit_mov(RBP, RSP)
    BY DEF Belongs
  <1>3. q = "body" => /\ x.op = "label" => x.dst.name = NoName
                      /\ x.op # "ret"
                      /\ x.op = "call" => AlignedCall(x, r)
    BY <1>1, <1>2 DEF StraightLine, JumpLine, AlignedCall, dest_op, set_op
  <1>4. q # "body" => /\ x.op # "call"
                      /\ x.op = "ret" => q = "exit"
                      /\ x.op = "label" => q \in {"data", "globl"} /\ x.dst.name # NoName
    BY <1>1 DEF Belongs, IsDatum
  <1>5. q \in {"between", "data", "datum", "globl", "entry", "saved", "body", "left", "exit"}
    BY DEF Belongs
  <1> QED
    BY <1>3, <1>4, <1>5

\* The line of a label that is defined.
LEMMA LineOfIs ==
  ASSUME NEW code, NEW o, NEW k \in DOMAIN code, code[k].op = "label", code[k].dst = o
  PROVE  LineOf(code, o) \in DOMAIN code /\ code[LineOf(code, o)].op = "label"
         /\ code[LineOf(code, o)].dst = o
  <1> DEFINE P(l) == l \in DOMAIN code /\ code[l].op = "label" /\ code[l].dst = o
  <1>1. LineOf(code, o) = CHOOSE l \in DOMAIN code : code[l].op = "label" /\ code[l].dst = o
    BY DEF LineOf
  <1> QED
    BY <1>1

\* What is called, and main, is a function or a global.
LEMMA Lands ==
  ASSUME NEW code, NEW z, NEW h, Ready(code, z, h), NEW o,
         \/ o = mk_label("main")
         \/ \E j \in DOMAIN code : code[j].op = "call" /\ code[j].src = o
  PROVE  LET l == LineOf(code, o)
         IN l \in 1..Len(code) /\ code[l].op = "label" /\ z[l] \in {"data", "globl"}
  <1> DEFINE called == {code[j].src : j \in {e \in DOMAIN code : code[e].op = "call"}}
  <1>1. o \in called \cup {mk_label("main")}
    OBVIOUS
  <1>2. \A t \in called \cup {mk_label("main")} : \E k \in DOMAIN code :
          code[k].op = "label" /\ code[k].dst.name # NoName /\ code[k].dst = t
    BY Zenon DEF Ready, Links
  <1> HIDE DEF called
  <1>3. PICK k \in DOMAIN code : code[k].op = "label" /\ code[k].dst.name # NoName /\ code[k].dst = o
    BY <1>1, <1>2
  <1> DEFINE l == LineOf(code, o)
  <1>4. l \in 1..Len(code) /\ code[l].op = "label" /\ code[l].dst = o
    BY <1>3, LineOfIs DEF Ready
  <1>5. code[l].dst.name # NoName
    BY <1>3, <1>4
  <1>6. Belongs(code[l], z[l], h[l])
    BY <1>4, InZone
  <1> QED
    BY <1>4, <1>5, <1>6, ZoneOf

\* A jump goes to a line of a body, at its own height.
LEMMA JumpLands ==
  ASSUME NEW code, NEW z, NEW h, Ready(code, z, h), NEW k \in 1..Len(code), JumpLine(code[k])
  PROVE  LET l == LineOf(code, code[k].src)
         IN l \in 1..Len(code) /\ z[l] = "body" /\ h[l] = h[k]
  <1> DEFINE o == code[k].src
             l == LineOf(code, o)
  <1>1. o = mk_local_label(o.num) /\ code[k].op \in {"jmp", "je"}
    BY DEF JumpLine
  <1>2. PICK j \in 1..Len(code) : code[j].op = "label" /\ code[j].dst = mk_local_label(o.num)
    BY <1>1 DEF Ready
  <1>3. j \in DOMAIN code /\ code[j].dst = o
    BY <1>1, <1>2 DEF Ready
  <1>4. l \in 1..Len(code) /\ code[l].op = "label" /\ code[l].dst = o
    BY <1>2, <1>3, LineOfIs DEF Ready
  <1>5. code[l].dst.name = NoName
    BY <1>1, <1>4 DEF mk_local_label, NoOperand
  <1>6. z[l] = "body"
    BY <1>4, <1>5, InZone, ZoneOf
  <1>7. h[k] = h[l]
    BY <1>1, <1>4 DEF Ready
  <1> QED
    BY <1>4, <1>6, <1>7

LEMMA ActivationIs ==
  ASSUME NEW act, NEW st, NEW z, NEW h, NEW last, Chain(act, st, z, h, last)
  PROVE  /\ Len(act) \in Nat /\ Len(act) > 0 /\ Len(act) \in 1..Len(act)
         /\ \A j \in 1..Len(act) :
              /\ act[j].pc \in Nat /\ act[j].rsp \in Int /\ Home(act[j]) \in Int
              /\ act[j].rbp \in Int \cup {Garbage}
  <1>1. act \in Seq(Activation) /\ Len(act) \in Nat /\ Len(act) > 0
    BY DEF Chain
  <1>2. \A j \in 1..Len(act) : act[j] \in Activation
    BY <1>1
  <1> QED
    BY <1>1, <1>2 DEF Activation, Home

\* Nothing of the chain is below the youngest return address.
LEMMA ChainSpared ==
  ASSUME NEW act, NEW st, NEW z, NEW h, NEW last, Chain(act, st, z, h, last), NEW su,
         \A k \in 1..StackWords : k <= At(Home(act[Len(act)])) => su[k] = st[k]
  PROVE  Chain(act, su, z, h, last)
  <1> DEFINE n == Len(act)
             R == Home(act[n])
  <1>1. n \in Nat /\ n > 0 /\ n \in 1..n /\ \A j \in 1..n : Home(act[j]) \in Int
    BY ActivationIs
  <1>2. ASSUME NEW j \in 1..n, NEW a \in Int, R <= a, At(a) \in 1..StackWords
        PROVE  su[At(a)] = st[At(a)]
    BY <1>1, <1>2, AtBelow
  <1>3. ASSUME NEW j \in 1..n
        PROVE  R <= Home(act[j]) /\ (j # n => R <= Home(act[j]) - 8)
    <2>1. CASE j = n
      BY <1>1, <2>1
    <2>2. CASE j # n
      <3>1. j \in 1..n - 1
        BY <1>1, <2>2
      <3>2. R <= Home(act[j]) - 16
        BY <1>1, <3>1 DEF Chain
      <3> QED
        BY <1>1, <3>2
    <2> QED
      BY <2>1, <2>2
  <1>4. ASSUME NEW j \in 1..n
        PROVE  su[At(Home(act[j]))] = st[At(Home(act[j]))]
    BY <1>1, <1>2, <1>3 DEF Chain
  <1>5. ASSUME NEW j \in 1..n - 1
        PROVE  Keeps(su, act[j])
    <2>1. j \in 1..n /\ j # n /\ Keeps(st, act[j])
      BY <1>1 DEF Chain
    <2>2. Home(act[j]) - 8 \in Int /\ R <= Home(act[j]) - 8
      BY <1>1, <1>3, <2>1
    <2> QED
      BY <1>2, <2>1, <2>2 DEF Keeps
  <1> QED
    BY <1>4, <1>5 DEF Chain

-----------------------------------------------------------------------------
(* One step of the machine, by the zone of its line *)

\* The machine past the line at its pc.
Past(m) == [m EXCEPT !.pc = @ + 1]

LEMMA PastIs ==
  ASSUME NEW m, IsMachine(m)
  PROVE  /\ IsMachine(Past(m)) /\ Past(m).pc = m.pc + 1
         /\ Past(m).reg = m.reg /\ Past(m).stack = m.stack /\ Past(m).status = m.status
         /\ Sp(Past(m)) = Sp(m) /\ Fp(Past(m)) = Fp(m)
  BY DEF IsMachine, Past, Sp, Fp

\* A machine that runs on has executed its line.
LEMMA RunsOn ==
  ASSUME NEW code, NEW m, IsMachine(m), Step(code, m).status = "running"
  PROVE  ~Faults(m, code[m.pc]) /\ Step(code, m) = Execute(code, Past(m), code[m.pc])
  <1>1. [m EXCEPT !.status = "fault"].status = "fault"
    BY DEF IsMachine
  <1>2. ~Faults(m, code[m.pc])
    BY <1>1 DEF Step
  <1> QED
    BY <1>2 DEF Step, Past

\* The machine is in the body of the function whose activation is f.
Inside(code, z, h, m, act, f) ==
  /\ Ready(code, z, h)
  /\ IsMachine(m)
  /\ m.pc \in 1..Len(code)
  /\ Chain(act, m.stack, z, h, Len(code))
  /\ f = act[Len(act)]

LEMMA BodyAgain ==
  ASSUME NEW code, NEW z, NEW h, NEW m, NEW act, NEW f, Inside(code, z, h, m, act, f),
         Fp(m) = Home(f) - 8, Keeps(m.stack, f),
         NEW n, IsMachine(n), n.pc \in 1..Len(code), z[n.pc] = "body",
         Sp(n) = Home(f) - h[n.pc], Fp(n) = Fp(m), Spared(m, n, Fp(m))
  PROVE  Runs(code, z, h, n, act)
  <1>1. Home(f) \in Int /\ Home(f) - 8 \in Int /\ Home(f) - 8 <= Home(f)
    BY ActivationIs DEF Inside
  <1>2. At(Home(f)) <= At(Home(f) - 8) /\ At(Home(f)) \in Int /\ At(Home(f) - 8) \in Int
    BY <1>1, AtBelow
  <1>3. \A k \in 1..StackWords : k <= At(Home(f)) => n.stack[k] = m.stack[k]
    BY <1>2, StackAssumption DEF Spared
  <1>4. Chain(act, n.stack, z, h, Len(code))
    BY <1>3, ChainSpared DEF Inside
  <1>5. Keeps(n.stack, f)
    BY <1>2 DEF Keeps, Spared
  <1> QED
    BY <1>4, <1>5 DEF Runs, Placed, InData, Inside

LEMMA StraightRuns ==
  ASSUME NEW code, NEW z, NEW h, NEW m, NEW act, NEW f, Inside(code, z, h, m, act, f),
         Placed(m, "body", h[m.pc], f), z[m.pc] = "body", StraightLine(code[m.pc]),
         NEW n, n = Execute(code, Past(m), code[m.pc]), n.status = "running",
         m.status = "running"
  PROVE  Runs(code, z, h, n, act)
  <1> DEFINE x == code[m.pc]
             r == h[m.pc]
             q == Past(m)
             k == m.pc
  <1>1. /\ Home(f) \in Int /\ Deep(r) /\ Sp(m) = Home(f) - r /\ Fp(m) = Home(f) - 8
        /\ Keeps(m.stack, f)
    <2>1. Home(f) \in Int
      BY ActivationIs DEF Inside
    <2>2. DeepAt(z[k], r)
      BY HeightThere DEF Inside
    <2> QED
      BY <2>1, <2>2 DEF DeepAt, Placed
  <1>2. Sp(m) \in Int /\ Fp(m) \in Int /\ Sp(m) <= Fp(m) /\ r \in Int
    <2>1. PICK a \in Int, b \in Int : a = Home(f) /\ b = r /\ b >= 8
      BY <1>1 DEF Deep
    <2>2. a - b <= a - 8 /\ a - b \in Int /\ a - 8 \in Int
      BY <2>1
    <2> QED
      BY <1>1, <2>1, <2>2
  <1>3. /\ IsMachine(q) /\ q.pc = k + 1 /\ q.stack = m.stack /\ q.status = m.status
        /\ Sp(q) = Sp(m) /\ Fp(q) = Fp(m)
    BY PastIs DEF Inside
  <1>4. x.op \in {"add", "sub"} /\ x.src.kind = "OP_IMM" => Wrap(x.src.num) = x.src.num
    <2>1. k \in DOMAIN code
      BY DEF Inside, Ready
    <2> QED
      BY <2>1 DEF Inside, Ready, Links
  <1> HIDE DEF q
  <1>5. n = Execute(code, q, x)
    BY DEF q
  <1>6. Passes(q, n, StackAfter(r, x) - r)
    BY <1>2, <1>3, <1>4, <1>5, ExecuteStraight
  <1>7. z[k+1] = ZoneAfter(z[k], x) /\ h[k+1] = StackAfter(r, x)
        /\ (z[k+1] # "between" => k + 1 \in 1..Len(code))
    BY InZone DEF Inside
  <1>8. x # emit_mov(RBP, RSP)
    BY NotLeaving DEF BodyLine
  <1>9. z[k+1] = "body" /\ k + 1 \in 1..Len(code)
    BY <1>7, <1>8 DEF ZoneAfter
  <1>10. n.pc = k + 1 /\ IsMachine(n) /\ Sp(n) = Sp(m) - (h[k+1] - r) /\ Fp(n) = Fp(m)
    BY <1>3, <1>6, <1>7 DEF Passes
  <1>11. h[k+1] \in Int
    <2>1. DeepAt(z[k+1], h[k+1])
      BY <1>9, HeightThere DEF Inside
    <2> QED
      BY <1>9, <2>1 DEF DeepAt, Deep
  <1>12. Sp(n) = Home(f) - h[k+1]
    <2>1. \A a, b, c \in Int : (a - b) - (c - b) = a - c
      OBVIOUS
    <2> QED
      BY <1>1, <1>2, <1>10, <1>11, <2>1
  <1>13. Spared(m, n, Fp(m))
    BY <1>3, <1>6 DEF Passes, Spared
  <1> QED
    BY <1>1, <1>9, <1>10, <1>12, <1>13, BodyAgain

LEMMA JumpRuns ==
  ASSUME NEW code, NEW z, NEW h, NEW m, NEW act, NEW f, Inside(code, z, h, m, act, f),
         Placed(m, "body", h[m.pc], f), z[m.pc] = "body", JumpLine(code[m.pc]),
         NEW n, n = Execute(code, Past(m), code[m.pc])
  PROVE  Runs(code, z, h, n, act)
  <1> DEFINE x == code[m.pc]
             q == Past(m)
             k == m.pc
             l == LineOf(code, x.src)
  <1>1. /\ IsMachine(q) /\ q.pc = k + 1 /\ q.stack = m.stack /\ Sp(q) = Sp(m) /\ Fp(q) = Fp(m)
    BY PastIs DEF Inside
  <1>2. /\ Sp(m) = Home(f) - h[k] /\ Fp(m) = Home(f) - 8 /\ Keeps(m.stack, f)
    BY DEF Placed
  <1> HIDE DEF q
  <1>3. n = [q EXCEPT !.pc = l] \/ (x.op = "je" /\ n = q)
    <2>1. n = Execute(code, q, x)
      BY DEF q
    <2>2. CASE x.op = "jmp"
      BY <2>1, <2>2 DEF Execute, Jump
    <2>3. CASE x.op = "je"
      BY <2>1, <2>3 DEF Execute, Jump
    <2> QED
      BY <2>2, <2>3 DEF JumpLine
  <1>4. CASE n = [q EXCEPT !.pc = l]
    <2>1. l \in 1..Len(code) /\ z[l] = "body" /\ h[l] = h[k]
      BY JumpLands DEF Inside
    <2> HIDE DEF l
    <2>2. IsMachine(n) /\ n.pc = l /\ Sp(n) = Sp(m) /\ Fp(n) = Fp(m) /\ n.stack = m.stack
      BY <1>1, <1>4 DEF IsMachine, Sp, Fp
    <2>3. Spared(m, n, Fp(m))
      BY <2>2 DEF Spared
    <2> QED
      BY <1>2, <2>1, <2>2, <2>3, BodyAgain
  <1>5. CASE x.op = "je" /\ n = q
    <2>1. z[k+1] = ZoneAfter(z[k], x) /\ h[k+1] = StackAfter(h[k], x)
          /\ (z[k+1] # "between" => k + 1 \in 1..Len(code))
      BY InZone DEF Inside
    <2>2. x # emit_mov(RBP, RSP)
      BY NotLeaving DEF BodyLine
    <2>3. z[k+1] = "body" /\ k + 1 \in 1..Len(code) /\ h[k+1] = h[k]
      BY <1>5, <2>1, <2>2 DEF ZoneAfter, StackAfter
    <2>4. Spared(m, n, Fp(m))
      BY <1>1, <1>5 DEF Spared
    <2> QED
      BY <1>1, <1>2, <1>5, <2>3, <2>4, BodyAgain
  <1> QED
    BY <1>3, <1>4, <1>5

LEMMA ChainGrows ==
  ASSUME NEW act, NEW st, NEW z, NEW h, NEW last, Chain(act, st, z, h, last),
         NEW g \in Activation, g.rsp % 16 = 0, At(Home(g)) \in 1..StackWords,
         st[At(Home(g))] = g.pc, Home(g) <= Home(act[Len(act)]) - 16,
         Resumes(act[Len(act)], g, z, h, last), Keeps(st, act[Len(act)])
  PROVE  Chain(Append(act, g), st, z, h, last)
  <1> DEFINE n == Len(act)
             all == Append(act, g)
  <1>1. /\ n \in Nat /\ n > 0 /\ n \in 1..n /\ act \in Seq(Activation)
        /\ \A j \in 1..n : Home(act[j]) \in Int
    BY ActivationIs DEF Chain
  <1>2. /\ all \in Seq(Activation) /\ Len(all) = n + 1 /\ all[n + 1] = g
        /\ \A j \in 1..n : all[j] = act[j]
    BY <1>1
  <1>3. Home(g) \in Int
    BY DEF Home, Activation
  <1> HIDE DEF all
  <1>4. ASSUME NEW j \in 1..n + 1
        PROVE  /\ all[j].rsp % 16 = 0 /\ At(Home(all[j])) \in 1..StackWords
               /\ st[At(Home(all[j]))] = all[j].pc
    <2>1. CASE j = n + 1
      BY <1>2, <2>1
    <2>2. CASE j # n + 1
      <3>1. j \in 1..n
        BY <1>1, <2>2
      <3> QED
        BY <1>2, <3>1 DEF Chain
    <2> QED
      BY <2>1, <2>2
  <1>5. ASSUME NEW k \in 1..n + 1, NEW j \in 1..k - 1
        PROVE  Home(all[k]) <= Home(all[j]) - 16
    <2>1. CASE k # n + 1
      <3>1. k \in 1..n /\ j \in 1..n
        BY <1>1, <2>1
      <3> QED
        BY <1>2, <3>1 DEF Chain
    <2>2. CASE k = n + 1
      <3>1. j \in 1..n /\ all[j] = act[j] /\ all[k] = g
        BY <1>1, <1>2, <2>2
      <3>2. CASE j = n
        BY <3>1, <3>2
      <3>3. CASE j # n
        <4>1. j \in 1..n - 1
          BY <1>1, <3>1, <3>3
        <4>2. Home(act[n]) <= Home(act[j]) - 16
          BY <1>1, <4>1 DEF Chain
        <4>3. Home(act[j]) \in Int /\ Home(act[n]) \in Int
          BY <1>1, <3>1
        <4>4. \A a, b, c \in Int : a <= b - 16 /\ b <= c - 16 => a <= c - 16
          OBVIOUS
        <4> QED
          BY <1>3, <3>1, <4>2, <4>3, <4>4
      <3> QED
        BY <3>2, <3>3
    <2> QED
      BY <2>1, <2>2
  <1>6. ASSUME NEW j \in 1..(n + 1) - 1
        PROVE  Resumes(all[j], all[j+1], z, h, last) /\ Keeps(st, all[j])
    <2>1. CASE j = n
      BY <1>1, <1>2, <2>1
    <2>2. CASE j # n
      <3>1. j \in 1..n - 1 /\ j \in 1..n /\ j + 1 \in 1..n
        BY <1>1, <2>2
      <3> QED
        BY <1>2, <3>1 DEF Chain
    <2> QED
      BY <2>1, <2>2
  <1>7. Len(all) > 0 /\ all[1].pc = 0
    BY <1>1, <1>2 DEF Chain
  <1>8. Chain(all, st, z, h, last)
    BY <1>2, <1>4, <1>5, <1>6, <1>7 DEF Chain
  <1> QED
    BY <1>8 DEF all

LEMMA ChainShrinks ==
  ASSUME NEW act, NEW st, NEW z, NEW h, NEW last, Chain(act, st, z, h, last),
         act[Len(act)].pc # 0
  PROVE  /\ Chain(Front(act), st, z, h, last)
         /\ LET f == Front(act)[Len(Front(act))]
            IN Resumes(f, act[Len(act)], z, h, last) /\ Keeps(st, f)
  <1> DEFINE n == Len(act)
             all == Front(act)
  <1>1. n \in Nat /\ n > 0 /\ act \in Seq(Activation) /\ act[1].pc = 0
    BY ActivationIs DEF Chain
  <1>2. n > 1 /\ n - 1 \in 1..n - 1 /\ (n - 1) + 1 = n
    BY <1>1
  <1>3. /\ all \in Seq(Activation) /\ Len(all) = n - 1
        /\ \A j \in 1..n - 1 : all[j] = act[j]
    BY <1>1, RemoveLast
  <1> HIDE DEF all
  <1>4. Resumes(all[n-1], act[n], z, h, last) /\ Keeps(st, all[n-1])
    BY <1>2, <1>3 DEF Chain
  <1>5. ASSUME NEW j \in 1..n - 1
        PROVE  /\ all[j].rsp % 16 = 0 /\ At(Home(all[j])) \in 1..StackWords
               /\ st[At(Home(all[j]))] = all[j].pc
    BY <1>3 DEF Chain
  <1>6. ASSUME NEW k \in 1..n - 1, NEW j \in 1..k - 1
        PROVE  Home(all[k]) <= Home(all[j]) - 16
    <2>1. k \in 1..n /\ j \in 1..n - 1
      BY <1>1
    <2> QED
      BY <1>3, <2>1 DEF Chain
  <1>7. ASSUME NEW j \in 1..(n - 1) - 1
        PROVE  Resumes(all[j], all[j+1], z, h, last) /\ Keeps(st, all[j])
    <2>1. j \in 1..n - 1 /\ j + 1 \in 1..n - 1
      BY <1>1
    <2> QED
      BY <1>3, <2>1 DEF Chain
  <1>8. Len(all) > 0 /\ all[1].pc = 0
    BY <1>1, <1>2, <1>3
  <1>9. Chain(all, st, z, h, last)
    BY <1>3, <1>5, <1>6, <1>7, <1>8 DEF Chain
  <1> QED
    BY <1>3, <1>4, <1>9 DEF all

\* A call is executed at an aligned %rsp.
LEMMA CallAlignedThere ==
  ASSUME NEW code, NEW z, NEW h, NEW m, NEW act, NEW f, Inside(code, z, h, m, act, f),
         Placed(m, "body", h[m.pc], f), z[m.pc] = "body", AlignedCall(code[m.pc], h[m.pc])
  PROVE  /\ Sp(m) % 16 = 0 /\ Sp(m) \in Int /\ Fp(m) \in Int /\ Home(f) \in Int
         /\ Sp(m) - 8 <= Home(f) - 16
  <1>1. f.rsp \in Int /\ f.rsp % 16 = 0 /\ Home(f) = f.rsp - 8
    BY ActivationIs DEF Inside, Chain, Home
  <1>2. DeepAt(z[m.pc], h[m.pc])
    BY HeightThere DEF Inside
  <1>3. PICK c \in Int, b \in Int :
          c = f.rsp /\ b = h[m.pc] /\ b >= 8 /\ c % 16 = 0 /\ (b + 8) % 16 = 0
    BY <1>1, <1>2 DEF DeepAt, Deep, AlignedCall
  <1>4. Home(f) = c - 8 /\ Sp(m) = (c - 8) - b /\ Fp(m) = (c - 8) - 8
    BY <1>1, <1>3 DEF Placed
  <1>5. ((c - 8) - b) % 16 = 0
    BY <1>3
  <1> QED
    BY <1>3, <1>4, <1>5

LEMMA CallRuns ==
  ASSUME NEW code, NEW z, NEW h, NEW m, NEW act, NEW f, Inside(code, z, h, m, act, f),
         Placed(m, "body", h[m.pc], f), z[m.pc] = "body", AlignedCall(code[m.pc], h[m.pc]),
         ~Faults(m, code[m.pc]), NEW n, n = Execute(code, Past(m), code[m.pc]),
         NEW g, g = [pc |-> m.pc + 1, rsp |-> Sp(m), rbp |-> Fp(m)]
  PROVE  Runs(code, z, h, n, Append(act, g))
  <1> DEFINE x == code[m.pc]
             r == h[m.pc]
             q == Past(m)
             k == m.pc
             l == LineOf(code, x.src)
             a == Home(g)
  <1>1. /\ Home(f) \in Int /\ Sp(m) = Home(f) - r /\ Fp(m) = Home(f) - 8 /\ Keeps(m.stack, f)
    BY CallAlignedThere DEF Placed
  <1>2. /\ Sp(m) \in Int /\ Fp(m) \in Int /\ a = Sp(m) - 8 /\ a <= Home(f) - 16 /\ a \in Int
        /\ Sp(m) % 16 = 0
    <2>1. a = Sp(m) - 8
      BY DEF Home
    <2> QED
      BY <2>1, CallAlignedThere
  <1>3. /\ IsMachine(q) /\ q.pc = k + 1 /\ q.stack = m.stack /\ q.reg = m.reg
        /\ Sp(q) = Sp(m) /\ Fp(q) = Fp(m)
    BY PastIs DEF Inside
  <1>4. x.op = "call"
    BY DEF AlignedCall
  <1>5. At(a) \in 1..StackWords
    <2>1. Sp(m) - 8 \in Touches(m, x)
      BY <1>4 DEF Touches, Sp
    <2> QED
      BY <1>2, <2>1 DEF Faults
  <1>6. l \in 1..Len(code) /\ code[l].op = "label" /\ z[l] \in {"data", "globl"}
    <2>1. k \in DOMAIN code
      BY DEF Inside, Ready
    <2> QED
      BY <1>4, <2>1, Lands DEF Inside
  <1> HIDE DEF q, l
  <1>7. n = [[q EXCEPT !.reg["REG_RSP"] = Sp(m) - 8, !.stack[At(Sp(m) - 8)] = q.pc] EXCEPT !.pc = l]
    <2>1. n = Execute(code, q, x)
      BY DEF q
    <2>2. n = Jump(code, Push(q, q.pc), x.src)
      BY <1>4, <2>1 DEF Execute
    <2> QED
      BY <1>3, <2>2 DEF Jump, Push, Sp, l
  <1>8. /\ IsMachine(n) /\ n.pc = l /\ Sp(n) = a /\ Fp(n) = Fp(m)
        /\ n.stack = [m.stack EXCEPT ![At(a)] = k + 1]
    <2>1. "REG_RSP" \in regid /\ "REG_RBP" \in regid
      BY DEF regid
    <2>2. /\ DOMAIN n = DOMAIN q /\ n.pc = l /\ n.reg = [m.reg EXCEPT !["REG_RSP"] = Sp(m) - 8]
          /\ n.stack = [m.stack EXCEPT ![At(Sp(m) - 8)] = k + 1]
      BY <1>3, <1>7 DEF IsMachine
    <2> QED
      BY <1>2, <1>3, <2>1, <2>2 DEF IsMachine, Sp, Fp
  <1> HIDE DEF a
  <1>9. At(Home(f)) < At(a) /\ At(Home(f) - 8) < At(a)
        /\ At(a) \in Int /\ At(Home(f)) \in Int /\ At(Home(f) - 8) \in Int
    <2>1. a <= Home(f) - 8 /\ a <= (Home(f) - 8) - 8 /\ Home(f) - 8 \in Int
      BY <1>1, <1>2
    <2>2. At(Home(f)) + 1 <= At(a) /\ At(Home(f) - 8) + 1 <= At(a)
          /\ At(a) \in Int /\ At(Home(f)) \in Int /\ At(Home(f) - 8) \in Int
      BY <1>1, <1>2, <2>1, AtBelow
    <2> QED
      BY <2>2
  <1>10. n.stack[At(a)] = k + 1 /\ \A j \in 1..StackWords : j # At(a) => n.stack[j] = m.stack[j]
    BY <1>5, <1>8 DEF Inside, IsMachine
  <1>11. Chain(act, n.stack, z, h, Len(code))
    <2>1. \A j \in 1..StackWords : j <= At(Home(f)) => n.stack[j] = m.stack[j]
      BY <1>9, <1>10, StackAssumption
    <2> QED
      BY <2>1, ChainSpared DEF Inside
  <1>12. Keeps(n.stack, f)
    BY <1>1, <1>9, <1>10 DEF Keeps
  <1>13. g.pc = k + 1 /\ g.rsp = Sp(m) /\ g.rbp = Fp(m) /\ g \in Activation
    <2>1. k \in Nat
      BY DEF Inside, Ready
    <2> QED
      BY <1>2, <2>1 DEF Activation
  <1>14. Resumes(f, g, z, h, Len(code))
    <2>1. z[k+1] = ZoneAfter(z[k], x) /\ h[k+1] = StackAfter(r, x)
          /\ (z[k+1] # "between" => k + 1 \in 1..Len(code))
      BY InZone DEF Inside
    <2>2. x # emit_mov(RBP, RSP)
      BY NotLeaving DEF BodyLine
    <2>3. z[k+1] = "body" /\ k + 1 \in 1..Len(code) /\ h[k+1] = r
      BY <1>4, <2>1, <2>2 DEF ZoneAfter, StackAfter
    <2> QED
      BY <1>1, <1>13, <2>3 DEF Resumes
  <1>15. Chain(Append(act, g), n.stack, z, h, Len(code))
    <2>1. n.stack[At(Home(g))] = g.pc /\ At(Home(g)) \in 1..StackWords
          /\ Home(g) <= Home(f) - 16 /\ g.rsp % 16 = 0
      BY <1>2, <1>5, <1>10, <1>13 DEF a
    <2> QED
      BY <1>11, <1>12, <1>13, <1>14, <2>1, ChainGrows DEF Inside
  <1>16. Append(act, g)[Len(Append(act, g))] = g
    <2>1. act \in Seq(Activation)
      BY DEF Inside, Chain
    <2> QED
      BY <1>13, <2>1
  <1>17. z[l] = "globl" => Placed(n, z[l], h[l], g)
    BY <1>2, <1>8, <1>13 DEF Placed, a
  <1> QED
    BY <1>2, <1>6, <1>8, <1>15, <1>16, <1>17 DEF Runs, InData

LEMMA RegisterOperand ==
  ASSUME NEW code, NEW m, NEW v
  PROVE  /\ Load(code, m, RSP) = Sp(m) /\ Load(code, m, RBP) = Fp(m)
         /\ Store(code, m, RSP, v) = [m EXCEPT !.reg["REG_RSP"] = v]
         /\ Store(code, m, RBP, v) = [m EXCEPT !.reg["REG_RBP"] = v]
  BY DEF Load, Store, RSP, RBP, mk_register, NoOperand, Sp, Fp

\* The lines that only move %rsp and %rbp to one another, and the label.
LEMMA LeavingRuns ==
  ASSUME NEW code, NEW z, NEW h, NEW m, NEW act, NEW f, Inside(code, z, h, m, act, f),
         Placed(m, z[m.pc], h[m.pc], f),
         \/ z[m.pc] = "body" /\ code[m.pc] = emit_mov(RBP, RSP)
         \/ z[m.pc] = "saved"
         \/ z[m.pc] = "globl",
         NEW n, n = Execute(code, Past(m), code[m.pc])
  PROVE  Runs(code, z, h, n, act)
  <1> DEFINE x == code[m.pc]
             q == Past(m)
             k == m.pc
  <1>1. /\ IsMachine(q) /\ q.pc = k + 1 /\ q.stack = m.stack /\ q.reg = m.reg
        /\ Sp(q) = Sp(m) /\ Fp(q) = Fp(m)
    BY PastIs DEF Inside
  <1>2. /\ z[k+1] = ZoneAfter(z[k], x) /\ h[k+1] = StackAfter(h[k], x) /\ Belongs(x, z[k], h[k])
        /\ (z[k+1] # "between" => k + 1 \in 1..Len(code)) /\ DeepAt(z[k], h[k])
    BY InZone, HeightThere DEF Inside
  <1>3. "REG_RSP" \in regid /\ "REG_RBP" \in regid
    BY DEF regid
  <1> HIDE DEF q
  <1>4. n = Execute(code, q, x)
    BY DEF q
  <1>5. ASSUME IsMachine(n), n.pc = k + 1, n.stack = m.stack,
               z[k+1] \in {"entry", "saved", "body", "left"}, Placed(n, z[k+1], h[k+1], f)
        PROVE  Runs(code, z, h, n, act)
    <2>1. k + 1 \in 1..Len(code)
      BY <1>2, <1>5
    <2> QED
      BY <1>5, <2>1 DEF Runs, Inside, InData
  <1>6. CASE z[k] = "body" /\ x = emit_mov(RBP, RSP)
    <2>1. z[k+1] = "left"
      BY <1>2, <1>6 DEF ZoneAfter
    <2>2. x.op = "mov" /\ x.src = RBP /\ x.dst = RSP
      BY <1>6 DEF emit_mov, Line
    <2>3. n = [q EXCEPT !.reg["REG_RSP"] = Fp(m)]
      BY <1>1, <1>4, <2>2, RegisterOperand DEF Execute
    <2>4. IsMachine(n) /\ n.pc = k + 1 /\ n.stack = m.stack /\ Sp(n) = Fp(m) /\ Fp(n) = Fp(m)
      BY <1>1, <1>3, <2>3 DEF IsMachine, Sp, Fp
    <2>5. Placed(n, "left", h[k+1], f)
      BY <1>6, <2>4 DEF Placed
    <2> QED
      BY <1>5, <2>1, <2>4, <2>5
  <1>7. CASE z[k] = "saved"
    <2>1. x = emit_mov(RSP, RBP) /\ z[k+1] = "body" /\ h[k] = 8
      BY <1>2, <1>7 DEF Belongs, ZoneAfter, DeepAt
    <2>2. h[k+1] = 8
      BY <1>2, <2>1, MovLine, NotRSP
    <2>3. x.op = "mov" /\ x.src = RSP /\ x.dst = RBP
      BY <2>1 DEF emit_mov, Line
    <2>4. n = [q EXCEPT !.reg["REG_RBP"] = Sp(m)]
      BY <1>1, <1>4, <2>3, RegisterOperand DEF Execute
    <2>5. IsMachine(n) /\ n.pc = k + 1 /\ n.stack = m.stack /\ Sp(n) = Sp(m) /\ Fp(n) = Sp(m)
      BY <1>1, <1>3, <2>4 DEF IsMachine, Sp, Fp
    <2>6. Placed(n, "body", h[k+1], f)
      BY <1>7, <2>2, <2>5 DEF Placed
    <2> QED
      BY <1>5, <2>1, <2>5, <2>6
  <1>8. CASE z[k] = "globl"
    <2>1. x.op = "label" /\ z[k+1] = "entry"
      BY <1>2, <1>8 DEF Belongs, ZoneAfter
    <2>2. n = q
      BY <1>4, <2>1 DEF Execute
    <2>3. Placed(n, "entry", h[k+1], f)
      BY <1>1, <1>8, <2>2 DEF Placed
    <2> QED
      BY <1>1, <1>5, <2>1, <2>2, <2>3
  <1> QED
    BY <1>6, <1>7, <1>8

\* push %rbp
LEMMA EntryRuns ==
  ASSUME NEW code, NEW z, NEW h, NEW m, NEW act, NEW f, Inside(code, z, h, m, act, f),
         Placed(m, "entry", h[m.pc], f), z[m.pc] = "entry", ~Faults(m, code[m.pc]),
         NEW n, n = Execute(code, Past(m), code[m.pc])
  PROVE  Runs(code, z, h, n, act)
  <1> DEFINE x == code[m.pc]
             q == Past(m)
             k == m.pc
             a == Sp(m) - 8
  <1>1. /\ IsMachine(q) /\ q.pc = k + 1 /\ q.stack = m.stack /\ q.reg = m.reg
        /\ Sp(q) = Sp(m) /\ Fp(q) = Fp(m)
    BY PastIs DEF Inside
  <1>2. x = emit_push(RBP) /\ z[k+1] = "saved" /\ k + 1 \in 1..Len(code)
    <2>1. /\ z[k+1] = ZoneAfter(z[k], x) /\ Belongs(x, z[k], h[k])
          /\ (z[k+1] # "between" => k + 1 \in 1..Len(code))
      BY InZone DEF Inside
    <2> QED
      BY <2>1 DEF Belongs, ZoneAfter
  <1>3. x.op = "push" /\ x.src = RBP
    BY <1>2 DEF emit_push, Line
  <1>4. Home(f) \in Int /\ Sp(m) = Home(f) /\ Fp(m) = f.rbp
    BY ActivationIs DEF Inside, Placed
  <1>5. At(a) \in 1..StackWords
    <2>1. a \in Touches(m, x)
      BY <1>3 DEF Touches, Sp
    <2> QED
      BY <2>1 DEF Faults
  <1> HIDE DEF q
  <1>6. n = [q EXCEPT !.reg["REG_RSP"] = a, !.stack[At(a)] = Fp(m)]
    <2>1. n = Execute(code, q, x)
      BY DEF q
    <2>2. n = Push(q, Fp(q))
      BY <1>3, <2>1, RegisterOperand DEF Execute
    <2> QED
      BY <1>1, <2>2 DEF Push, Sp
  <1>7. a = Home(f) - 8 /\ At(a) = At(Home(f)) + 1 /\ At(Home(f)) \in Int
    BY <1>4, AtBelow
  <1> HIDE DEF a
  <1>8. /\ IsMachine(n) /\ n.pc = k + 1 /\ Sp(n) = a /\ Fp(n) = Fp(m)
        /\ n.stack = [m.stack EXCEPT ![At(a)] = Fp(m)]
    <2>1. "REG_RSP" \in regid /\ "REG_RBP" \in regid
      BY DEF regid
    <2>2. /\ DOMAIN n = DOMAIN q /\ n.pc = k + 1 /\ n.reg = [m.reg EXCEPT !["REG_RSP"] = a]
          /\ n.stack = [m.stack EXCEPT ![At(a)] = Fp(m)]
      BY <1>1, <1>6 DEF IsMachine
    <2> QED
      BY <1>1, <2>1, <2>2 DEF IsMachine, Sp, Fp
  <1>9. n.stack[At(a)] = f.rbp /\ \A j \in 1..StackWords : j # At(a) => n.stack[j] = m.stack[j]
    BY <1>4, <1>5, <1>8 DEF Inside, IsMachine
  <1>10. Chain(act, n.stack, z, h, Len(code))
    <2>1. \A j \in 1..StackWords : j <= At(Home(f)) => n.stack[j] = m.stack[j]
      BY <1>7, <1>9, StackAssumption
    <2> QED
      BY <2>1, ChainSpared DEF Inside
  <1>11. Placed(n, "saved", h[k+1], f)
    BY <1>4, <1>5, <1>7, <1>8, <1>9 DEF Placed, Keeps
  <1> QED
    BY <1>2, <1>8, <1>10, <1>11 DEF Runs, InData, Inside

\* pop %rbp
LEMMA LeftRuns ==
  ASSUME NEW code, NEW z, NEW h, NEW m, NEW act, NEW f, Inside(code, z, h, m, act, f),
         Placed(m, "left", h[m.pc], f), z[m.pc] = "left",
         NEW n, n = Execute(code, Past(m), code[m.pc])
  PROVE  Runs(code, z, h, n, act)
  <1> DEFINE x == code[m.pc]
             q == Past(m)
             k == m.pc
  <1>1. /\ IsMachine(q) /\ q.pc = k + 1 /\ q.stack = m.stack /\ q.reg = m.reg
        /\ Sp(q) = Sp(m) /\ Fp(q) = Fp(m)
    BY PastIs DEF Inside
  <1>2. x = emit_pop(RBP) /\ z[k+1] = "exit" /\ k + 1 \in 1..Len(code)
    <2>1. /\ z[k+1] = ZoneAfter(z[k], x) /\ Belongs(x, z[k], h[k])
          /\ (z[k+1] # "between" => k + 1 \in 1..Len(code))
      BY InZone DEF Inside
    <2> QED
      BY <2>1 DEF Belongs, ZoneAfter
  <1>3. x.op = "pop" /\ x.dst = RBP
    BY <1>2 DEF emit_pop, Line
  <1>4. Home(f) \in Int /\ Sp(m) = Home(f) - 8 /\ Keeps(m.stack, f)
    BY ActivationIs DEF Inside, Placed
  <1> HIDE DEF q
  <1>5. n = [[q EXCEPT !.reg["REG_RSP"] = Sp(m) + 8] EXCEPT !.reg["REG_RBP"] = m.stack[At(Sp(m))]]
    <2>1. n = Execute(code, q, x)
      BY DEF q
    <2>2. n = Pop(code, q, RBP)
      BY <1>3, <2>1 DEF Execute
    <2> DEFINE w == [q EXCEPT !.reg["REG_RSP"] = Sp(m) + 8]
    <2>3. n = Store(code, w, RBP, m.stack[At(Sp(m))])
      BY <1>1, <2>2 DEF Pop, Sp
    <2> HIDE DEF w
    <2>4. n = [w EXCEPT !.reg["REG_RBP"] = m.stack[At(Sp(m))]]
      BY <2>3, RegisterOperand
    <2> QED
      BY <2>4 DEF w
  <1>6. Sp(m) + 8 = Home(f) /\ m.stack[At(Sp(m))] = f.rbp
    BY <1>4 DEF Keeps
  <1>7. /\ IsMachine(n) /\ n.pc = k + 1 /\ Sp(n) = Home(f) /\ Fp(n) = f.rbp
        /\ n.stack = m.stack
    <2>1. "REG_RSP" \in regid /\ "REG_RBP" \in regid
      BY DEF regid
    <2>2. /\ DOMAIN n = DOMAIN q /\ n.pc = k + 1 /\ n.stack = m.stack
          /\ n.reg = [[m.reg EXCEPT !["REG_RSP"] = Home(f)] EXCEPT !["REG_RBP"] = f.rbp]
      BY <1>1, <1>5, <1>6 DEF IsMachine
    <2> QED
      BY <1>1, <2>1, <2>2 DEF IsMachine, Sp, Fp
  <1>8. Placed(n, "exit", h[k+1], f)
    BY <1>7 DEF Placed
  <1> QED
    BY <1>2, <1>7, <1>8 DEF Runs, InData, Inside

\* ret: it does not fault, and gives back what the call recorded.
LEMMA RetRuns ==
  ASSUME NEW code, NEW z, NEW h, NEW m, NEW act, NEW f, Inside(code, z, h, m, act, f),
         Placed(m, "exit", h[m.pc], f), z[m.pc] = "exit",
         NEW n, n = Step(code, m)
  PROVE  /\ n.pc = f.pc /\ Sp(n) = f.rsp /\ Fp(n) = f.rbp
         /\ n.status = "running" => Runs(code, z, h, n, Front(act))
  <1> DEFINE x == code[m.pc]
             q == Past(m)
             k == m.pc
  <1>1. /\ IsMachine(q) /\ q.pc = k + 1 /\ q.stack = m.stack /\ q.reg = m.reg
        /\ Sp(q) = Sp(m) /\ Fp(q) = Fp(m)
    BY PastIs DEF Inside
  <1>2. x = ret
    <2>1. Belongs(x, z[k], h[k])
      BY InZone DEF Inside
    <2> QED
      BY <2>1 DEF Belongs
  <1>3. x.op = "ret" /\ x.src = NoOperand /\ x.dst = NoOperand
    BY <1>2 DEF ret, Line
  <1>4. /\ Home(f) \in Int /\ Home(f) + 8 = f.rsp /\ Sp(m) = Home(f) /\ Fp(m) = f.rbp
        /\ At(Home(f)) \in 1..StackWords /\ m.stack[At(Home(f))] = f.pc
    <2>1. f.rsp \in Int /\ Home(f) \in Int /\ Len(act) \in 1..Len(act)
      BY ActivationIs DEF Inside
    <2>2. Home(f) + 8 = f.rsp
      BY <2>1 DEF Home
    <2> QED
      BY <2>1, <2>2 DEF Inside, Placed, Chain
  <1>5. ~Faults(m, x)
    <2>1. Touches(m, x) = {Sp(m)}
      <3>1. {o \in {x.src, x.dst} : o.kind = "OP_MEM" /\ x.op # "lea"} = {}
        BY <1>3 DEF NoOperand
      <3> QED
        BY <1>3, <3>1 DEF Touches, Sp
    <2>2. ~IsDatum(x)
      BY <1>3 DEF IsDatum
    <2> QED
      BY <1>4, <2>1, <2>2 DEF Faults
  <1>6. n = Execute(code, q, x)
    BY <1>5 DEF Step, Past
  <1> HIDE DEF q
  <1> DEFINE back == [q EXCEPT !.reg["REG_RSP"] = Sp(m) + 8, !.pc = f.pc]
  <1>7. n = back \/ (f.pc = 0 /\ n = [back EXCEPT !.status = "halted"])
    <2>1. n = IF back.pc = 0 THEN [back EXCEPT !.status = "halted"] ELSE back
      BY <1>1, <1>3, <1>4, <1>6 DEF Execute, Sp
    <2>2. back.pc = f.pc
      BY <1>1 DEF IsMachine
    <2> QED
      BY <2>1, <2>2
  <1>8. f.pc = 0 => n.status # "running"
    <2>1. n = IF back.pc = 0 THEN [back EXCEPT !.status = "halted"] ELSE back
      BY <1>1, <1>3, <1>4, <1>6 DEF Execute, Sp
    <2>2. back.pc = f.pc /\ [back EXCEPT !.status = "halted"].status = "halted"
      BY <1>1 DEF IsMachine
    <2> QED
      BY <2>1, <2>2
  <1>9. IsMachine(back) /\ back.pc = f.pc /\ Sp(back) = f.rsp /\ Fp(back) = f.rbp
        /\ back.stack = m.stack
    <2>1. "REG_RSP" \in regid /\ "REG_RBP" \in regid
      BY DEF regid
    <2>2. /\ DOMAIN back = DOMAIN q /\ back.pc = f.pc /\ back.stack = m.stack
          /\ back.reg = [m.reg EXCEPT !["REG_RSP"] = Sp(m) + 8]
      BY <1>1 DEF IsMachine
    <2> HIDE DEF back
    <2> QED
      BY <1>1, <1>4, <2>1, <2>2 DEF IsMachine, Sp, Fp
  <1> HIDE DEF back
  <1>10. IsMachine(n) /\ n.pc = f.pc /\ Sp(n) = f.rsp /\ Fp(n) = f.rbp /\ n.stack = m.stack
    BY <1>7, <1>9 DEF IsMachine, Sp, Fp
  <1>11. ASSUME n.status = "running"
         PROVE  Runs(code, z, h, n, Front(act))
    <2> DEFINE e == Front(act)[Len(Front(act))]
    <2>1. f.pc # 0
      BY <1>8, <1>11
    <2>2. /\ Chain(Front(act), m.stack, z, h, Len(code))
          /\ Resumes(e, f, z, h, Len(code)) /\ Keeps(m.stack, e)
      BY <2>1, ChainShrinks DEF Inside
    <2> HIDE DEF e
    <2>3. Placed(n, "body", h[n.pc], e) /\ n.pc \in 1..Len(code) /\ z[n.pc] = "body"
      BY <1>10, <2>2 DEF Resumes, Placed
    <2> QED
      BY <1>10, <2>2, <2>3 DEF Runs, InData, e
  <1> QED
    BY <1>10, <1>11

\* What becomes of the pending returns.
ReturnsAfter(act, m, x) ==
  CASE x.op = "call" -> Append(act, [pc |-> m.pc + 1, rsp |-> m.reg["REG_RSP"],
                                     rbp |-> m.reg["REG_RBP"]])
    [] x.op = "ret"  -> Front(act)
    [] OTHER         -> act

LEMMA DataRuns ==
  ASSUME NEW code, NEW z, NEW h, Ready(code, z, h), NEW m, NEW act, Runs(code, z, h, m, act),
         InData(z[m.pc]), NEW n, n = Step(code, m), n.status = "running", NEW c
  PROVE  Runs(code, z, h, n, c) /\ code[m.pc].op \notin {"call", "ret"}
  <1> DEFINE x == code[m.pc]
             k == m.pc
  <1>1. /\ IsMachine(m) /\ k \in 1..Len(code)
        /\ z[k+1] = ZoneAfter(z[k], x) /\ Belongs(x, z[k], h[k])
        /\ (z[k+1] # "between" => k + 1 \in 1..Len(code))
    BY InZone DEF Runs
  <1>2. ~Faults(m, x) /\ n = Execute(code, Past(m), x)
    BY <1>1, RunsOn
  <1>3. z[k] = "data"
    <2>1. z[k] = "datum" => IsDatum(x)
      BY <1>1 DEF Belongs
    <2> QED
      BY <1>2, <2>1 DEF Faults, InData
  <1>4. x.op = "label"
    BY <1>3 DEF Runs
  <1>5. z[k+1] = "datum"
    BY <1>1, <1>3, <1>4 DEF ZoneAfter
  <1>6. n = Past(m)
    BY <1>2, <1>4 DEF Execute
  <1>7. IsMachine(n) /\ n.pc = k + 1
    BY <1>1, <1>6, PastIs
  <1> QED
    BY <1>1, <1>4, <1>5, <1>7 DEF Runs, InData

LEMMA StepRuns ==
  ASSUME NEW code, NEW z, NEW h, Ready(code, z, h), NEW m, NEW act, Runs(code, z, h, m, act),
         m.status = "running", NEW n, n = Step(code, m)
  PROVE  /\ n.status = "running" => Runs(code, z, h, n, ReturnsAfter(act, m, code[m.pc]))
         /\ code[m.pc].op = "call" => Sp(m) % 16 = 0
         /\ code[m.pc].op = "ret" =>
              /\ n.pc = act[Len(act)].pc
              /\ Sp(n) = act[Len(act)].rsp
              /\ Fp(n) = act[Len(act)].rbp
  <1> DEFINE x == code[m.pc]
             k == m.pc
             f == act[Len(act)]
             c == ReturnsAfter(act, m, x)
  <1>1. IsMachine(m) /\ k \in 1..Len(code) /\ Belongs(x, z[k], h[k])
    BY InZone DEF Runs
  <1>2. /\ x.op = "ret" => z[k] = "exit"
        /\ x.op = "call" => z[k] = "body" /\ AlignedCall(x, h[k])
    BY <1>1, ZoneOf
  <1>3. CASE InData(z[k])
    <2>1. x.op \notin {"call", "ret"}
      BY <1>2, <1>3 DEF InData
    <2> QED
      BY <1>3, <2>1, DataRuns
  <1>4. CASE ~InData(z[k])
    <2>1. Inside(code, z, h, m, act, f) /\ Placed(m, z[k], h[k], f)
      BY <1>4 DEF Runs, Inside
    <2>2. x.op = "call" => Sp(m) % 16 = 0
      BY <1>2, <2>1, CallAlignedThere
    <2>3. n.status = "running" => ~Faults(m, x) /\ n = Execute(code, Past(m), x)
      BY <1>1, RunsOn
    <2>4. x.op \notin {"call", "ret"} => c = act
      BY DEF ReturnsAfter
    <2>5. CASE z[k] = "exit"
      <3>1. x.op = "ret"
        BY <1>1, <2>5 DEF Belongs, ret, Line
      <3>2. c = Front(act)
        BY <3>1 DEF ReturnsAfter
      <3> QED
        BY <1>2, <2>1, <2>5, <3>1, <3>2, RetRuns
    <2>6. CASE z[k] \in {"globl", "entry", "saved", "left"}
      <3>1. x.op \notin {"call", "ret"}
        BY <1>2, <2>6
      <3>2. z[k] # "body"
        BY <2>6
      <3> QED
        BY <2>1, <2>3, <2>4, <2>6, <3>1, LeavingRuns, EntryRuns, LeftRuns
    <2>7. CASE z[k] = "body"
      <3>0. x.op # "ret"
        BY <1>2, <2>7
      <3>1. CASE x.op = "call"
        <4> DEFINE g == [pc |-> m.pc + 1, rsp |-> Sp(m), rbp |-> Fp(m)]
        <4>1. c = Append(act, g)
          BY <3>1 DEF ReturnsAfter, Sp, Fp
        <4>2. n.status = "running" => Runs(code, z, h, n, Append(act, g))
          BY <1>2, <2>1, <2>3, <2>7, <3>1, CallRuns
        <4> QED
          BY <2>2, <3>0, <4>1, <4>2
      <3>2. CASE x.op # "call"
        <4>1. c = act
          BY <2>4, <3>0, <3>2
        <4>2. StraightLine(x) \/ JumpLine(x) \/ x = emit_mov(RBP, RSP)
          BY <1>1, <2>7, <3>2 DEF Belongs, AlignedCall
        <4>3. n.status = "running" => Runs(code, z, h, n, act)
          BY <2>1, <2>3, <2>7, <4>2, StraightRuns, JumpRuns, LeavingRuns
        <4> QED
          BY <3>0, <3>2, <4>1, <4>3
      <3> QED
        BY <3>1, <3>2
    <2> QED
      BY <2>1, <2>5, <2>6, <2>7 DEF Placed
  <1> QED
    BY <1>3, <1>4

-----------------------------------------------------------------------------
(* The invariant of the compiled program *)

CodeInv == TypeInv /\ SpaceInv /\ ScopesInv /\ LabelInv /\ HeightInv /\ SlotsInv /\ ZoneInv

LEMMA CodeBegins == Init => CodeInv
  <1>1. Init => TypeInv
    <2>1. Init => out = <<>>
      BY DEF Init
    <2> QED
      BY <2>1, Initially, LinesTyped DEF TypeInv
  <1> QED
    BY <1>1, ScopesBegin, LabelsBegin, HeightsBegin, ZonesBegin DEF CodeInv

LEMMA CodeKept ==
  ASSUME CodeInv, [Next]_vars
  PROVE  CodeInv'
  <1>1. Inv /\ Path(frames) /\ TypeInv /\ SpaceInv /\ ScopesInv /\ LabelInv /\ HeightInv
        /\ SlotsInv /\ ZoneInv
    BY DEF CodeInv, TypeInv, ScopesInv
  <1>2. TypeInv'
    BY <1>1, TypesKept
  <1>3. SpaceInv' /\ ScopesInv' /\ LabelInv' /\ HeightInv'
    BY <1>1, <1>2, SpaceKept, ScopesKept, LabelsKept, HeightsKept
  <1>4. SlotsInv' /\ ZoneInv'
    BY <1>1, <1>2, SlotsKept, ZonesKept
  <1> QED
    BY <1>2, <1>3, <1>4 DEF CodeInv

\* The finished code, if it links, is ready to run.
LEMMA Readied ==
  ASSUME CodeInv, phase = "done", Links(out, "main")
  PROVE  \E z, h : Ready(out, z, h)
  <1>1. /\ out \in Seq(LineType) /\ Len(out) \in Nat /\ DOMAIN out = 1..Len(out)
        /\ TypeInv /\ LabelInv /\ HeightInv /\ ZoneInv
        /\ frames = <<>>
    BY DEF CodeInv, TypeInv, Inv, IInv, WalkInv
  <1>2. PICK z, h : Laid(out, z, h) /\ z[Len(out) + 1] = "between" /\ h[Len(out) + 1] = rsp
    BY <1>1 DEF ZoneInv, ZoneNow, InBody, Zoned
  <1>3. Rises(out, rsp, h)
    BY <1>2 DEF Laid, Rises
  <1>4. \A k \in 1..Len(out) : StackBefore[k] = h[k]
    BY <1>1, <1>3, StackBeforeIs
  <1>5. JumpsKeepStack /\ LabelsResolve
    BY <1>1, HeightsMean, LabelsMean
  <1>6. \A k \in 1..Len(out) : out[k].op \in {"jmp", "je"} =>
          \E l \in 1..Len(out) : /\ out[l].op = "label"
                                 /\ out[l].dst = mk_local_label(out[k].src.num)
    BY <1>1, <1>5 DEF LabelsResolve, IsJump, IsLabel, Target
  <1>7. \A k, l \in 1..Len(out) :
          /\ out[k].op \in {"jmp", "je"} /\ out[l].op = "label"
          /\ out[l].dst = mk_local_label(out[k].src.num)
          => h[k] = h[l]
    BY <1>1, <1>4, <1>5 DEF JumpsKeepStack, Halted, IsJump, IsLabel, Target
  <1> QED
    BY <1>1, <1>2, <1>6, <1>7 DEF Ready

(***************************************************************************)
(* The inductive invariant of the machine: it runs finished code only, and *)
(* where its pc is says where %rsp and %rbp are and what is kept for every *)
(* pending return.                                                         *)
(***************************************************************************)
RunInv ==
  IsRunning => phase = "done" /\ \E z, h : Ready(out, z, h) /\ Runs(out, z, h, machine, active)

LEMMA Starting ==
  ASSUME NEW code, NEW z, NEW h, Ready(code, z, h)
  PROVE  Runs(code, z, h, Boot(code, "main"), <<[pc |-> 0, rsp |-> 0, rbp |-> Garbage]>>)
  <1> DEFINE m == Boot(code, "main")
             f == [pc |-> 0, rsp |-> 0, rbp |-> Garbage]
             act == <<f>>
             l == LineOf(code, mk_label("main"))
  <1>1. l \in 1..Len(code) /\ code[l].op = "label" /\ z[l] \in {"data", "globl"}
    BY Lands
  <1> HIDE DEF l
  <1>2. IsMachine(m) /\ m.pc = l /\ Sp(m) = -8 /\ Fp(m) = Garbage /\ m.stack[1] = 0
    BY StackAssumption DEF Boot, IsMachine, Sp, Fp, regid, l
  <1>3. /\ act \in Seq(Activation) /\ Len(act) = 1 /\ act[1] = f /\ Home(f) = -8
        /\ At(Home(f)) = 1 /\ f.rsp % 16 = 0 /\ f.pc = 0 /\ f.rbp = Garbage
    BY DEF Activation, Home, At
  <1>4. At(Home(f)) \in 1..StackWords
    BY <1>3, StackAssumption
  <1> HIDE DEF m, act, f
  <1>5. Chain(act, m.stack, z, h, Len(code))
    BY <1>2, <1>3, <1>4 DEF Chain
  <1>6. z[l] = "globl" => Placed(m, z[l], h[l], f)
    BY <1>2, <1>3 DEF Placed
  <1>7. Runs(code, z, h, m, act)
    BY <1>1, <1>2, <1>3, <1>5, <1>6 DEF Runs, InData
  <1> QED
    BY <1>7 DEF m, act, f

LEMMA Finishes == phase = "done" => ~Generate
  BY DEF Generate, gen_program, StartData, DataStep, DataSkip, StartText, TextStep, FinishProgram,
         gen_func_decl, gen_func_enter, gen_func_param, gen_func_stmt, gen_func_return,
         gen_stmt, gen_var_decl, gen_return, gen_if, gen_block, gen_comment,
         gen_expr, gen_literal, gen_identifier, gen_address, gen_unary, gen_binary,
         gen_call_enter, gen_call_arg, gen_call_pop, gen_call_return, gen_assign, gen_cast,
         gen_unsupported, Running

LEMMA RunsKept ==
  ASSUME CodeInv, RunInv, [CompiledNext]_allVars
  PROVE  RunInv'
  <1>1. CASE UNCHANGED <<vars, machine, active>>
    <2>1. out' = out /\ phase' = phase /\ machine' = machine /\ active' = active
      BY <1>1 DEF vars, outVars, walkVars
    <2> QED
      BY <2>1 DEF RunInv, IsRunning
  <1>2. CASE Compile
    <2>1. phase # "done" /\ machine' = machine
      BY <1>2, Finishes DEF Compile
    <2> QED
      BY <2>1 DEF RunInv, IsRunning
  <1>3. CASE Start
    <2>1. /\ phase = "done" /\ Links(out, "main") /\ machine' = Boot(out, "main")
          /\ active' = <<[pc |-> 0, rsp |-> 0, rbp |-> Garbage]>>
          /\ out' = out /\ phase' = phase
      BY <1>3 DEF Start, vars, outVars, walkVars
    <2>2. PICK z, h : Ready(out, z, h)
      BY <2>1, Readied
    <2>3. Runs(out, z, h, machine', active')
      BY <2>1, <2>2, Starting
    <2> QED
      BY <2>1, <2>2, <2>3 DEF RunInv
  <1>4. CASE Run
    <2>1. /\ machine.status = "running" /\ machine' = Step(out, machine)
          /\ active' = ReturnsAfter(active, machine, out[machine.pc])
          /\ out' = out /\ phase' = phase
      BY <1>4 DEF Run, IsRunning, ReturnsAfter, Current, vars, outVars, walkVars
    <2>2. PICK z, h : Ready(out, z, h) /\ Runs(out, z, h, machine, active)
      BY <2>1 DEF RunInv, IsRunning
    <2>3. machine'.status = "running" => Runs(out, z, h, machine', active')
      BY <2>1, <2>2, StepRuns
    <2> QED
      BY <2>1, <2>2, <2>3 DEF RunInv, IsRunning
  <1> QED
    BY <1>1, <1>2, <1>3, <1>4 DEF CompiledNext, allVars

MachineInv == CodeInv /\ RunInv

LEMMA MachineKept ==
  ASSUME MachineInv, [CompiledNext]_allVars
  PROVE  MachineInv'
  <1>1. [Next]_vars
    BY DEF CompiledNext, Compile, Start, Run, allVars, Next
  <1> QED
    BY <1>1, CodeKept, RunsKept DEF MachineInv

LEMMA MachineHolds == CompiledSpec => []MachineInv
  <1>1. CompiledInit => MachineInv
    <2>1. CompiledInit => RunInv
      BY DEF CompiledInit, RunInv, IsRunning, Off
    <2> QED
      BY <2>1, CodeBegins DEF CompiledInit, MachineInv
  <1>2. MachineInv /\ [CompiledNext]_allVars => MachineInv'
    BY MachineKept
  <1> QED
    BY <1>1, <1>2, PTL DEF CompiledSpec

-----------------------------------------------------------------------------
(* The properties *)

(***************************************************************************)
(* On every path that the machine takes through the code of any program    *)
(* that links, through ifs, early returns and calls to any depth, it finds *)
(* %rsp a multiple of 16 at every call: the padding that the generator     *)
(* decided on along the lines is right along the jumps and the returns.    *)
(***************************************************************************)
THEOREM CallsRunAligned == CompiledSpec => []AlignedAtRuntime
  <1>1. MachineInv => AlignedAtRuntime
    <2> SUFFICES ASSUME MachineInv, IsRunning, Current.op = "call"
                 PROVE  machine.reg["REG_RSP"] % 16 = 0
      BY DEF AlignedAtRuntime
    <2>1. PICK z, h : Ready(out, z, h) /\ Runs(out, z, h, machine, active)
      BY DEF MachineInv, RunInv
    <2>2. Sp(machine) % 16 = 0
      BY <2>1, StepRuns DEF IsRunning, Current
    <2> QED
      BY <2>2 DEF Sp
  <1> QED
    BY <1>1, MachineHolds, PTL

(***************************************************************************)
(* Every function of every program that links returns to the line after    *)
(* its call, with the %rsp and the callee-saved %rbp of its caller,        *)
(* whatever it pushed, stored and called meanwhile and however deep in     *)
(* blocks and ifs it returned from: no store to a local and no push ever   *)
(* reaches a saved %rbp or a return address.                               *)
(***************************************************************************)
THEOREM ReturnsRestore == CompiledSpec => FramesRestored
  <1>1. MachineInv /\ [CompiledNext]_allVars =>
          [IsRunning /\ Current.op = "ret" =>
             /\ machine'.pc = Last(active).pc
             /\ machine'.reg["REG_RSP"] = Last(active).rsp
             /\ machine'.reg["REG_RBP"] = Last(active).rbp]_allVars
    <2> SUFFICES ASSUME MachineInv, CompiledNext, ~UNCHANGED allVars, IsRunning,
                        Current.op = "ret"
                 PROVE  /\ machine'.pc = Last(active).pc
                        /\ machine'.reg["REG_RSP"] = Last(active).rsp
                        /\ machine'.reg["REG_RBP"] = Last(active).rbp
      OBVIOUS
    <2>1. PICK z, h : Ready(out, z, h) /\ Runs(out, z, h, machine, active)
      BY DEF MachineInv, RunInv
    <2>2. phase = "done" /\ machine.status = "running"
      BY DEF MachineInv, RunInv, IsRunning
    <2>3. machine' = Step(out, machine)
      BY <2>2, Finishes DEF CompiledNext, Compile, Start, Run, Off
    <2>4. /\ machine'.pc = active[Len(active)].pc
          /\ Sp(machine') = active[Len(active)].rsp
          /\ Fp(machine') = active[Len(active)].rbp
      BY <2>1, <2>2, <2>3, StepRuns DEF Current
    <2> QED
      BY <2>4 DEF Sp, Fp, Last
  <1> QED
    BY <1>1, MachineHolds, PTL DEF CompiledSpec, FramesRestored

(***************************************************************************)
(* Running the output beside the generator takes nothing from it and adds  *)
(* nothing to it, so that what is proved of Spec holds of the code that    *)
(* the machine runs.                                                       *)
(***************************************************************************)
LEMMA CompilesAsSpecified == CompiledSpec => Spec
  <1>1. CompiledInit => Init
    BY DEF CompiledInit
  <1>2. [CompiledNext]_allVars => [Next]_vars
    BY DEF CompiledNext, Compile, Start, Run, allVars, Next
  <1> QED
    BY <1>1, <1>2, PTL DEF CompiledSpec, Spec

(***************************************************************************)
(* The machine never runs off the end of the code nor jumps to where there *)
(* is none: every if, every early return and every function's last line    *)
(* leads to a line of the output.                                          *)
(***************************************************************************)
THEOREM NeverLost == CompiledSpec => [](IsRunning => machine.pc \in DOMAIN out)
  <1>1. MachineInv => (IsRunning => machine.pc \in DOMAIN out)
    <2> SUFFICES ASSUME MachineInv, IsRunning
                 PROVE  machine.pc \in DOMAIN out
      OBVIOUS
    <2>1. PICK z, h : Ready(out, z, h) /\ Runs(out, z, h, machine, active)
      BY DEF MachineInv, RunInv
    <2> QED
      BY <2>1 DEF Runs, Ready
  <1> QED
    BY <1>1, MachineHolds, PTL
=============================================================================
