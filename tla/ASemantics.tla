---------------------------- MODULE ASemantics ----------------------------
(***************************************************************************)
(* What a program of the A language means, stated without reference to     *)
(* assembly: a big-step evaluator over the AST.  It is the specification   *)
(* the compiler is checked against, not a model of code.                   *)
(*                                                                         *)
(* The language's documents fix little more than C would: a QWORD has 64   *)
(* bits, arithmetic wraps (Wrap, at the machine's word size), comparisons  *)
(* give 0 or 1, a name is the innermost declaration in scope, operands and *)
(* arguments are evaluated from left to right.                             *)
(*                                                                         *)
(* A state is the values of the globals, a stack of scopes for the locals  *)
(* of the running call, whether a division trapped, and `ret`, which holds *)
(* the value returned once the call has returned.                          *)
(***************************************************************************)
EXTENDS Ast, Sequences, SequencesExt

CONSTANT Wrap(_)  \* the word with the same low bits as an integer

Unset == <<>>
State(globals) == [globals |-> globals, scopes |-> <<>>, trap |-> FALSE, ret |-> Unset]

NoVars == [x \in {} |-> 0]
Bind(f, x, v) == [y \in DOMAIN f \cup {x} |-> IF y = x THEN v ELSE f[y]]

\* The innermost scope that declares x; 0 stands for the globals.
Owner(s, x) == Max({0} \cup {k \in DOMAIN s.scopes : x \in DOMAIN s.scopes[k]})
Read(s, x) == LET k == Owner(s, x) IN IF k = 0 THEN s.globals[x] ELSE s.scopes[k][x]
Write(s, x, v) ==
  LET k == Owner(s, x)
  IN IF k = 0 THEN [s EXCEPT !.globals[x] = v] ELSE [s EXCEPT !.scopes[k][x] = v]
Declare(s, x, v) == [s EXCEPT !.scopes[Len(s.scopes)] = Bind(@, x, v)]

Truth(b) == IF b THEN 1 ELSE 0
Magnitude(n) == IF n < 0 THEN -n ELSE n
Quotient(a, b) ==
  IF (a < 0) = (b < 0) THEN Magnitude(a) \div Magnitude(b) ELSE -(Magnitude(a) \div Magnitude(b))

Undefined(op, a, b) == op = "B_DIV" /\ (b = 0 \/ Wrap(Quotient(a, b)) # Quotient(a, b))

Apply(op, a, b) ==
  CASE op = "B_ADD"         -> Wrap(a + b)
    [] op = "B_SUB"         -> Wrap(a - b)
    [] op = "B_MUL"         -> Wrap(a * b)
    [] op = "B_DIV"         -> Quotient(a, b)
    [] op = "B_LESS"        -> Truth(a < b)
    [] op = "B_GREATER"     -> Truth(a > b)
    [] op = "B_EQUAL_EQUAL" -> Truth(a = b)
    [] op = "B_NOT_EQUAL"   -> Truth(a # b)
    [] op = "B_GEQ"         -> Truth(a >= b)
    [] op = "B_LEQ"         -> Truth(a <= b)

Negate(op, a) ==
  CASE op = "U_NEG" -> Wrap(-a)
    [] op = "U_NOT" -> Truth(a = 0)
    [] op = "U_POS" -> a

-----------------------------------------------------------------------------
FunctionNamed(prog, f) ==
  CHOOSE n \in Range(prog) : n.type = "AST_FUNC_DECL" /\ n.func_t.ident.name = f

\* An expression gives a value and a state; once a division has trapped, or
\* the call has returned, nothing more happens.
Result(v, s) == [val |-> v, st |-> s]

RECURSIVE Eval(_, _, _)
RECURSIVE EvalAll(_, _, _)
RECURSIVE Exec(_, _, _)
RECURSIVE ExecAll(_, _, _)

\* The values of a sequence of expressions.
EvalAll(prog, es, s) ==
  IF es = <<>> THEN Result(<<>>, s)
  ELSE LET first == Eval(prog, Head(es), s)
           rest == EvalAll(prog, Tail(es), first.st)
       IN Result(<<first.val>> \o rest.val, rest.st)

\* A call of f with the given arguments: the globals are shared, the locals
\* of the caller come back.
CallOn(prog, f, args, s) ==
  LET fn == FunctionNamed(prog, f)
      params == fn.func_t.params
      Bound == FoldLeftDomain(LAMBDA acc, k : Bind(acc, params[k].ident.name, args[k]), NoVars, params)
      after == ExecAll(prog, fn.block.nodes, [s EXCEPT !.scopes = <<Bound>>, !.ret = Unset])
  IN Result(IF after.ret = Unset THEN 0 ELSE after.ret[1], [after EXCEPT !.scopes = s.scopes, !.ret = s.ret])

Eval(prog, e, s) ==
  IF s.trap THEN Result(0, s)
  ELSE CASE e.type = "AST_LITERAL"    -> Result(Wrap(e.num_value), s)
         [] e.type = "AST_IDENTIFIER" -> Result(Read(s, e.name), s)
         [] e.type = "AST_CAST"       -> Eval(prog, e.inner, s)
         [] e.type = "AST_UNARY"      ->
              LET r == Eval(prog, e.expr, s)
              IN IF r.st.trap THEN r ELSE Result(Negate(e.op, r.val), r.st)
         [] e.type = "AST_BINARY"     ->
              LET r == EvalAll(prog, <<e.expr_left, e.expr_right>>, s)
              IN IF r.st.trap THEN Result(0, r.st)
                 ELSE IF Undefined(e.op, r.val[1], r.val[2]) THEN Result(0, [r.st EXCEPT !.trap = TRUE])
                 ELSE Result(Apply(e.op, r.val[1], r.val[2]), r.st)
         [] e.type = "AST_ASSIGN"     ->
              LET r == Eval(prog, e.val, s)
              IN IF r.st.trap THEN r ELSE Result(r.val, Write(r.st, e.target.name, r.val))
         [] e.type = "AST_CALL"       ->
              LET r == EvalAll(prog, e.args, s)
              IN IF r.st.trap THEN Result(0, r.st) ELSE CallOn(prog, e.callee.name, r.val, r.st)

\* The statements of a block; a `let` without a value leaves 0.
ExecAll(prog, nodes, s) ==
  IF nodes = <<>> \/ s.trap \/ s.ret # Unset THEN s
  ELSE ExecAll(prog, Tail(nodes), Exec(prog, Head(nodes), s))

InScope(prog, nodes, s) ==
  LET after == ExecAll(prog, nodes, [s EXCEPT !.scopes = Append(@, NoVars)])
  IN [after EXCEPT !.scopes = Front(@)]

Exec(prog, n, s) ==
  CASE n.type = "AST_COMMENT"  -> s
    [] n.type = "AST_BLOCK"    -> InScope(prog, n.nodes, s)
    [] n.type = "AST_VAR_DECL" ->
         IF n.assign = Null THEN Declare(s, n.ident.name, 0)
         ELSE LET r == Eval(prog, n.assign, s) IN Declare(r.st, n.ident.name, r.val)
    [] n.type = "AST_RETURN"   ->
         IF n.return_val = Null THEN [s EXCEPT !.ret = <<0>>]
         ELSE LET r == Eval(prog, n.return_val, s)
              IN IF r.st.trap THEN r.st ELSE [r.st EXCEPT !.ret = <<r.val>>]
    [] n.type = "AST_IF"       ->
         LET r == Eval(prog, n.cond, s)
         IN IF r.st.trap THEN r.st
            ELSE IF r.val # 0 THEN Exec(prog, n.then_branch, r.st)
            ELSE IF n.else_branch # Null THEN Exec(prog, n.else_branch, r.st)
            ELSE r.st
    [] OTHER                   -> Eval(prog, n, s).st

-----------------------------------------------------------------------------
\* Globals hold the value of their initialiser, or 0.
GlobalsOf(prog) ==
  FoldLeft(LAMBDA acc, n :
             IF n.type # "AST_VAR_DECL" THEN acc
             ELSE Bind(acc, n.ident.name,
                       IF n.assign = Null THEN 0 ELSE Eval(prog, n.assign, State(acc)).val),
           NoVars, prog)

\* What a run of `entry` without arguments returns, and the globals it leaves.
Run(prog, entry) == CallOn(prog, entry, <<>>, State(GlobalsOf(prog)))
=============================================================================
