------------------------------- MODULE MCAst -------------------------------
(***************************************************************************)
(* Finite sets of programs for TLC, and the values of Node and LocalsSum   *)
(* that go with a set of programs.  Recursive operators live here, away    *)
(* from the modules theorems are about.                                    *)
(***************************************************************************)
EXTENDS Ast, Sequences, SequencesExt

QWORD == mk_var_t(FALSE, "LIT_QWORD")
Id(x) == mk_identifer_expr(x)
Lit(n) == mk_literal_expr(n)
Let(x, e) == mk_var_decl(Id(x), QWORD, e)
Set(x, e) == mk_assign_expr(Id(x), e)
CallOf(f, args) == mk_call_expr(Id(f), args)
Ret(e) == mk_return_stmt(e)
Block(s) == mk_block_stmt(s)
If(c, s) == mk_if_stmt(c, Block(s), Null)
IfElse(c, s, t) == mk_if_stmt(c, Block(s), Block(t))

Param(x) == mk_func_param(Id(x), QWORD)
Func(f, params, s) ==
  mk_func_decl(mk_func_t(QWORD, [k \in DOMAIN params |-> Param(params[k])], Id(f)), Block(s))

\* The sequences over S of at most n elements.
UpTo(S, n) == UNION {[1..k -> S] : k \in 0..n}

\* Operators over operands drawn from L and R; calls of f.
Unaries(ops, E) == {mk_unary_expr(op, e) : op \in ops, e \in E}
Binaries(ops, L, R) == {mk_binary_expr(op, l, r) : op \in ops, l \in L, r \in R}
Calls(f, argLists) == {CallOf(f, a) : a \in argLists}

-----------------------------------------------------------------------------
\* Every node of a set of programs, level by level.  No tree of a run is
\* MaxHeight high, or a node MaxWidth wide (the assumptions of Codegen, which
\* say that Node is closed, check it).  Sets of items, where UNION would be
\* natural, because TLC builds them in less than quadratic time.
MaxHeight == 9
MaxWidth == 7
NodesOf(programs) ==
  LET Item(s, k, default) == IF k \in DOMAIN s THEN s[k] ELSE default
      Children(S) == {Item(Below(n), k, Null) : n \in S, k \in 1..MaxWidth} \ {Null}
      level[h \in 0..MaxHeight] ==
        IF h = 0 THEN LET tops == {Item(p, k, p[1]) : p \in programs, k \in 1..MaxWidth}
                      IN [new |-> tops, all |-> tops]
        ELSE LET upper == level[h - 1]
                 new == Children(upper.new)
             IN [new |-> new, all |-> upper.all \cup new]
  IN level[MaxHeight].all

\* count_locals and its running sums over a block, by recursion.
RECURSIVE Locals(_)
RECURSIVE SumTo(_, _)
SumTo(b, k) == IF k = 0 THEN 0 ELSE SumTo(b, k - 1) + Locals(b.nodes[k])
Locals(n) ==
  CASE n.type = "AST_BLOCK"    -> SumTo(n, Len(n.nodes))
    [] n.type = "AST_VAR_DECL" -> 8
    [] n.type = "AST_IF"       -> Locals(n.then_branch) + Locals(n.else_branch)
    [] OTHER                   -> 0
=============================================================================
