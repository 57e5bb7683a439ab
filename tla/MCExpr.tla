------------------------------- MODULE MCExpr -------------------------------
(***************************************************************************)
(* fn f(x, y) { return E; } for every expression E of the shapes below:    *)
(* operators over operators, calls in operands, operators and calls in     *)
(* arguments, assignments and casts in operands.                           *)
(***************************************************************************)
EXTENDS CodegenProperties, MCAst

E0 == {Lit(1), Id("x")}

\* Every operator on leaves.
E1 == Unaries({"U_NEG", "U_NOT", "U_POS"}, {Id("x")})
      \cup {mk_unary_expr("U_ADDR", Id("x")), mk_cast_expr(QWORD, Id("x")), Set("x", Lit(1))}
      \cup Binaries(binary_expr_t, {Id("x")}, {Lit(1)})
      \cup Calls("f", {<<>>, <<Lit(1)>>, <<Id("x"), Lit(1)>>})

\* A few of them, as operands and arguments of the next level.
Few == {Id("x"), mk_unary_expr("U_NEG", Id("x")),
        mk_binary_expr("B_SUB", Id("x"), Lit(1)), CallOf("f", <<>>), CallOf("f", <<Id("x")>>)}

E2 == Unaries({"U_NEG"}, E1)
      \cup Binaries({"B_SUB", "B_DIV", "B_LESS"}, E1 \cup E0, Few)
      \cup Calls("f", [1..1 -> E1] \cup [1..2 -> Few] \cup [1..3 -> Few])

\* Calls and operators three and four deep, and a call with all six arguments.
E3 == Binaries({"B_ADD"}, {Id("x")}, Calls("f", [1..2 -> Few]))
      \cup Binaries({"B_ADD"}, Calls("f", [1..2 -> Few]), Binaries({"B_MUL"}, Few, Few))
      \cup {CallOf("f", <<Lit(1), Id("x"), Lit(1), Id("x"), e, d>>) : e, d \in Few}

AllNames == {"x", "y", "f", "g"}
Start == Func("f", <<"x", "y">>, <<Ret(Lit(1))>>)
AllPrograms == {<<Func("f", <<"x", "y">>, <<Ret(e)>>)>> : e \in E0 \cup E1 \cup E2 \cup E3}
               \cup {<<Start, Func("g", <<"x">>, <<If(e, <<Ret(e)>>), Ret(Lit(1))>>)>> :
                      e \in Binaries({"B_SUB"}, E0, Calls("f", [1..1 -> Few]))}

AllNodes == NodesOf(AllPrograms)

\* TLC evaluates a definition once but the value of a constant at each use,
\* so the constants are given names of values.
MCName == AllNames
MCPrograms == AllPrograms
MCNode == AllNodes
=============================================================================
