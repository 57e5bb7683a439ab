---------------------------- MODULE MCDocumented ----------------------------
(***************************************************************************)
(* The programs on which the statements of Documented fail, next to their  *)
(* like on which they hold.                                                *)
(***************************************************************************)
EXTENDS Documented, MCAst

Typed(x, lit, e) == mk_var_decl(Id(x), mk_var_t(FALSE, lit), e)
Main(s) == Func("main", <<>>, s)

\* Two neighbouring BYTE globals; the first one is read.
AllNarrow == {<<Typed("x", "LIT_BYTE", Lit(1)), Typed("y", "LIT_BYTE", Lit(n)), Main(<<Ret(Id("x"))>>)>> :
                n \in 0..1}

\* A global initialised by an expression, read by main.
AllInitialised == {<<Let("x", e), Main(<<Ret(Id("x"))>>)>> :
                     e \in {Lit(1), mk_unary_expr("U_NEG", Lit(1)), mk_binary_expr("B_ADD", Lit(1), Lit(2))}}

\* A BYTE local given a value, returned as a BYTE.
BYTE == mk_var_t(FALSE, "LIT_BYTE")
AllBytes == {<<mk_func_decl(mk_func_t(BYTE, <<>>, Id("main")),
                            Block(<<Typed("x", "LIT_BYTE", Lit(n)), Ret(mk_cast_expr(BYTE, Id("x")))>>))>> :
               n \in 0..20}

\* Functions of up to seven parameters.
AllParamCounts == {<<Func("f", [k \in 1..n |-> "x"], <<Ret(Id("x"))>>), Main(<<Ret(Lit(1))>>)>> : n \in 1..7}

AllNames == {"x", "y", "f", "main"}
AllNodes == NodesOf(AllNarrow \cup AllInitialised \cup AllBytes \cup AllParamCounts)

\* TLC evaluates a definition once but the value of a constant at each use,
\* so the constants are given names of values.
MCName == AllNames
MCNode == AllNodes
NarrowGlobals == AllNarrow
InitialisedGlobals == AllInitialised
ByteLocals == AllBytes
ParamCounts == AllParamCounts
=============================================================================
