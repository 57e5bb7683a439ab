----------------------------- MODULE MCCompiled -----------------------------
(***************************************************************************)
(* Programs to compile and run: expressions over two variables with        *)
(* several pairs of values, and statements over locals and globals.        *)
(***************************************************************************)
EXTENDS CompiledProperties, MCAst

Neg(e) == mk_unary_expr("U_NEG", e)
Bin(op, l, r) == mk_binary_expr(op, l, r)

-----------------------------------------------------------------------------
\* Expressions, with calls of f, which subtracts, divides and writes to g.
Leaf == {Id("x"), Id("y"), Lit(2)}
Level1 == Binaries(binary_expr_t, {Id("x")}, {Id("y")})
          \cup Unaries({"U_NEG", "U_NOT", "U_POS"}, {Id("x")})
          \cup {CallOf("f", <<Id("x"), Id("y")>>), Set("x", Id("y")), mk_cast_expr(QWORD, Id("y"))}
Operands == Leaf \cup {Bin("B_SUB", Id("y"), Id("x")), Bin("B_LESS", Id("x"), Id("y")),
                       CallOf("f", <<Id("x"), Lit(1)>>), Set("x", Bin("B_ADD", Id("x"), Lit(1)))}
Level2 == Binaries({"B_SUB", "B_MUL", "B_DIV", "B_GEQ"}, Level1, Operands)
          \cup Binaries({"B_SUB", "B_DIV"}, Operands, Level1)
          \cup Unaries({"U_NOT", "U_NEG"}, Level1)
          \cup {CallOf("f", <<a, b>>) : a \in Level1, b \in Operands}
Level3 == {Bin("B_SUB", Lit(5), Bin("B_SUB", a, CallOf("f", <<b, CallOf("f", <<b, Id("x")>>)>>))) :
             a \in Operands, b \in Operands}

F == Func("f", <<"a", "b">>,
          <<Set("g", Bin("B_ADD", Id("g"), Lit(1))),
            Let("q", Bin("B_DIV", Id("a"), Lit(2))),
            Ret(Bin("B_SUB", Id("q"), Id("b")))>>)
Pairs == {<<Lit(7), Neg(Lit(3))>>, <<Lit(100), Lit(0)>>}
Evaluate(e, p) == <<Let("g", Lit(3)), F,
                    Func("main", <<>>, <<Let("x", p[1]), Let("y", p[2]), Ret(e)>>)>>
Expressions == {Evaluate(e, p) : e \in Level1 \cup Level2 \cup Level3, p \in Pairs}

\* Overflow, and the two divisions that trap.
Edges == {Evaluate(e, <<Lit(127), p>>) :
            e \in Level1 \cup {Bin("B_DIV", Neg(Bin("B_ADD", Id("x"), Lit(1))), Id("y"))},
            p \in {Lit(0), Neg(Lit(1)), Lit(127)}}

\* Six arguments, each telling its place.
Weigh == Func("w", <<"a", "b", "c", "d", "e", "x">>,
              <<Ret(Bin("B_SUB", Bin("B_ADD", Id("a"), Bin("B_MUL", Lit(2), Id("b"))),
                        Bin("B_SUB", Bin("B_MUL", Lit(3), Id("c")),
                            Bin("B_ADD", Bin("B_MUL", Id("d"), Id("e")), Id("x")))))>>)
SixArgs == {<<Weigh, Func("main", <<>>, <<Ret(Bin("B_ADD", Lit(1), CallOf("w", args)))>>)>> :
              args \in {<<Lit(1), Lit(2), Lit(3), Lit(4), Lit(5), Lit(6)>>,
                        <<CallOf("w", [k \in 1..6 |-> Lit(k)]), Lit(2), Lit(0), Lit(4), Lit(5), Lit(9)>>}}

-----------------------------------------------------------------------------
\* Statements: declarations that shadow, in blocks, both arms and the body.
Simple == {Let("x", Lit(4)), Set("x", Bin("B_ADD", Id("x"), Id("g"))), Set("g", Id("x"))}
Arms == UpTo(Simple, 2)
Compound == {Block(s) : s \in Arms}
            \cup {IfElse(Bin("B_EQUAL_EQUAL", Id("x"), Lit(c)), s, t) :
                    c \in {2, 3}, s \in UpTo(Simple, 1), t \in UpTo(Simple, 1)}
            \cup {If(Id("g"), s \o <<Ret(Bin("B_MUL", Id("x"), Lit(3)))>>) : s \in UpTo(Simple, 1)}
Statements == {<<Let("g", Lit(1)),
                 Func("main", <<>>, <<Let("x", Lit(2)), Let("y", Lit(9))>> \o s
                                    \o <<Ret(Bin("B_SUB", Id("y"), Id("x")))>>)>> :
                 s \in {<<a, b>> : a \in Simple \cup Compound, b \in Compound}}

\* Recursion, down to 0, with a local in every activation.
Recursive ==
  {<<Let("g", Null),
     Func("fib", <<"x">>,
          <<IfElse(Bin("B_LEQ", Id("x"), Lit(1)), <<Ret(Id("x"))>>, <<mk_comment_stmt>>),
            Let("y", CallOf("fib", <<Bin("B_SUB", Id("x"), Lit(1))>>)),
            Set("g", Bin("B_ADD", Id("g"), Lit(1))),
            Ret(mk_cast_expr(QWORD, Bin("B_ADD", CallOf("fib", <<Bin("B_SUB", Id("x"), Lit(2))>>), Id("y"))))>>),
     Func("main", <<>>, <<Let("y", Lit(n)), Ret(CallOf("fib", <<Id("y")>>))>>)>> : n \in 0..6}

\* What the generator takes but as or ld do not: a call of a function that is
\* not there, a global and a function with one name, no main.  And an error.
Main(e) == Func("main", <<>>, <<Ret(e)>>)
Unlinked == {<<Main(CallOf("f", <<Lit(1)>>))>>, <<Let("f", Lit(1)), Let("g", Lit(3)), F, Main(Id("f"))>>,
             <<Let("g", Lit(3)), F>>, <<Main(Id("x"))>>}

-----------------------------------------------------------------------------
AllNames == {"x", "y", "a", "b", "c", "d", "e", "f", "g", "q", "w", "fib", "main"}
AllPrograms == Expressions \cup Edges \cup SixArgs \cup Statements \cup Recursive \cup Unlinked
AllNodes == NodesOf(AllPrograms)

\* TLC evaluates a definition once but the value of a constant at each use,
\* so the constants are given names of values.
MCName == AllNames
MCPrograms == AllPrograms
MCNode == AllNodes
=============================================================================
