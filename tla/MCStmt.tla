------------------------------- MODULE MCStmt -------------------------------
(***************************************************************************)
(* Two families of programs: functions whose bodies nest blocks and ifs    *)
(* around declarations of x and y that shadow each other, a parameter or a *)
(* global; and one program per error the code generator reports.           *)
(***************************************************************************)
EXTENDS CodegenProperties, MCAst

Simple == {Let("x", Lit(1)), Let("y", Id("x")), Set("x", Id("y"))}

\* Blocks and ifs around at most two simple statements, and two-armed ifs.
Nested == {Block(s) : s \in UpTo(Simple, 2)}
          \cup {If(Id("x"), s) : s \in UpTo(Simple, 1)}
          \cup {IfElse(Id("x"), s, t) : s \in UpTo(Simple, 1), t \in [1..1 -> Simple]}

\* Blocks in ifs in blocks, with an early return and a comment.
Deep == {Block(<<Let("y", Lit(1)), IfElse(Id("y"), <<b, Ret(Id("y"))>>, <<d>>), Set("y", Id("x"))>>) :
           b \in {Block(<<d>>) : d \in Simple}, d \in Simple \cup {Block(<<Let("x", Null)>>)}}

Bodies == {s \o <<mk_comment_stmt, Ret(Id("x"))>> : s \in UpTo(Simple \cup Nested, 2)}
          \cup {<<p, d, Ret(Id("x"))>> : p \in Simple, d \in Deep}

\* The body in a function with a parameter, between a global of the same
\* name as one of its locals and a second function that sees the global.
Last2 == Func("g", <<>>, <<If(Id("x"), <<Ret(CallOf("f", <<Id("x")>>))>>), Let("x", Id("x")), Ret(Id("x"))>>)
WithGlobal == {<<Let("x", Lit(1)), Func("f", <<"y">>, b), Last2>> : b \in Bodies}
WithParam == {<<mk_comment_stmt, Func("f", <<"x", "x">>, b)>> : b \in Bodies}

\* What the parser accepts and the generator refuses, after it has already
\* emitted part of the function.
Erroneous ==
  {mk_unary_expr("U_ADDR", Lit(1)), mk_unary_expr("U_ADDR", Id("y")), Id("y"), Set("y", Lit(1)),
   mk_unary_expr("U_PLUS_PLUS", Id("x")), mk_unary_expr("U_MINUS_MINUS", Id("x")),
   mk_index_expr(Id("x"), Lit(1)), mk_assign_expr(mk_index_expr(Id("x"), Lit(1)), Lit(1)),
   CallOf("f", [k \in 1..7 |-> Lit(1)])}
Refused == {<<Func("f", <<"x">>, <<Let("x", mk_binary_expr("B_ADD", Id("x"), e)), Ret(Id("x"))>>)>> :
              e \in Erroneous}

\* More parameters than argument registers.
ManyParams == {<<Func("f", <<"x", "x", "x", "x", "x", "x", "y">>, <<Ret(Id("y"))>>)>>}

AllNames == {"x", "y", "f", "g"}
AllPrograms == WithGlobal \cup WithParam \cup Refused \cup ManyParams
AllNodes == NodesOf(AllPrograms)

\* TLC evaluates a definition once but the value of a constant at each use,
\* so the constants are given names of values.
MCName == AllNames
MCPrograms == AllPrograms
MCNode == AllNodes
=============================================================================
