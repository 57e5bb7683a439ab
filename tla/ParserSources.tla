--------------------------- MODULE ParserSources ---------------------------
(***************************************************************************)
(* The canonical source of a tree, and that the parser reads it back.      *)
(***************************************************************************)
EXTENDS ParserProperties

CONSTANT
  Samples  \* trees whose printed form is among the Inputs

-----------------------------------------------------------------------------
(***************************************************************************)
(* A tree's canonical source: the tokens that stand for it, with no more   *)
(* parentheses than precedence and associativity call for.                 *)
(***************************************************************************)
InParens(s) == Sign("T_LEFT_PAREN") \o s \o Sign("T_RIGHT_PAREN")

\* The default type may be left out of a declaration, but not of an array:
\* a parameter does not start with '['.
Type(t, cast) ==
  LET array == "array_len" \in DOMAIN t
      implicit == t.lit = "LIT_QWORD" /\ ~t.is_adr /\ ~cast /\ ~array
  IN (IF t.is_adr THEN Sign("T_AND") ELSE <<>>)
     \o (IF implicit THEN <<>> ELSE Sign(TokenOf(t.lit, lit_of)))
     \o (IF array THEN Sign("T_LEFT_BRACKET") \o Number(t.array_len) \o Sign("T_RIGHT_BRACKET")
         ELSE <<>>)

\* How tightly an expression binds, from an assignment to a primary.
Assignment == 0
Equality == 1
Unary == 5
Postfix == 6
Primary == 7
Levels == <<"parse_equal", "parse_compare", "parse_term", "parse_factor">>
LevelOf(op) == CHOOSE k \in DOMAIN Levels : op \in Range(binary_op[Levels[k]])

Binding(n) ==
  CASE n.type = "AST_ASSIGN" -> Assignment
    [] n.type = "AST_BINARY" -> LevelOf(n.op)
    [] n.type = "AST_UNARY"  -> Unary
    [] n.type = "AST_INDEX"  -> Postfix
    [] OTHER                 -> Primary

Separated(parts) ==
  FoldLeft(LAMBDA acc, s : IF acc = <<>> THEN s ELSE acc \o Sign("T_COMMA") \o s, <<>>, parts)

\* The source of an expression where one that binds as tightly as `least`
\* is expected.
RECURSIVE Expr(_, _)
Expr(n, least) ==
  LET bare ==
        CASE n.type = "AST_IDENTIFIER" -> Ident(n)
          [] n.type = "AST_LITERAL" ->
               IF n.num_value = INT_MIN THEN Sign("T_STRING_LIT") ELSE Number(n.num_value)
          [] n.type = "AST_ASSIGN" ->
               Expr(n.target, Equality) \o Sign("T_EQUAL") \o Expr(n.val, Assignment)
          [] n.type = "AST_BINARY" ->
               LET level == LevelOf(n.op)
               IN Expr(n.expr_left, level) \o Sign(TokenOf(n.op, binary_op[Levels[level]]))
                  \o Expr(n.expr_right, level + 1)
          [] n.type = "AST_UNARY" -> Sign(TokenOf(n.op, unary_op)) \o Expr(n.expr, Unary)
          [] n.type = "AST_INDEX" ->
               Expr(n.target, Postfix)
               \o Sign("T_LEFT_BRACKET") \o Expr(n.index, Equality) \o Sign("T_RIGHT_BRACKET")
          [] n.type = "AST_CAST" -> InParens(Type(n.var_t, TRUE)) \o Expr(n.inner, Primary)
          [] n.type = "AST_CALL" ->
               Sign("T_CALL") \o Ident(n.callee)
               \o InParens(Separated([k \in DOMAIN n.args |-> Expr(n.args[k], Equality)]))
  IN IF Binding(n) < least THEN InParens(bare) ELSE bare

Decl(var_t, ident) == Type(var_t, FALSE) \o Ident(ident)

\* An expression that starts with a call but is more than one is no
\* statement unless it is in parentheses.
Statement(n) ==
  LET e == Expr(n, Assignment)
  IN IF e[1].type = "T_CALL" /\ n.type # "AST_CALL" THEN InParens(e) ELSE e

RECURSIVE Stmt(_)
Stmt(n) ==
  LET Block(b) == Sign("T_LEFT_BRACE")
                  \o FoldLeft(LAMBDA acc, m : acc \o Stmt(m), <<>>, b.nodes) \o Sign("T_RIGHT_BRACE")
  IN CASE n.type = "AST_COMMENT" -> Sign("T_COMMENT")
       [] n.type = "AST_RETURN" ->
            Sign("T_RETURN") \o Expr(n.return_val, Assignment) \o Sign("T_SEMICOLON")
       [] n.type = "AST_IF" ->
            Sign("T_IF") \o InParens(Expr(n.cond, Equality)) \o Block(n.then_branch)
            \o (IF n.else_branch = Null THEN <<>> ELSE Sign("T_ELSE") \o Block(n.else_branch))
       [] n.type = "AST_BLOCK" -> Block(n) \o Sign("T_SEMICOLON")
       [] n.type = "AST_VAR_DECL" ->
            Sign("T_LET") \o Decl(n.var_t, n.ident)
            \o (IF n.assign = Null THEN <<>> ELSE Sign("T_EQUAL") \o Expr(n.assign, Equality))
            \o Sign("T_SEMICOLON")
       [] n.type = "AST_FUNC_DECL" ->
            LET f == n.func_t
            IN Sign("T_FUNC") \o Decl(f.ret_t, f.ident)
               \o InParens(Separated([k \in DOMAIN f.params |->
                                        Decl(f.params[k].var_t, f.params[k].ident)]))
               \o Block(n.block)
       [] OTHER -> Statement(n) \o Sign("T_SEMICOLON")

Source(nodes) == FoldLeft(LAMBDA acc, n : acc \o Stmt(n), <<>>, nodes) \o Sign("T_EOF")

\* No source is a sample's when it has a '(' before the address of
\* something: that reads as the start of a cast.
Expressible(s) ==
  \A k \in 1..Len(s) - 2 :
    ~(s[k].type = "T_LEFT_PAREN" /\ s[k + 1].type = "T_AND" /\ s[k + 2].type \notin DOMAIN lit_of)

-----------------------------------------------------------------------------
(* Safety *)

CanonicalSources == {Source(s) : s \in Samples}

\* No source is the canonical source of two samples.
ASSUME SourcesDiffer == Cardinality(CanonicalSources) = Cardinality(Samples)

(***************************************************************************)
(* What is written is what is built: the canonical source of a tree is     *)
(* accepted and gives that tree again.  So every tree the generator can be *)
(* given can be written down, each operator binds as tightly as its level  *)
(* says, chains associate to the left and assignments to the right, a cast *)
(* binds tighter than an index and an index tighter than a prefix.         *)
(***************************************************************************)
RoundTrip ==
  phase # "parse" /\ tokens \in CanonicalSources =>
    phase = "done" /\ program \in Samples /\ Source(program) = tokens
=============================================================================
