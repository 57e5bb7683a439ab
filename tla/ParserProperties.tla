-------------------------- MODULE ParserProperties --------------------------
(***************************************************************************)
(* What the parser promises about the list of tokens and the tree.         *)
(***************************************************************************)
EXTENDS Parser

AstPrinter == INSTANCE Printer

-----------------------------------------------------------------------------
(***************************************************************************)
(* What the tokens of a source mean, and what tokens a tree stands for.    *)
(***************************************************************************)
Sign(type) == <<Token(type, "", 0)>>
Ident(n) == <<Token("T_IDENTIFIER", n.name, 0)>>
Number(k) == <<Token("T_NUMBER_LIT", "", k)>>

TokenOf(op, table) == CHOOSE t \in DOMAIN table : table[t] = op

\* What must be the same in all sources of a tree: all tokens but parentheses,
\* commas and the default type; names of identifiers, values of numbers.
Meaning(t) ==
  CASE t.type \in {"T_LEFT_PAREN", "T_RIGHT_PAREN", "T_COMMA", "T_QWORD"} -> <<>>
    [] t.type = "T_IDENTIFIER" -> Ident(t)
    [] t.type = "T_NUMBER_LIT" -> Number(t.num)
    [] OTHER                   -> Sign(t.type)
Content(s) == FlattenSeq([k \in DOMAIN s |-> Meaning(s[k])])

TypeWords(t) ==
  (IF t.is_adr THEN Sign("T_AND") ELSE <<>>)
  \o (IF t.lit = "LIT_QWORD" THEN <<>> ELSE Sign(TokenOf(t.lit, lit_of)))
  \o (IF "array_len" \in DOMAIN t
      THEN Sign("T_LEFT_BRACKET") \o Number(t.array_len) \o Sign("T_RIGHT_BRACKET") ELSE <<>>)

ParamWords(params) ==
  FlattenSeq([k \in DOMAIN params |-> TypeWords(params[k].var_t) \o Ident(params[k].ident)])

binary_sign ==
  [t \in UNION {DOMAIN binary_op[fn] : fn \in DOMAIN binary_op} |->
     binary_op[CHOOSE fn \in DOMAIN binary_op : t \in DOMAIN binary_op[fn]][t]]

\* A statement in a block; the words of the nodes below it are given.
StatementWords(words, n) ==
  IF n.type \in {"AST_VAR_DECL", "AST_COMMENT", "AST_IF"} THEN words[n]
  ELSE words[n] \o Sign("T_SEMICOLON")

\* The words of a node: those of its parts from left to right.
NodeWords(words, n) ==
  CASE n.type = "AST_IDENTIFIER" -> Ident(n)
    [] n.type = "AST_LITERAL"    -> IF n.num_value = INT_MIN THEN Sign("T_STRING_LIT")
                                    ELSE Number(n.num_value)
    [] n.type = "AST_UNARY"      -> Sign(TokenOf(n.op, unary_op)) \o words[n.expr]
    [] n.type = "AST_BINARY"     -> words[n.expr_left] \o Sign(TokenOf(n.op, binary_sign))
                                    \o words[n.expr_right]
    [] n.type = "AST_ASSIGN"     -> words[n.target] \o Sign("T_EQUAL") \o words[n.val]
    [] n.type = "AST_CALL"       -> Sign("T_CALL") \o Ident(n.callee)
                                    \o FlattenSeq([k \in DOMAIN n.args |-> words[n.args[k]]])
    [] n.type = "AST_CAST"       -> TypeWords(n.var_t) \o words[n.inner]
    [] n.type = "AST_INDEX"      -> words[n.target] \o Sign("T_LEFT_BRACKET") \o words[n.index]
                                    \o Sign("T_RIGHT_BRACKET")
    [] n.type = "AST_RETURN"     -> Sign("T_RETURN") \o words[n.return_val]
    [] n.type = "AST_IF"         -> Sign("T_IF") \o words[n.cond] \o words[n.then_branch]
                                    \o (IF n.else_branch = Null THEN <<>>
                                        ELSE Sign("T_ELSE") \o words[n.else_branch])
    [] n.type = "AST_BLOCK"      -> Sign("T_LEFT_BRACE")
                                    \o FlattenSeq([k \in DOMAIN n.nodes |->
                                                     StatementWords(words, n.nodes[k])])
                                    \o Sign("T_RIGHT_BRACE")
    [] n.type = "AST_VAR_DECL"   -> Sign("T_LET") \o TypeWords(n.var_t) \o Ident(n.ident)
                                    \o (IF n.assign = Null THEN <<>>
                                        ELSE Sign("T_EQUAL") \o words[n.assign])
                                    \o Sign("T_SEMICOLON")
    [] n.type = "AST_FUNC_DECL"  -> Sign("T_FUNC") \o TypeWords(n.func_t.ret_t)
                                    \o Ident(n.func_t.ident) \o ParamWords(n.func_t.params)
                                    \o words[n.block]
    [] OTHER                     -> Sign("T_COMMENT")

\* The words of the program, from its nodes.
ProgramWords(nodes) ==
  LET words[n \in nodes] == NodeWords(words, n)
  IN FlattenSeq([k \in DOMAIN program |-> words[program[k]]]) \o Sign("T_EOF")

-----------------------------------------------------------------------------
(* Safety *)

(***************************************************************************)
(* Nothing is skipped, invented or reordered: the tokens of an accepted    *)
(* source are those that its tree stands for, read from left to right, but *)
(* for parentheses, commas and the default type.  All its nodes are looked *)
(* at, since they nest less deeply than there are tokens.                  *)
(***************************************************************************)
NothingLost ==
  /\ NestingBounded
  /\ phase = "done" => Content(tokens) = ProgramWords(Within(Len(tokens)))

\* What the generator refuses wherever it meets it.
Unsupported(n) ==
  \/ n.type = "AST_INDEX"
  \/ n.type = "AST_UNARY" /\ n.op \in {"U_PLUS_PLUS", "U_MINUS_MINUS"}

(***************************************************************************)
(* Printing the tree, which main does in between, takes no program away    *)
(* from the generator: the printer ends normally unless an index, a ++ or  *)
(* a -- is in the program.  The generator refuses those itself, except in  *)
(* the initialiser of a global.                                            *)
(***************************************************************************)
PrinterTakesNothing ==
  phase = "done" =>
    LET nodes == Within(Len(tokens))
    IN \/ AstPrinter!print_ast(program, nodes) = "ok"
       \/ \E n \in nodes : Unsupported(n)

-----------------------------------------------------------------------------
(***************************************************************************)
(* The parser always stops: no list of tokens, complete, cut off or wrong, *)
(* keeps one of its loops going.                                           *)
(***************************************************************************)
Termination == <>(phase # "parse")
=============================================================================
