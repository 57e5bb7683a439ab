------------------------------ MODULE MCParser ------------------------------
(***************************************************************************)
(* Sources for the parser: the canonical source of sample trees; programs  *)
(* with every construct, each also cut off after every token and with one  *)
(* token missing, changed or added; all short initialisers.                *)
(***************************************************************************)
EXTENDS ParserSources, MCAst, TLC

\* A source is written as the words of a program.
Fixed ==
  "fn" :> "T_FUNC" @@ "let" :> "T_LET" @@ "return" :> "T_RETURN" @@ "if" :> "T_IF"
  @@ "else" :> "T_ELSE" @@ "call" :> "T_CALL" @@ "BYTE" :> "T_BYTE" @@ "QWORD" :> "T_QWORD"
  @@ ";" :> "T_SEMICOLON" @@ "," :> "T_COMMA" @@ "=" :> "T_EQUAL" @@ "." :> "T_DOT"
  @@ "(" :> "T_LEFT_PAREN" @@ ")" :> "T_RIGHT_PAREN" @@ "{" :> "T_LEFT_BRACE"
  @@ "}" :> "T_RIGHT_BRACE" @@ "[" :> "T_LEFT_BRACKET" @@ "]" :> "T_RIGHT_BRACKET"
  @@ "+" :> "T_PLUS" @@ "-" :> "T_MINUS" @@ "*" :> "T_STAR" @@ "!" :> "T_NOT" @@ "&" :> "T_AND"
  @@ "<" :> "T_LESS" @@ "==" :> "T_EQUAL_EQUAL" @@ "++" :> "T_PLUS_PLUS"
  @@ "//" :> "T_COMMENT" @@ "text" :> "T_STRING_LIT" @@ "EOF" :> "T_EOF"
Numbers == "1" :> 1 @@ "2" :> 2
Lex(word) ==
  IF word \in DOMAIN Fixed THEN Token(Fixed[word], "", 0)
  ELSE IF word \in DOMAIN Numbers THEN Token("T_NUMBER_LIT", "", Numbers[word])
  ELSE Token("T_IDENTIFIER", word, 0)
Tokens(words) == [k \in DOMAIN words |-> Lex(words[k])] \o <<Lex("EOF")>>

-----------------------------------------------------------------------------
(* Samples *)

Leaves == {Id("x"), Lit(1)}
BYTE == mk_var_t(FALSE, "LIT_BYTE")
ADR == mk_var_t(TRUE, "LIT_BYTE")
ROW == mk_array_t(FALSE, "LIT_QWORD", 2)

\* Every way to put l and r below an operator, a call or an index.
Over(L, R) ==
  Binaries(binary_expr_t, L, R) \cup Unaries(unary_expr_t, L)
  \cup {mk_cast_expr(t, l) : t \in {BYTE, ADR, ROW, QWORD}, l \in L}
  \cup {mk_index_expr(l, r) : l \in L, r \in R}
  \cup Calls("f", {<<l, r>> : l \in L, r \in R} \cup {<<l>> : l \in L} \cup {<<>>})

Small == Over({Id("x")}, {Lit(1)}) \cup {mk_string_literal}
Targets == {Id("x"), mk_index_expr(Id("x"), Lit(1)), mk_index_expr(mk_index_expr(Id("x"), Lit(1)), Id("x"))}
Assigns(V) == {mk_assign_expr(t, v) : t \in Targets, v \in V}
Large == Over(Small, {Lit(1)}) \cup Over({Id("x")}, Small)
         \cup Over(Assigns({Lit(1)}), {Id("x")}) \cup Over({Id("x")}, Assigns({Lit(1)}))

\* An expression as initialiser, and as statement.
AsInit(e) == <<Let("x", e)>>
AsStmt(e) == <<Func("f", <<>>, <<e, Ret(Lit(1))>>)>>

Ifs == {If(Id("x"), s) : s \in {<<>>, <<Ret(Id("x"))>>}}
       \cup {IfElse(Id("x"), s, t) : s, t \in {<<>>, <<Ret(Id("x"))>>}}
Inside == Ifs \cup {Block(<<i>>) : i \in Ifs} \cup {mk_comment_stmt, mk_var_decl(Id("x"), ROW, Null)}
Funcs == {Func("f", p, <<i, j, Ret(mk_assign_expr(Id("x"), Id("y")))>>) :
            i, j \in Inside, p \in {<<>>, <<"x", "y">>}}
Typed == {mk_func_decl(mk_func_t(t, <<mk_func_param(Id("x"), u), mk_func_param(Id("y"), t)>>, Id("g")),
                       Block(<<mk_var_decl(Id("z"), u, Id("x")), Ret(Id("x"))>>)) :
            t, u \in {BYTE, ADR, ROW, QWORD}}

AllSamples ==
  {s \in {AsInit(e) : e \in Large} \cup {AsStmt(e) : e \in Small \cup Assigns(Small) \cup Large}
         \cup {<<f>> : f \in Funcs \cup Typed} \cup {<<Let("x", Null), mk_comment_stmt, f, f>> : f \in Typed} :
     Expressible(Source(s))}

-----------------------------------------------------------------------------
(* Whole programs, and what can happen to them *)

Programs ==
  {<<"//", "let", "BYTE", "x", "=", "1", ";", "fn", "f", "(", "x", ",", "&", "BYTE", "y", ")",
     "{", "let", "[", "2", "]", "z", ";", "return", "x", ";", "}">>,
   <<"fn", "QWORD", "f", "(", ")", "{", "if", "(", "x", ")", "{", "return", "1", ";", "}",
     "else", "{", "//", "return", "2", ";", "}", "}">>,
   <<"fn", "f", "(", ")", "{", "{", "x", "=", "1", ";", "}", ";", "if", "(", "x", ")", "{",
     "return", "x", "=", "2", ";", "}", "}">>,
   <<"fn", "f", "(", "x", ",", ")", "{", "call", "g", "(", "x", ",", "1", ",", ")", ";",
     "return", "(", "BYTE", ")", "x", "[", "1", "]", ";", "}">>,
   <<"fn", "f", "(", ")", "{", "if", "(", "x", ")", "return", "1", ";", "return", "2", ";", "}">>,
   <<"let", "x", "=", "(", "1", "+", "x", ")", "*", "call", "f", "(", ")", "[", "2", "]", "==", "!", "x", ";">>,
   <<"fn", "f", "(", ")", "{", "x", "[", "1", "]", "=", "y", "=", "-", "(", "&", "x", ")", "+", "2", ";",
     "return", "++", "x", ";", "}">>,
   <<"fn", "f", "(", ")", "{", "call", "f", "(", "text", ")", "+", "1", ";", "return", "1", ";", "}">>}

Strays == {"x", "1", ";", ",", "(", ")", "{", "}", "=", "]", "fn", "let", "return", "if", "call",
           "&", "BYTE", "//", "."}

CutOff(p) == {SubSeq(p, 1, k) : k \in 0..Len(p)}
Missing(p) == {RemoveAt(p, k) : k \in DOMAIN p}
Changed(p) == {[p EXCEPT ![k] = w] : k \in DOMAIN p, w \in Strays}
Added(p) == {InsertAt(p, k, w) : k \in DOMAIN p, w \in Strays}

Damaged == UNION {CutOff(p) \cup Missing(p) \cup Changed(p) \cup Added(p) : p \in Programs}

\* The initialisers of at most MaxWords words.
MaxWords == 3
Words == {"x", "1", "(", ")", "BYTE", "&", "+", "[", "]", "=", "call"}
Initialisers ==
  {<<"let", "x", "=">> \o e \o <<";">> : e \in UNION {[1..n -> Words] : n \in 0..MaxWords}}

AllInputs == {Source(s) : s \in AllSamples} \cup {Tokens(p) : p \in Damaged \cup Initialisers}

\* TLC evaluates a definition once but the value of a constant at each use,
\* so the constants are given names of values.
MCSamples == AllSamples
MCInputs == AllInputs
=============================================================================
