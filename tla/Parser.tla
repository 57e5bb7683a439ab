------------------------------- MODULE Parser -------------------------------
(***************************************************************************)
(* The parser (parser.c): recursive descent over the tokenizer's list, one *)
(* parse_* function per construct.                                         *)
(*                                                                         *)
(* `frames` is the C call stack, `Top` its youngest frame; each action is  *)
(* what one function does from one recursive call to the next.  A frame    *)
(* records the function and `vals`, what it has in hand: the nodes its     *)
(* callees have returned and the operators read, oldest first, so that the *)
(* length of vals is where the function is.  Functions that call nothing   *)
(* recursive are operators on the index of their first token.              *)
(*                                                                         *)
(* A failed check is compile_error, exit(1) on the spot, or an assert.     *)
(***************************************************************************)
EXTENDS Ast, SequencesExt

CONSTANT
  Inputs  \* the token lists to parse

VARIABLES
  tokens,  \* parser->items
  idx,     \* parser->idx, counted from 0; cur_tok is tokens[idx + 1]
  frames,  \* the parse_* calls in progress
  phase    \* "parse", "done", "error" (compile_error) or "abort" (assert)

vars == <<tokens, idx, frames, phase>>

\* A token: its type, the name an identifier has and the number strtoll
\* reads from a number's lexeme.
Token(type, name, num) == [type |-> type, name |-> name, num |-> num]

\* What the tokenizer returns: T_EOF ends the list and occurs nowhere else,
\* and a number has no sign.
ASSUME InputsAssumption ==
  \A s \in Inputs :
    /\ s \in Seq([type : STRING, name : STRING, num : Nat])
    /\ Len(s) > 0
    /\ \A k \in 1..Len(s) : s[k].type = "T_EOF" <=> k = Len(s)

-----------------------------------------------------------------------------
(* Looking at tokens *)

\* The type of the token at index k.
Kind(k) == tokens[k + 1].type
tok == Kind(idx)

lit_of == [T_BYTE |-> "LIT_BYTE", T_WORD |-> "LIT_WORD",
           T_DWORD |-> "LIT_DWORD", T_QWORD |-> "LIT_QWORD"]

is_var_type(type) == type = "T_AND" \/ type \in DOMAIN lit_of

\* The result of an operator that reads tokens from an index on: the index
\* after them and the nodes, or no nodes when it called compile_error.
Parsed(k, nodes) == [idx |-> k, nodes |-> nodes]
Failed(k) == Parsed(k, <<>>)

\* Reads [ '&' ] [ type ] [ '[' number ']' ]; a '&' needs its type.
parse_var_type(k) ==
  LET is_adr == Kind(k) = "T_AND"
      at == IF is_adr THEN k + 1 ELSE k
      explicit == Kind(at) \in DOMAIN lit_of
      lit == IF explicit THEN lit_of[Kind(at)] ELSE "LIT_QWORD"
      next == IF explicit THEN at + 1 ELSE at
  IN IF is_adr /\ ~explicit THEN Failed(k)
     ELSE IF Kind(next) # "T_LEFT_BRACKET" THEN Parsed(next, <<mk_var_t(is_adr, lit)>>)
     ELSE IF Kind(next + 1) = "T_NUMBER_LIT" /\ Kind(next + 2) = "T_RIGHT_BRACKET"
     THEN Parsed(next + 3, <<mk_array_t(is_adr, lit, tokens[next + 2].num)>>)
     ELSE Failed(k)

parse_identifier_expr(k) ==
  IF Kind(k) = "T_IDENTIFIER" THEN Parsed(k + 1, <<mk_identifer_expr(tokens[k + 1].name)>>)
  ELSE Failed(k)

\* A type and an identifier, as in declarations and parameters.
TypedIdent(k) ==
  LET type == parse_var_type(k)
      ident == parse_identifier_expr(type.idx)
  IN IF type.nodes = <<>> \/ ident.nodes = <<>> THEN Failed(k)
     ELSE Parsed(ident.idx, type.nodes \o ident.nodes)

-----------------------------------------------------------------------------
(* The C call stack *)

Frame(fn, vs) == [fn |-> fn, vals |-> vs]
Top == Last(frames)
vals == Top.vals

\* fn is running and has n values in hand.
In(fn, n) == phase = "parse" /\ Top.fn = fn /\ Len(vals) = n

\* The step ends with idx = k, and
\* goes on in the same function, with vs in hand;
Keep(k, vs) ==
  /\ idx' = k
  /\ frames' = [frames EXCEPT ![Len(frames)].vals = vs]
  /\ UNCHANGED <<tokens, phase>>

\* or calls fn;
Call(k, vs, fn) ==
  /\ idx' = k
  /\ frames' = Append([frames EXCEPT ![Len(frames)].vals = vs], Frame(fn, <<>>))
  /\ UNCHANGED <<tokens, phase>>

\* or returns what fn returns;
Become(fn) ==
  /\ frames' = Append(Front(frames), Frame(fn, <<>>))
  /\ UNCHANGED <<tokens, idx, phase>>

\* or returns a value.
Return(k, val) ==
  /\ idx' = k
  /\ frames' = [Front(frames) EXCEPT ![Len(frames) - 1].vals = Append(@, val)]
  /\ UNCHANGED <<tokens, phase>>

Stop(end) == phase' = end /\ UNCHANGED <<tokens, idx, frames>>

\* Mutant: an error that returns to where it was found, to be found again.
compile_error_returns == UNCHANGED vars

compile_error == Stop("error")
assert_failed == Stop("abort")

-----------------------------------------------------------------------------
(* Expressions *)

unary_op == [T_PLUS |-> "U_POS", T_PLUS_PLUS |-> "U_PLUS_PLUS", T_MINUS |-> "U_NEG",
             T_MINUS_MINUS |-> "U_MINUS_MINUS", T_NOT |-> "U_NOT", T_AND |-> "U_ADDR"]

\* The operators each level of binary expressions reads.
binary_op ==
  [parse_equal   |-> [T_EQUAL_EQUAL |-> "B_EQUAL_EQUAL", T_NOT_EQUAL |-> "B_NOT_EQUAL"],
   parse_compare |-> [T_GREATER |-> "B_GREATER", T_LESS |-> "B_LESS",
                      T_GREATER_EQUAL |-> "B_GEQ", T_LESS_EQUAL |-> "B_LEQ"],
   parse_term    |-> [T_PLUS |-> "B_ADD", T_MINUS |-> "B_SUB"],
   parse_factor  |-> [T_STAR |-> "B_MUL", T_DIVIDE |-> "B_DIV"]]

\* The function each calls first; a level calls it for each operand.
\* Mutant: the levels of + and * are swapped.
operand_swapped ==
  [parse_assign_expr |-> "parse_equal", parse_equal |-> "parse_compare",
   parse_compare |-> "parse_factor", parse_factor |-> "parse_term",
   parse_term |-> "parse_unary_expr", parse_postfix |-> "parse_primary"]

operand ==
  [parse_assign_expr |-> "parse_equal", parse_equal |-> "parse_compare",
   parse_compare |-> "parse_term", parse_term |-> "parse_factor",
   parse_factor |-> "parse_unary_expr", parse_postfix |-> "parse_primary"]

parse_binary_expr == "parse_equal"

FirstOperand == \E fn \in DOMAIN operand : In(fn, 0) /\ Call(idx, <<>>, operand[fn])

\* Operators of one level are left-associative: the loop folds into `left`.
ParseLevel ==
  \E fn \in DOMAIN binary_op :
    \/ /\ In(fn, 1)
       /\ tok \in DOMAIN binary_op[fn]
       /\ Call(idx + 1, <<vals[1], binary_op[fn][tok]>>, operand[fn])
    \/ /\ In(fn, 1)
       /\ tok \notin DOMAIN binary_op[fn]
       /\ Return(idx, vals[1])
    \/ /\ In(fn, 3)
       /\ Keep(idx, <<mk_binary_expr(vals[2], vals[1], vals[3])>>)

assignable(n) == n.type \in {"AST_IDENTIFIER", "AST_INDEX"}

ParseAssignExpr ==
  \/ /\ In("parse_assign_expr", 1)
     /\ tok = "T_EQUAL"
     /\ \/ assignable(vals[1]) /\ Call(idx + 1, vals, "parse_assign_expr")
        \/ ~assignable(vals[1]) /\ compile_error
  \/ In("parse_assign_expr", 1) /\ tok # "T_EQUAL" /\ Return(idx, vals[1])
  \/ In("parse_assign_expr", 2) /\ Return(idx, mk_assign_expr(vals[1], vals[2]))

ParseUnaryExpr ==
  \/ /\ In("parse_unary_expr", 0)
     /\ \/ tok \in DOMAIN unary_op /\ Call(idx + 1, <<unary_op[tok]>>, "parse_unary_expr")
        \/ tok \notin DOMAIN unary_op /\ Become("parse_postfix")
  \/ In("parse_unary_expr", 2) /\ Return(idx, mk_unary_expr(vals[1], vals[2]))

ParsePostfix ==
  \/ /\ In("parse_postfix", 1)
     /\ \/ tok = "T_LEFT_BRACKET" /\ Call(idx + 1, vals, parse_binary_expr)
        \/ tok # "T_LEFT_BRACKET" /\ Return(idx, vals[1])
  \/ /\ In("parse_postfix", 2)
     /\ \/ tok = "T_RIGHT_BRACKET" /\ Keep(idx + 1, <<mk_index_expr(vals[1], vals[2])>>)
        \/ tok # "T_RIGHT_BRACKET" /\ compile_error

IsCast == tok = "T_LEFT_PAREN" /\ is_var_type(Kind(idx + 1))

ParsePrimary ==
  \/ /\ In("parse_primary", 0)
     /\ \/ IsCast /\ Become("parse_cast_expr")
        \/ tok = "T_CALL" /\ Become("parse_call_expr")
        \/ tok = "T_IDENTIFIER" /\ Return(idx + 1, parse_identifier_expr(idx).nodes[1])
        \/ tok = "T_NUMBER_LIT" /\ Return(idx + 1, mk_literal_expr(tokens[idx + 1].num))
        \/ tok = "T_STRING_LIT" /\ Return(idx + 1, mk_string_literal)
        \/ tok = "T_LEFT_PAREN" /\ ~IsCast /\ Call(idx + 1, <<>>, "parse_assign_expr")
        \/ /\ tok \notin {"T_LEFT_PAREN", "T_CALL", "T_IDENTIFIER", "T_NUMBER_LIT", "T_STRING_LIT"}
           /\ compile_error
  \/ /\ In("parse_primary", 1)
     /\ \/ tok = "T_RIGHT_PAREN" /\ Return(idx + 1, vals[1])
        \/ tok # "T_RIGHT_PAREN" /\ compile_error

\* A cast binds tighter than an index: its operand is a primary.
ParseCastExpr ==
  \/ /\ In("parse_cast_expr", 0)
     /\ LET type == parse_var_type(idx + 1)
        IN \/ type.nodes = <<>> /\ compile_error
           \/ type.nodes # <<>> /\ Kind(type.idx) # "T_RIGHT_PAREN" /\ assert_failed
           \/ /\ type.nodes # <<>> /\ Kind(type.idx) = "T_RIGHT_PAREN"
              /\ Call(type.idx + 1, type.nodes, "parse_primary")
  \/ In("parse_cast_expr", 2) /\ Return(idx, mk_cast_expr(vals[1], vals[2]))

\* The call that vs, the callee and its arguments, stands for.
\* Mutant: each argument overwrites the one before.
CallOn_overwrites(vs) == mk_call_expr(vs[1], IF Len(vs) = 1 THEN <<>> ELSE <<Last(vs)>>)
CallOn(vs) == mk_call_expr(vs[1], Tail(vs))

\* parse_args from index k on, after the '(' or a ',': a ')' ends the list.
NextArg(k, vs) ==
  \/ Kind(k) = "T_RIGHT_PAREN" /\ Return(k + 1, CallOn(vs))
  \/ Kind(k) # "T_RIGHT_PAREN" /\ Call(k, vs, parse_binary_expr)

ParseCallExpr ==
  \/ /\ In("parse_call_expr", 0)
     /\ LET ident == parse_identifier_expr(idx + 1)
        IN \/ /\ ident.nodes # <<>> /\ Kind(ident.idx) = "T_LEFT_PAREN"
              /\ NextArg(ident.idx + 1, ident.nodes)
           \/ (ident.nodes = <<>> \/ Kind(ident.idx) # "T_LEFT_PAREN") /\ compile_error
  \/ /\ phase = "parse" /\ Top.fn = "parse_call_expr" /\ Len(vals) > 1
     /\ \/ tok = "T_COMMA" /\ NextArg(idx + 1, vals)
        \/ tok = "T_RIGHT_PAREN" /\ Return(idx + 1, CallOn(vals))
        \/ tok \notin {"T_COMMA", "T_RIGHT_PAREN"} /\ compile_error

ParseExpression ==
  FirstOperand \/ ParseLevel \/ ParseAssignExpr \/ ParseUnaryExpr \/ ParsePostfix
  \/ ParsePrimary \/ ParseCastExpr \/ ParseCallExpr

-----------------------------------------------------------------------------
(* Statements *)

\* Mutants: the assert is compiled out; an arm or a body without braces is
\* taken for a statement.
parse_block_stmt_ndebug(k, vs) == Call(k + 1, vs, "parse_block_stmt")
parse_block_stmt_bare(k, vs) ==
  \/ Kind(k) = "T_LEFT_BRACE" /\ Call(k + 1, vs, "parse_block_stmt")
  \/ Kind(k) # "T_LEFT_BRACE" /\ Call(k, vs, "parse_statment")

\* A call of parse_block_stmt, which asserts its '{'.
parse_block_stmt(k, vs) ==
  \/ Kind(k) = "T_LEFT_BRACE" /\ Call(k + 1, vs, "parse_block_stmt")
  \/ Kind(k) # "T_LEFT_BRACE" /\ assert_failed

\* A loop over the statements; parse_statment's own test for a comment is
\* never reached.
ParseBlockStmt ==
  /\ phase = "parse" /\ Top.fn = "parse_block_stmt"
  /\ \/ tok = "T_RIGHT_BRACE" /\ Return(idx + 1, mk_block_stmt(vals))
     \/ tok = "T_LET" /\ Call(idx, vals, "parse_var_decl")
     \/ tok = "T_COMMENT" /\ Keep(idx + 1, Append(vals, mk_comment_stmt))
     \/ tok \notin {"T_RIGHT_BRACE", "T_LET", "T_COMMENT"} /\ Call(idx, vals, "parse_statment")

\* parse_expr: a statement that starts with `call` is that call and no more.
ParseExpr ==
  \/ tok = "T_CALL" /\ Call(idx, <<>>, "parse_call_expr")
  \/ tok = "T_LEFT_BRACE" /\ Call(idx + 1, <<>>, "parse_block_stmt")
  \/ tok \notin {"T_CALL", "T_LEFT_BRACE"} /\ Call(idx, <<>>, "parse_assign_expr")

\* Mutant: the token after a statement is skipped, whatever it is.
EndStatment_unchecked == Return(idx + 1, vals[1])

EndStatment ==
  \/ tok = "T_SEMICOLON" /\ Return(idx + 1, vals[1])
  \/ tok # "T_SEMICOLON" /\ compile_error

ParseStatment ==
  \/ /\ In("parse_statment", 0)
     /\ \/ tok = "T_IF" /\ Become("parse_if_stmt")
        \/ tok = "T_RETURN" /\ Call(idx, <<>>, "parse_return_stmt")
        \/ tok \notin {"T_IF", "T_RETURN"} /\ ParseExpr
  \/ In("parse_statment", 1) /\ EndStatment

ParseReturnStmt ==
  \/ In("parse_return_stmt", 0) /\ Call(idx + 1, <<>>, "parse_assign_expr")
  \/ In("parse_return_stmt", 1) /\ Return(idx, mk_return_stmt(vals[1]))

ParseIfStmt ==
  \/ /\ In("parse_if_stmt", 0)
     /\ \/ Kind(idx + 1) = "T_LEFT_PAREN" /\ Call(idx + 2, <<>>, parse_binary_expr)
        \/ Kind(idx + 1) # "T_LEFT_PAREN" /\ compile_error
  \/ /\ In("parse_if_stmt", 1)
     /\ \/ tok = "T_RIGHT_PAREN" /\ parse_block_stmt(idx + 1, vals)
        \/ tok # "T_RIGHT_PAREN" /\ compile_error
  \/ /\ In("parse_if_stmt", 2)
     /\ \/ tok = "T_ELSE" /\ parse_block_stmt(idx + 1, vals)
        \/ tok # "T_ELSE" /\ Return(idx, mk_if_stmt(vals[1], vals[2], Null))
  \/ In("parse_if_stmt", 3) /\ Return(idx, mk_if_stmt(vals[1], vals[2], vals[3]))

ParseVarDecl ==
  \/ /\ In("parse_var_decl", 0)
     /\ LET decl == TypedIdent(idx + 1)
            next == Kind(decl.idx)
        IN \/ decl.nodes = <<>> /\ compile_error
           \/ decl.nodes # <<>> /\ next = "T_EQUAL" /\ Call(decl.idx + 1, decl.nodes, parse_binary_expr)
           \/ /\ decl.nodes # <<>> /\ next = "T_SEMICOLON"
              /\ Return(decl.idx + 1, mk_var_decl(decl.nodes[2], decl.nodes[1], Null))
           \/ decl.nodes # <<>> /\ next \notin {"T_EQUAL", "T_SEMICOLON"} /\ compile_error
  \/ /\ In("parse_var_decl", 3)
     /\ \/ tok = "T_SEMICOLON" /\ Return(idx + 1, mk_var_decl(vals[2], vals[1], vals[3]))
        \/ tok # "T_SEMICOLON" /\ compile_error

ParseStmt ==
  ParseBlockStmt \/ ParseStatment \/ ParseReturnStmt \/ ParseIfStmt \/ ParseVarDecl

-----------------------------------------------------------------------------
(* Functions and the program *)

\* A loop over the parameters, after the '('; a ',' may also precede the ')'.
ParseAllFuncParams ==
  /\ phase = "parse" /\ Top.fn = "parse_all_func_params"
  /\ LET param == TypedIdent(idx)
         added == Append(vals, mk_func_param(param.nodes[2], param.nodes[1]))
         next == Kind(param.idx)
     IN \/ tok = "T_RIGHT_PAREN" /\ Return(idx + 1, vals)
        \/ /\ is_var_type(tok) \/ tok = "T_IDENTIFIER"
           /\ \/ param.nodes # <<>> /\ next = "T_COMMA" /\ Keep(param.idx + 1, added)
              \/ param.nodes # <<>> /\ next = "T_RIGHT_PAREN" /\ Keep(param.idx, added)
              \/ param.nodes # <<>> /\ next \notin {"T_COMMA", "T_RIGHT_PAREN"} /\ compile_error
              \/ param.nodes = <<>> /\ compile_error
        \/ /\ ~(is_var_type(tok) \/ tok \in {"T_IDENTIFIER", "T_RIGHT_PAREN"})
           /\ compile_error

\* The statements block_has_ret and stmt_has_ret look at below n.
Inner(n) ==
  CASE n.type = "AST_BLOCK" -> Range(n.nodes)
    [] n.type = "AST_IF"    -> {n.then_branch, n.else_branch} \ {Null}
    [] OTHER                -> {}

\* Mutant: one returning arm is enough.
stmt_has_ret_either(n, returning) ==
  \/ n.type = "AST_RETURN"
  \/ n.type \in {"AST_BLOCK", "AST_IF"} /\ Inner(n) \cap returning # {}

\* A block returns when a statement of it does, an if when its arms do; an
\* if with a single arm when that arm does.
stmt_has_ret(n, returning) ==
  \/ n.type = "AST_RETURN"
  \/ n.type = "AST_BLOCK" /\ Inner(n) \cap returning # {}
  \/ n.type = "AST_IF" /\ Inner(n) \subseteq returning

\* The recursion: the statements it reaches below a block, found from the
\* outside in, and those of them that return, from the inside out.  Statements
\* nest less deeply than there are tokens.  ({known}: so that TLC evaluates it
\* once.)
Nested(block) ==
  LET within[d \in 0..Len(tokens)] ==
        IF d = 0 THEN {block} ELSE UNION {{n} \cup Inner(n) : n \in within[d - 1]}
  IN within
Reached(block) == Nested(block)[Len(tokens)]

Returning(stmts) ==
  LET returning[d \in 0..Len(tokens)] ==
        IF d = 0 THEN {}
        ELSE UNION {{n \in stmts : stmt_has_ret(n, known)} : known \in {returning[d - 1]}}
  IN returning

block_has_ret(block) == block \in Returning(Reached(block))[Len(tokens)]

ParseFuncDecl ==
  \/ /\ In("parse_func_decl", 0)
     /\ LET decl == TypedIdent(idx + 1)
        IN \/ /\ decl.nodes # <<>> /\ Kind(decl.idx) = "T_LEFT_PAREN"
              /\ Call(decl.idx + 1, decl.nodes, "parse_all_func_params")
           \/ (decl.nodes = <<>> \/ Kind(decl.idx) # "T_LEFT_PAREN") /\ compile_error
  \/ In("parse_func_decl", 3) /\ parse_block_stmt(idx, vals)
  \/ /\ In("parse_func_decl", 4)
     /\ \/ /\ block_has_ret(vals[4])
           /\ Return(idx, mk_func_decl(mk_func_t(vals[1], vals[3], vals[2]), vals[4]))
        \/ ~block_has_ret(vals[4]) /\ compile_error

ParseProgram ==
  /\ phase = "parse" /\ Top.fn = "parse_program"
  /\ \/ tok = "T_EOF" /\ Stop("done")
     \/ tok = "T_FUNC" /\ Call(idx, vals, "parse_func_decl")
     \/ tok = "T_LET" /\ Call(idx, vals, "parse_var_decl")
     \/ tok = "T_COMMENT" /\ Keep(idx + 1, Append(vals, mk_comment_stmt))
     \/ tok \notin {"T_EOF", "T_FUNC", "T_LET", "T_COMMENT"} /\ compile_error

\* The nodes of mk_program_decl, when the parser is done.
program == vals

-----------------------------------------------------------------------------
Init ==
  /\ tokens \in Inputs
  /\ idx = 0
  /\ frames = <<Frame("parse_program", <<>>)>>
  /\ phase = "parse"

Parse == ParseExpression \/ ParseStmt \/ ParseAllFuncParams \/ ParseFuncDecl \/ ParseProgram

\* The parser is sequential: it stops with a tree, an error or an assert.
Terminated == phase # "parse" /\ UNCHANGED vars

Next == Parse \/ Terminated

Spec == Init /\ [][Next]_vars
FairSpec == Spec /\ WF_vars(Parse)

-----------------------------------------------------------------------------
(* Type invariant *)

exprFns == DOMAIN operand \cup {"parse_unary_expr", "parse_primary", "parse_cast_expr", "parse_call_expr"}
stmtFns == {"parse_block_stmt", "parse_statment", "parse_return_stmt", "parse_if_stmt", "parse_var_decl"}
topFns == {"parse_program", "parse_func_decl", "parse_all_func_params"}

\* The state is that of a parser: an index into the tokens and a call stack
\* at whose bottom is parse_program, and which it never leaves.
TypeOK ==
  /\ tokens \in Inputs
  /\ idx \in 0..Len(tokens) - 1
  /\ phase \in {"parse", "done", "error", "abort"}
  /\ \A k \in DOMAIN frames :
       /\ frames[k].fn \in exprFns \cup stmtFns \cup topFns
       /\ frames[k].fn = "parse_program" <=> k = 1
  /\ frames # <<>>

(***************************************************************************)
(* T_EOF is never consumed, whatever the source: a construct that is cut   *)
(* off ends in an error at T_EOF, p_peek never returns NULL (which         *)
(* compile_error and the asserts would dereference), and a tree is         *)
(* returned only when all tokens up to T_EOF are in it.                    *)
(***************************************************************************)
NeverPastEof ==
  /\ idx < Len(tokens)
  /\ \A k \in 1..idx : tokens[k].type # "T_EOF"
  /\ phase = "done" => tok = "T_EOF" /\ Len(frames) = 1
-----------------------------------------------------------------------------
(* What the generator is given *)

Names == {tokens[k].name : k \in DOMAIN tokens}
Shape(all, names) == INSTANCE Trees WITH Node <- all, Name <- names

\* The nodes that are d steps below the program, and at most d steps below.
Level[d \in 0..Len(tokens) + 2] ==
  IF d = 0 THEN Range(program) ELSE (UNION {Range(Below(n)) : n \in Level[d - 1]}) \ {Null}
Within(d) == UNION {Level[e] : e \in 0..d}

(***************************************************************************)
(* Each node owns one of the tokens before T_EOF, so that nodes nest less  *)
(* deeply than there are tokens: the walks of the trees end, and no node   *)
(* is below those that are looked at here.                                 *)
(***************************************************************************)
NestingBounded == phase = "done" => Level[Len(tokens) - 1] = {}

(***************************************************************************)
(* What the parser accepts is what the generator is proved correct for:    *)
(* the trees satisfy the assumption ProgramsAssumption makes of them.      *)
(* (Within(Len(tokens)) are all nodes, see NestingBounded, and what        *)
(* WellFormed says of a node is about nodes at most two steps below it.)   *)
(***************************************************************************)
FeedsTheGenerator ==
  phase = "done" =>
    LET all == Within(Len(tokens) + 2)
    IN /\ \A n \in Within(Len(tokens)) : Shape(all, Names)!WellFormed(n)
       /\ \A k \in DOMAIN program : program[k].type \in Shape(all, Names)!top_t

-----------------------------------------------------------------------------
(* What is demanded of a function *)

\* The statements S are all that one execution of the block meets, and no
\* return is among them, when every if without an else is entered.
Passes(block, S) ==
  /\ block \in S
  /\ \A n \in S :
       /\ n.type # "AST_RETURN"
       /\ n.type = "AST_BLOCK" => Inner(n) \subseteq S
       /\ n.type = "AST_IF" => Inner(n) \cap S # {}
FallsThrough(block) == \E S \in SUBSET Reached(block) : Passes(block, S)

(***************************************************************************)
(* A function is accepted exactly when each of its executions that enters  *)
(* every if without an else comes to a return.  (One that does not enter   *)
(* such an if may fall off the end: the parser does not look for that.)    *)
(***************************************************************************)
AcceptedReturns ==
  /\ phase = "done" =>
       \A k \in DOMAIN program :
         program[k].type = "AST_FUNC_DECL" => ~FallsThrough(program[k].block)
  /\ phase = "error" /\ Top.fn = "parse_func_decl" /\ Len(vals) = 4 => FallsThrough(vals[4])
=============================================================================
