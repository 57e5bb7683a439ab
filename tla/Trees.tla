------------------------------- MODULE Trees -------------------------------
(***************************************************************************)
(* The shape of the trees that the parser hands to the code generator: an  *)
(* expression has only expressions below it, a block only statements, the  *)
(* branches of an if and the body of a function are blocks.  The generator *)
(* is proved correct for trees of this shape; the parser is proved to      *)
(* build no others.                                                        *)
(***************************************************************************)
EXTENDS Ast, Sequences

CONSTANTS
  Node,  \* the AST nodes that may occur
  Name   \* the identifiers that may occur

\* The sub-nodes on which the function for n calls gen_*, in order.
Subs(n) ==
  CASE n.type = "AST_UNARY"     -> IF n.op = "U_ADDR" THEN <<>> ELSE <<n.expr>>
    [] n.type = "AST_BINARY"    -> <<n.expr_left, n.expr_right>>
    [] n.type = "AST_CALL"      -> n.args
    [] n.type = "AST_ASSIGN"    -> <<n.val>>
    [] n.type = "AST_CAST"      -> <<n.inner>>
    [] n.type = "AST_VAR_DECL"  -> IF n.assign = Null THEN <<>> ELSE <<n.assign>>
    [] n.type = "AST_RETURN"    -> IF n.return_val = Null THEN <<>> ELSE <<n.return_val>>
    [] n.type = "AST_IF"        -> IF n.else_branch = Null THEN <<n.cond, n.then_branch>>
                                   ELSE <<n.cond, n.then_branch, n.else_branch>>
    [] n.type = "AST_BLOCK"     -> n.nodes
    [] n.type = "AST_FUNC_DECL" -> n.block.nodes
    [] OTHER                    -> <<>>

expr_t == {"AST_IDENTIFIER", "AST_LITERAL", "AST_UNARY", "AST_BINARY",
           "AST_ASSIGN", "AST_CALL", "AST_CAST", "AST_INDEX"}
stmt_t == {"AST_BLOCK", "AST_IF", "AST_RETURN", "AST_COMMENT", "AST_VAR_DECL"}

top_t == {"AST_VAR_DECL", "AST_FUNC_DECL", "AST_COMMENT"}

IsBlock(n) == n \in Node /\ n.type = "AST_BLOCK"

Idents(n) ==
  CASE n.type = "AST_IDENTIFIER" -> {n}
    [] n.type = "AST_VAR_DECL"   -> {n.ident}
    [] n.type = "AST_CALL"       -> {n.callee}
    [] n.type = "AST_FUNC_DECL"  ->
         {n.func_t.ident} \cup {n.func_t.params[k].ident : k \in DOMAIN n.func_t.params}
    [] OTHER                     -> {}

SubTypes(n) ==
  IF n.type \in {"AST_BLOCK", "AST_FUNC_DECL"} THEN expr_t \cup stmt_t
  ELSE IF n.type = "AST_IF" THEN expr_t \cup {"AST_BLOCK"}
  ELSE expr_t

WellFormed(n) ==
  /\ n.type \in expr_t \cup stmt_t \cup {"AST_FUNC_DECL"}
  /\ Subs(n) \in Seq(Node)
  /\ \A k \in DOMAIN Subs(n) : Subs(n)[k].type \in SubTypes(n)
  /\ \A d \in Idents(n) : d.type = "AST_IDENTIFIER" /\ d.name \in Name
  /\ n.type = "AST_LITERAL" => n.num_value \in Int
  /\ n.type = "AST_UNARY" => n.op \in unary_expr_t
  /\ n.type = "AST_UNARY" => n.expr \in Node
  /\ n.type = "AST_BINARY" => n.op \in binary_expr_t
  /\ n.type = "AST_ASSIGN" => n.target \in Node
  /\ n.type = "AST_CALL" => n.args \in Seq(Node)
  /\ n.type = "AST_IF" => /\ n.cond.type \in expr_t
                          /\ IsBlock(n.then_branch)
                          /\ IsBlock(n.else_branch) \/ n.else_branch = Null
  /\ n.type = "AST_FUNC_DECL" => /\ IsBlock(n.block)
                                 /\ Len(n.func_t.params) \in Nat
=============================================================================
