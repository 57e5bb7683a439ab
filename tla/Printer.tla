------------------------------ MODULE Printer ------------------------------
(***************************************************************************)
(* The AST printer (print_* in parser.c), which main runs on every tree    *)
(* before it generates code.  Only what it decides is modelled: whether it *)
(* comes to an end, or stops the compiler with an error or a failed assert *)
(* on the way.  The text and its indentation are left out.                 *)
(*                                                                         *)
(* An operator's value is how the function ends: "ok", "error" or "abort". *)
(* The functions that recurse are given how printing each node ends.       *)
(***************************************************************************)
EXTENDS Ast, Sequences

\* One printing after the other: the first that stops the compiler stops it.
Each(ends) ==
  LET bad == {k \in DOMAIN ends : ends[k] # "ok"}
  IN IF bad = {} THEN "ok" ELSE ends[CHOOSE k \in bad : \A j \in bad : k <= j]

get_ident(n) == IF n.type = "AST_IDENTIFIER" THEN "ok" ELSE "abort"

\* Mutant: the case of '!' is missing.
get_unary_op_no_not(op) == IF op \in {"U_POS", "U_NEG", "U_ADDR"} THEN "ok" ELSE "error"
get_unary_op(op) == IF op \in {"U_POS", "U_NEG", "U_NOT", "U_ADDR"} THEN "ok" ELSE "error"

All(ends, nodes) == Each([k \in DOMAIN nodes |-> ends[nodes[k]]])

\* With print_unary_expr and print_primary_types, to which it falls through.
\* An assignment inside an expression is not printed.
print_binary_expr(expr, n) ==
  CASE n.type = "AST_UNARY" -> Each(<<get_unary_op(n.op), expr[n.expr]>>)
    [] n.type = "AST_CALL"  -> Each(<<get_ident(n.callee), All(expr, n.args)>>)
    [] n.type \in {"AST_BINARY", "AST_CAST", "AST_INDEX"} -> All(expr, Below(n))
    [] OTHER -> "ok"

print_var_decl(expr, n) ==
  Each(<<get_ident(n.ident), IF n.assign = Null THEN "ok" ELSE expr[n.assign]>>)

\* With the statements in a block: print_block_stmt, print_if_stmt,
\* print_return_stmt and, for an expression, print_expr.
print_stmt(expr, stmt, n) ==
  CASE n.type = "AST_VAR_DECL" -> print_var_decl(expr, n)
    [] n.type = "AST_BLOCK"    -> All(stmt, n.nodes)
    [] n.type = "AST_IF"       ->
         Each(<<expr[n.cond], stmt[n.then_branch],
                IF n.else_branch = Null THEN "ok" ELSE stmt[n.else_branch]>>)
    [] n.type = "AST_RETURN"   -> expr[n.return_val]
    [] n.type = "AST_ASSIGN"   -> Each(<<get_ident(n.target), expr[n.val]>>)
    [] OTHER                   -> expr[n]

print_func_decl(stmt, n) ==
  Each(<<get_ident(n.func_t.ident)>>
       \o [k \in DOMAIN n.func_t.params |-> get_ident(n.func_t.params[k].ident)]
       \o <<stmt[n.block]>>)

\* `nodes` are the nodes of the tree.
print_ast(program, nodes) ==
  LET expr[n \in nodes] == print_binary_expr(expr, n)
      stmt[n \in nodes] == print_stmt(expr, stmt, n)
  IN Each([k \in DOMAIN program |->
             CASE program[k].type = "AST_VAR_DECL"  -> print_var_decl(expr, program[k])
               [] program[k].type = "AST_FUNC_DECL" -> print_func_decl(stmt, program[k])
               [] OTHER                             -> "ok"])
=============================================================================
