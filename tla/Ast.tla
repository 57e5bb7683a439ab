-------------------------------- MODULE Ast --------------------------------
(***************************************************************************)
(* The abstract syntax tree the parser builds and the code generator       *)
(* walks (parser.h, and the mk_* functions of parser.c).  A node is a      *)
(* record whose field `type` is the ast_t tag; the other fields are those  *)
(* of the tag's member of the union.  An identifier's name is any value, a *)
(* number is an integer, and the text of strings and comments is left out. *)
(***************************************************************************)
EXTENDS Integers

\* The NULL pointer where a Node* is expected.
Null == [type |-> "NULL"]

lit_t == {"LIT_STRING", "LIT_BYTE", "LIT_WORD", "LIT_DWORD", "LIT_QWORD"}

unary_expr_t == {"U_POS", "U_PLUS_PLUS", "U_MINUS_MINUS", "U_NEG", "U_NOT", "U_ADDR"}

arithmetic_t == {"B_ADD", "B_SUB", "B_MUL", "B_DIV"}
comparison_t == {"B_LESS", "B_GREATER", "B_EQUAL_EQUAL", "B_NOT_EQUAL", "B_GEQ", "B_LEQ"}
binary_expr_t == arithmetic_t \cup comparison_t

INT_MIN == -2147483647 - 1

-----------------------------------------------------------------------------
(* Expressions *)

mk_identifer_expr(name) == [type |-> "AST_IDENTIFIER", name |-> name]

\* A literal holds a number; a string literal leaves INT_MIN in the number.
mk_literal_expr(num_value) == [type |-> "AST_LITERAL", num_value |-> num_value]
mk_string_literal == mk_literal_expr(INT_MIN)

mk_unary_expr(op, expr) == [type |-> "AST_UNARY", op |-> op, expr |-> expr]

mk_binary_expr(op, left, right) ==
  [type |-> "AST_BINARY", op |-> op, expr_left |-> left, expr_right |-> right]

mk_assign_expr(target, val) == [type |-> "AST_ASSIGN", target |-> target, val |-> val]

mk_call_expr(callee, args) == [type |-> "AST_CALL", callee |-> callee, args |-> args]

mk_index_expr(target, index) == [type |-> "AST_INDEX", target |-> target, index |-> index]

mk_cast_expr(var_t, inner) == [type |-> "AST_CAST", var_t |-> var_t, inner |-> inner]

-----------------------------------------------------------------------------
(* Statements *)

mk_return_stmt(return_val) == [type |-> "AST_RETURN", return_val |-> return_val]

mk_comment_stmt == [type |-> "AST_COMMENT"]

mk_if_stmt(cond, then_branch, else_branch) ==
  [type |-> "AST_IF", cond |-> cond, then_branch |-> then_branch, else_branch |-> else_branch]

mk_block_stmt(nodes) == [type |-> "AST_BLOCK", nodes |-> nodes]

-----------------------------------------------------------------------------
(* Types and declarations *)

\* For an address type the code stores the pointed-to type in another field
\* of var_t, which nothing reads; one field stands for both.
mk_var_t(is_adr, type) == [type |-> "AST_TYPE_VAR", is_adr |-> is_adr, lit |-> type]

\* An array type; a type that is not one has no length.
mk_array_t(is_adr, type, array_len) ==
  [type |-> "AST_TYPE_VAR", is_adr |-> is_adr, lit |-> type, array_len |-> array_len]

mk_func_param(ident, type) == [type |-> "AST_FUNC_PARAM", ident |-> ident, var_t |-> type]

mk_func_t(ret_t, params, ident) ==
  [type |-> "AST_TYPE_FUNC", ret_t |-> ret_t, params |-> params, ident |-> ident]

mk_func_decl(func_t, block) == [type |-> "AST_FUNC_DECL", func_t |-> func_t, block |-> block]

mk_var_decl(ident, type, assign) ==
  [type |-> "AST_VAR_DECL", ident |-> ident, var_t |-> type, assign |-> assign]

-----------------------------------------------------------------------------
\* The nodes directly below n, but for types and names.
Below(n) ==
  CASE n.type = "AST_UNARY"     -> <<n.expr>>
    [] n.type = "AST_BINARY"    -> <<n.expr_left, n.expr_right>>
    [] n.type = "AST_CALL"      -> n.args
    [] n.type = "AST_ASSIGN"    -> <<n.target, n.val>>
    [] n.type = "AST_CAST"      -> <<n.inner>>
    [] n.type = "AST_INDEX"     -> <<n.target, n.index>>
    [] n.type = "AST_VAR_DECL"  -> <<n.assign>>
    [] n.type = "AST_RETURN"    -> <<n.return_val>>
    [] n.type = "AST_IF"        -> <<n.cond, n.then_branch, n.else_branch>>
    [] n.type = "AST_BLOCK"     -> n.nodes
    [] n.type = "AST_FUNC_DECL" -> <<n.block>>
    [] OTHER                    -> <<>>
=============================================================================
