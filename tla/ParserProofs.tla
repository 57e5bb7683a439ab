---------------------------- MODULE ParserProofs ----------------------------
(***************************************************************************)
(* On every list of tokens: the parser stays in front of T_EOF and inside  *)
(* its call stack, the trees it builds are well-formed, nest less deeply   *)
(* than there are tokens, have the returns that it demands, stand for all  *)
(* of the tokens, and can be printed.                                      *)
(***************************************************************************)
EXTENDS ParserProperties, SequenceTheorems, BoundedInduction, TLAPS

Fns == exprFns \cup stmtFns \cup topFns

\* The functions that are only called at a token of their own, which they
\* step over without looking.
FirstToken ==
  [parse_return_stmt |-> "T_RETURN", parse_if_stmt |-> "T_IF", parse_var_decl |-> "T_LET",
   parse_func_decl |-> "T_FUNC", parse_call_expr |-> "T_CALL", parse_cast_expr |-> "T_LEFT_PAREN"]

IsSeq(s) == \E S : s \in Seq(S)

IsFrame(fr) == /\ fr = Frame(fr.fn, fr.vals)
               /\ fr.fn \in Fns
               /\ IsSeq(fr.vals)

IsStack(fs) ==
  /\ IsSeq(fs)
  /\ Len(fs) > 0
  /\ \A k \in 1..Len(fs) : IsFrame(fs[k]) /\ (fs[k].fn = "parse_program" <=> k = 1)

\* The frame, if it has not begun, is at the token it was called for.
Expects(fr, kind) ==
  fr.vals = <<>> /\ fr.fn \in DOMAIN FirstToken => kind = FirstToken[fr.fn]

InTokens(k) == k \in 0..Len(tokens) - 1

IInv ==
  /\ tokens \in Inputs
  /\ InTokens(idx)
  /\ phase \in {"parse", "done", "error", "abort"}
  /\ IsStack(frames)
  /\ Expects(frames[Len(frames)], tok)
  /\ phase = "done" => tok = "T_EOF" /\ Len(frames) = 1

-----------------------------------------------------------------------------
(* Sequences and stacks *)

LEMMA Singles ==
  /\ IsSeq(<<>>)
  /\ \A a : IsSeq(<<a>>) /\ <<a>> # <<>>
  /\ \A a, b : IsSeq(<<a, b>>) /\ <<a, b>> # <<>>
<1>1. <<>> \in Seq({})
  OBVIOUS
<1>2. ASSUME NEW a PROVE <<a>> \in Seq({a}) /\ <<a>> # <<>>
  OBVIOUS
<1>3. ASSUME NEW a, NEW b PROVE <<a, b>> \in Seq({a, b}) /\ <<a, b>> # <<>>
  OBVIOUS
<1> QED BY <1>1, <1>2, <1>3 DEF IsSeq

LEMMA Appending ==
  ASSUME NEW s, IsSeq(s), NEW v
  PROVE  /\ IsSeq(Append(s, v)) /\ Append(s, v) # <<>>
         /\ Len(Append(s, v)) = Len(s) + 1
         /\ Append(s, v)[Len(s) + 1] = v
         /\ \A k \in 1..Len(s) : Append(s, v)[k] = s[k]
<1>1. PICK S : s \in Seq(S)
  BY DEF IsSeq
<1>2. s \in Seq(S \cup {v})
  BY <1>1
<1>3. /\ Append(s, v) \in Seq(S \cup {v})
      /\ Len(Append(s, v)) = Len(s) + 1
      /\ Append(s, v)[Len(s) + 1] = v
      /\ \A k \in 1..Len(s) : Append(s, v)[k] = s[k]
  BY <1>2
<1>4. Len(s) \in Nat
  BY <1>1
<1>5. Append(s, v) # <<>>
  BY <1>3, <1>4
<1> QED BY <1>3, <1>5 DEF IsSeq

LEMMA LenNat == ASSUME NEW s, IsSeq(s) PROVE Len(s) \in Nat /\ (s # <<>> <=> Len(s) > 0)
<1>1. PICK S : s \in Seq(S)
  BY DEF IsSeq
<1> QED BY <1>1

LEMMA Positive == ASSUME NEW n \in Nat, n > 0 PROVE n = 1 \/ n > 1
OBVIOUS

LEMMA Fronts ==
  ASSUME NEW s, IsSeq(s), Len(s) > 0
  PROVE  /\ IsSeq(Front(s)) /\ Len(Front(s)) = Len(s) - 1
         /\ \A k \in 1..Len(s) - 1 : Front(s)[k] = s[k]
<1>1. PICK S : s \in Seq(S)
  BY DEF IsSeq
<1>2. /\ Len(s) \in Nat /\ Len(s) - 1 \in Int
      /\ \A k \in 1..Len(s) - 1 : s[k] \in S
  BY <1>1
<1> DEFINE t == SubSeq(s, 1, Len(s) - 1)
<1>3. /\ t \in Seq(S)
      /\ Len(t) = IF 1 <= Len(s) - 1 THEN (Len(s) - 1) - 1 + 1 ELSE 0
      /\ \A k \in 1..(Len(s) - 1) - 1 + 1 : t[k] = s[1 + k - 1]
  BY <1>2, SubSeqProperties
<1>4. Len(t) = Len(s) - 1
  <2>1. CASE Len(s) = 1
    BY <2>1, <1>3
  <2>2. CASE Len(s) > 1
    BY <2>2, <1>2, <1>3
  <2>3. Len(s) = 1 \/ Len(s) > 1
    BY <1>2, Positive, Zenon
  <2> QED BY <2>1, <2>2, <2>3, Zenon
<1>5. \A k \in 1..Len(s) - 1 : t[k] = s[k]
  BY <1>2, <1>3
<1> QED BY <1>3, <1>4, <1>5 DEF Front, IsSeq

\* A top frame with other values.
LEMMA SetTop ==
  ASSUME NEW fs, IsStack(fs), NEW vs, IsSeq(vs)
  PROVE  LET gs == [fs EXCEPT ![Len(fs)].vals = vs]
         IN IsStack(gs) /\ Len(gs) = Len(fs) /\ gs[Len(fs)] = Frame(fs[Len(fs)].fn, vs)
<1> DEFINE n == Len(fs)
           gs == [fs EXCEPT ![n].vals = vs]
<1>1. PICK S : fs \in Seq(S)
  BY DEF IsStack, IsSeq
<1>2. n \in Nat /\ n > 0 /\ DOMAIN fs = 1..n
  BY <1>1 DEF IsStack
<1>3. IsFrame(fs[n])
  BY <1>2 DEF IsStack
<1>4. fs[n] = [fn |-> fs[n].fn, vals |-> fs[n].vals]
  BY <1>3 DEF IsFrame, Frame
<1>5. [fs[n] EXCEPT !.vals = vs] = Frame(fs[n].fn, vs)
  BY <1>4 DEF Frame
<1>6. gs = [fs EXCEPT ![n] = Frame(fs[n].fn, vs)]
  BY <1>5
<1>7. gs \in Seq(S \cup {Frame(fs[n].fn, vs)}) /\ Len(gs) = n
  BY <1>1, <1>2, <1>6
<1>8. \A k \in 1..n : gs[k] = IF k = n THEN Frame(fs[n].fn, vs) ELSE fs[k]
  BY <1>2, <1>6
<1>9. IsFrame(Frame(fs[n].fn, vs)) /\ Frame(fs[n].fn, vs).fn = fs[n].fn
  BY <1>3 DEF IsFrame, Frame
<1>10. \A k \in 1..n : IsFrame(gs[k]) /\ (gs[k].fn = "parse_program" <=> k = 1)
  BY <1>2, <1>8, <1>9 DEF IsStack
<1>11. IsSeq(gs)
  BY <1>7 DEF IsSeq
<1>12. IsStack(gs)
  BY <1>2, <1>7, <1>10, <1>11 DEF IsStack
<1> QED BY <1>2, <1>7, <1>8, <1>12

LEMMA PushFrame ==
  ASSUME NEW fs, IsStack(fs), NEW fn \in Fns, fn # "parse_program"
  PROVE  LET gs == Append(fs, Frame(fn, <<>>))
         IN IsStack(gs) /\ Len(gs) = Len(fs) + 1 /\ gs[Len(gs)] = Frame(fn, <<>>)
<1> DEFINE gs == Append(fs, Frame(fn, <<>>))
<1>1. IsFrame(Frame(fn, <<>>)) /\ Frame(fn, <<>>).fn = fn
  BY Singles DEF IsFrame, Frame
<1>2. IsSeq(fs) /\ Len(fs) \in Nat /\ Len(fs) > 0
  BY LenNat DEF IsStack
<1>3. /\ IsSeq(gs) /\ Len(gs) = Len(fs) + 1
      /\ gs[Len(fs) + 1] = Frame(fn, <<>>) /\ \A k \in 1..Len(fs) : gs[k] = fs[k]
  BY <1>2, Appending
<1>4. \A k \in 1..Len(gs) : IsFrame(gs[k]) /\ (gs[k].fn = "parse_program" <=> k = 1)
  BY <1>1, <1>2, <1>3 DEF IsStack
<1> QED BY <1>2, <1>3, <1>4 DEF IsStack

LEMMA PopFrame ==
  ASSUME NEW fs, IsStack(fs), fs[Len(fs)].fn # "parse_program"
  PROVE  Len(fs) > 1 /\ IsStack(Front(fs)) /\ Len(Front(fs)) = Len(fs) - 1
<1>1. IsSeq(fs) /\ Len(fs) \in Nat /\ Len(fs) > 0
  BY LenNat DEF IsStack
<1>2. Len(fs) # 1
  BY <1>1 DEF IsStack
<1>3. /\ IsSeq(Front(fs)) /\ Len(Front(fs)) = Len(fs) - 1
      /\ \A k \in 1..Len(fs) - 1 : Front(fs)[k] = fs[k]
  BY <1>1, Fronts
<1>4. \A k \in 1..Len(fs) - 1 :
        IsFrame(Front(fs)[k]) /\ (Front(fs)[k].fn = "parse_program" <=> k = 1)
  BY <1>1, <1>3 DEF IsStack
<1> QED BY <1>1, <1>2, <1>3, <1>4 DEF IsStack

-----------------------------------------------------------------------------
(* Tokens *)

LEMMA Lists ==
  ASSUME tokens \in Inputs
  PROVE  /\ Len(tokens) \in Nat /\ Len(tokens) > 0
         /\ \A k \in 0..Len(tokens) - 1 : Kind(k) = "T_EOF" <=> k = Len(tokens) - 1
<1>1. /\ tokens \in Seq([type : STRING, name : STRING, num : Nat])
      /\ Len(tokens) > 0
      /\ \A k \in 1..Len(tokens) : tokens[k].type = "T_EOF" <=> k = Len(tokens)
  BY InputsAssumption
<1>2. Len(tokens) \in Nat
  BY <1>1
<1>3. ASSUME NEW k \in 0..Len(tokens) - 1
      PROVE  tokens[k + 1].type = "T_EOF" <=> k = Len(tokens) - 1
  BY <1>1, <1>2
<1> QED BY <1>1, <1>2, <1>3 DEF Kind

\* A token that is not T_EOF has one after it.
LEMMA NextToken ==
  ASSUME tokens \in Inputs, NEW k, InTokens(k), Kind(k) # "T_EOF"
  PROVE  InTokens(k + 1)
BY Lists DEF InTokens

LEMMA TypeTokens == "T_EOF" \notin DOMAIN lit_of
BY DEF lit_of

\* The operators that read tokens end in front of T_EOF or on it.
LEMMA VarType ==
  ASSUME tokens \in Inputs, NEW k, InTokens(k)
  PROVE  InTokens(parse_var_type(k).idx) /\ IsSeq(parse_var_type(k).nodes)
<1> DEFINE is_adr == Kind(k) = "T_AND"
           at == IF is_adr THEN k + 1 ELSE k
           explicit == Kind(at) \in DOMAIN lit_of
           next == IF explicit THEN at + 1 ELSE at
           lit == IF explicit THEN lit_of[Kind(at)] ELSE "LIT_QWORD"
<1>1. InTokens(at)
  BY NextToken
<1>2. InTokens(next)
  BY <1>1, NextToken, TypeTokens
<1>3. Kind(next) = "T_LEFT_BRACKET" => InTokens(next + 1)
  BY <1>2, NextToken
<1>4. Kind(next) = "T_LEFT_BRACKET" /\ Kind(next + 1) = "T_NUMBER_LIT" => InTokens(next + 2)
  <2> SUFFICES ASSUME Kind(next) = "T_LEFT_BRACKET", Kind(next + 1) = "T_NUMBER_LIT"
               PROVE  InTokens(next + 2)
    OBVIOUS
  <2>1. InTokens(next + 1 + 1)
    BY <1>3, NextToken
  <2>2. next \in Int
    BY <1>2, Lists DEF InTokens
  <2>3. next + 1 + 1 = next + 2
    BY <2>2
  <2> QED BY <2>1, <2>3
<1>5. (Kind(next) = "T_LEFT_BRACKET" /\ Kind(next + 1) = "T_NUMBER_LIT"
         /\ Kind(next + 2) = "T_RIGHT_BRACKET") => InTokens(next + 3)
  <2> SUFFICES ASSUME Kind(next) = "T_LEFT_BRACKET", Kind(next + 1) = "T_NUMBER_LIT",
                      Kind(next + 2) = "T_RIGHT_BRACKET"
               PROVE  InTokens(next + 3)
    OBVIOUS
  <2>1. InTokens(next + 2 + 1)
    BY <1>4, NextToken
  <2>2. next \in Int
    BY <1>2, Lists DEF InTokens
  <2>3. next + 2 + 1 = next + 3
    BY <2>2
  <2> QED BY <2>1, <2>3
<1>6. parse_var_type(k) =
        IF is_adr /\ ~explicit THEN Failed(k)
        ELSE IF Kind(next) # "T_LEFT_BRACKET" THEN Parsed(next, <<mk_var_t(is_adr, lit)>>)
        ELSE IF Kind(next + 1) = "T_NUMBER_LIT" /\ Kind(next + 2) = "T_RIGHT_BRACKET"
        THEN Parsed(next + 3, <<mk_array_t(is_adr, lit, tokens[next + 2].num)>>)
        ELSE Failed(k)
  BY DEF parse_var_type
<1>7. \A j, nodes : Parsed(j, nodes).idx = j /\ Parsed(j, nodes).nodes = nodes
  BY DEF Parsed
<1>8. Failed(k) = Parsed(k, <<>>)
  BY DEF Failed
<1> HIDE DEF is_adr, explicit, next, lit
<1> QED BY <1>2, <1>5, <1>6, <1>7, <1>8, Singles

LEMMA IdentifierExpr ==
  ASSUME tokens \in Inputs, NEW k, InTokens(k)
  PROVE  LET ident == parse_identifier_expr(k)
         IN /\ InTokens(ident.idx) /\ IsSeq(ident.nodes)
            /\ ident.nodes # <<>> => ident.nodes = <<ident.nodes[1]>>
<1>1. CASE Kind(k) = "T_IDENTIFIER"
  <2>1. parse_identifier_expr(k) = Parsed(k + 1, <<mk_identifer_expr(tokens[k + 1].name)>>)
    BY <1>1 DEF parse_identifier_expr
  <2>2. InTokens(k + 1)
    BY <1>1, NextToken
  <2> QED BY <2>1, <2>2, Singles DEF Parsed
<1>2. CASE Kind(k) # "T_IDENTIFIER"
  <2>1. parse_identifier_expr(k) = Parsed(k, <<>>)
    BY <1>2 DEF parse_identifier_expr, Failed
  <2> QED BY <2>1, Singles DEF Parsed
<1> QED BY <1>1, <1>2

LEMMA TypedIdents ==
  ASSUME tokens \in Inputs, NEW k, InTokens(k)
  PROVE  LET decl == TypedIdent(k)
         IN /\ InTokens(decl.idx) /\ IsSeq(decl.nodes)
<1> DEFINE type == parse_var_type(k)
           ident == parse_identifier_expr(type.idx)
<1>1. InTokens(type.idx) /\ IsSeq(type.nodes)
  BY VarType
<1>2. InTokens(ident.idx) /\ IsSeq(ident.nodes)
  BY <1>1, IdentifierExpr
<1>3. TypedIdent(k) = IF type.nodes = <<>> \/ ident.nodes = <<>> THEN Parsed(k, <<>>)
                      ELSE Parsed(ident.idx, type.nodes \o ident.nodes)
  BY DEF TypedIdent, Failed
<1> HIDE DEF type, ident
<1>4. PICK S : type.nodes \in Seq(S)
  BY <1>1 DEF IsSeq
<1>5. PICK R : ident.nodes \in Seq(R)
  BY <1>2 DEF IsSeq
<1>6. type.nodes \in Seq(S \cup R) /\ ident.nodes \in Seq(S \cup R)
  BY <1>4, <1>5
<1>7. type.nodes \o ident.nodes \in Seq(S \cup R)
  BY <1>6
<1>8. IsSeq(type.nodes \o ident.nodes)
  BY <1>7 DEF IsSeq
<1> QED BY <1>2, <1>3, <1>8, Singles DEF Parsed

-----------------------------------------------------------------------------
(* How a step can end *)

\* What the invariant says of the place the parser is at.
LEMMA Here ==
  ASSUME IInv
  PROVE  /\ tokens \in Inputs /\ InTokens(idx) /\ idx \in Int
         /\ IsStack(frames) /\ Top = frames[Len(frames)]
         /\ Top.fn \in Fns /\ IsSeq(vals) /\ Len(vals) \in Nat
         /\ tok # "T_EOF" => InTokens(idx + 1)
         /\ Len(vals) = 0 => vals = <<>>
         /\ (Len(vals) = 0 /\ Top.fn \in DOMAIN FirstToken) => tok = FirstToken[Top.fn]
<1>1. tokens \in Inputs /\ InTokens(idx) /\ idx \in Int
  BY Lists DEF IInv, InTokens
<1>2. IsStack(frames) /\ Top = frames[Len(frames)]
  BY DEF IInv, Top, Last
<1>3. IsFrame(Top)
  BY <1>2, LenNat DEF IsStack
<1>4. Top.fn \in Fns /\ IsSeq(vals)
  BY <1>3 DEF IsFrame, vals
<1>5. Len(vals) \in Nat /\ (Len(vals) = 0 => vals = <<>>)
  BY <1>4, LenNat
<1>6. tok # "T_EOF" => InTokens(idx + 1)
  BY <1>1, NextToken DEF tok
<1>7. Expects(Top, tok)
  BY <1>2 DEF IInv
<1> QED BY <1>1, <1>2, <1>4, <1>5, <1>6, <1>7 DEF Expects, vals

LEMMA KeepInv ==
  ASSUME IInv, phase = "parse", NEW k, InTokens(k), NEW vs, IsSeq(vs),
         vs # <<>> \/ Top.fn \notin DOMAIN FirstToken, Keep(k, vs)
  PROVE  IInv'
<1> DEFINE gs == [frames EXCEPT ![Len(frames)].vals = vs]
<1>1. IsStack(gs) /\ gs[Len(gs)] = Frame(Top.fn, vs)
  BY Here, SetTop
<1> HIDE DEF gs
<1>2. frames' = gs /\ idx' = k /\ tokens' = tokens /\ phase' = "parse"
  BY DEF Keep, gs
<1>3. Expects(gs[Len(gs)], Kind(k))
  BY <1>1 DEF Expects, Frame
<1> QED BY <1>1, <1>2, <1>3, Here DEF IInv, InTokens, tok, Kind

LEMMA CallInv ==
  ASSUME IInv, phase = "parse", NEW k, InTokens(k), NEW vs, IsSeq(vs),
         NEW fn \in Fns, fn # "parse_program",
         fn \in DOMAIN FirstToken => Kind(k) = FirstToken[fn], Call(k, vs, fn)
  PROVE  IInv'
<1> DEFINE hs == [frames EXCEPT ![Len(frames)].vals = vs]
           gs == Append(hs, Frame(fn, <<>>))
<1>1. IsStack(hs)
  BY Here, SetTop
<1> HIDE DEF hs
<1>2. IsStack(gs) /\ gs[Len(gs)] = Frame(fn, <<>>)
  BY <1>1, PushFrame
<1>3. frames' = gs /\ idx' = k /\ tokens' = tokens /\ phase' = "parse"
  BY DEF Call, hs
<1> HIDE DEF gs
<1>4. Expects(gs[Len(gs)], Kind(k))
  BY <1>2 DEF Expects, Frame
<1> QED BY <1>2, <1>3, <1>4, Here DEF IInv, InTokens, tok, Kind

LEMMA BecomeInv ==
  ASSUME IInv, phase = "parse", Top.fn # "parse_program", NEW fn \in Fns, fn # "parse_program",
         fn \in DOMAIN FirstToken => tok = FirstToken[fn], Become(fn)
  PROVE  IInv'
<1> DEFINE gs == Append(Front(frames), Frame(fn, <<>>))
<1>1. IsStack(Front(frames))
  BY Here, PopFrame
<1>2. IsStack(gs) /\ gs[Len(gs)] = Frame(fn, <<>>)
  BY <1>1, PushFrame
<1>3. frames' = gs /\ idx' = idx /\ tokens' = tokens /\ phase' = "parse"
  BY DEF Become
<1> HIDE DEF gs
<1>4. Expects(gs[Len(gs)], tok)
  BY <1>2 DEF Expects, Frame
<1> QED BY <1>2, <1>3, <1>4, Here DEF IInv, InTokens, tok, Kind

LEMMA ReturnInv ==
  ASSUME IInv, phase = "parse", Top.fn # "parse_program", NEW k, InTokens(k), NEW val, Return(k, val)
  PROVE  IInv'
<1> DEFINE hs == Front(frames)
           n == Len(hs)
           vs == Append(hs[n].vals, val)
           gs == [hs EXCEPT ![n].vals = vs]
<1>1. IsStack(hs) /\ n = Len(frames) - 1
  BY Here, PopFrame
<1> HIDE DEF hs
<1>2. IsFrame(hs[n])
  BY <1>1, LenNat DEF IsStack
<1>3. IsSeq(vs) /\ vs # <<>>
  BY <1>2, Appending DEF IsFrame
<1>4. gs = [hs EXCEPT ![n].vals = Append(@, val)]
  OBVIOUS
<1> HIDE DEF vs
<1>5. IsStack(gs) /\ gs[Len(gs)] = Frame(hs[n].fn, vs)
  BY <1>1, <1>3, SetTop
<1>6. frames' = gs /\ idx' = k /\ tokens' = tokens /\ phase' = "parse"
  BY <1>1, <1>4 DEF Return, hs
<1> HIDE DEF gs
<1>7. Expects(gs[Len(gs)], Kind(k))
  BY <1>3, <1>5 DEF Expects, Frame
<1> QED BY <1>5, <1>6, <1>7, Here DEF IInv, InTokens, tok, Kind

LEMMA ErrorInv ==
  ASSUME IInv, compile_error \/ assert_failed
  PROVE  IInv'
BY DEF compile_error, assert_failed, Stop, IInv, InTokens, tok, Kind

-----------------------------------------------------------------------------
(* The functions *)

LEMMA FirstOperandInv == ASSUME IInv, FirstOperand PROVE IInv'
<1>1. PICK fn \in DOMAIN operand : In(fn, 0) /\ Call(idx, <<>>, operand[fn])
  BY DEF FirstOperand
<1>2. /\ operand[fn] \in Fns /\ operand[fn] # "parse_program"
      /\ operand[fn] \notin DOMAIN FirstToken
  BY DEF operand, Fns, exprFns, FirstToken
<1> QED BY <1>1, <1>2, Here, CallInv, Singles DEF In

LEMMA ParseLevelInv == ASSUME IInv, ParseLevel PROVE IInv'
<1>1. PICK fn \in DOMAIN binary_op :
        \/ In(fn, 1) /\ tok \in DOMAIN binary_op[fn]
           /\ Call(idx + 1, <<vals[1], binary_op[fn][tok]>>, operand[fn])
        \/ In(fn, 1) /\ Return(idx, vals[1])
        \/ In(fn, 3) /\ Keep(idx, <<mk_binary_expr(vals[2], vals[1], vals[3])>>)
  BY DEF ParseLevel
<1>2. /\ operand[fn] \in Fns /\ operand[fn] # "parse_program"
      /\ operand[fn] \notin DOMAIN FirstToken
      /\ fn # "parse_program" /\ "T_EOF" \notin DOMAIN binary_op[fn]
  BY DEF binary_op, operand, Fns, exprFns, FirstToken
<1>3. CASE In(fn, 1) /\ tok \in DOMAIN binary_op[fn]
           /\ Call(idx + 1, <<vals[1], binary_op[fn][tok]>>, operand[fn])
  BY <1>2, <1>3, Here, CallInv, Singles DEF In
<1>4. CASE In(fn, 1) /\ Return(idx, vals[1])
  BY <1>2, <1>4, Here, ReturnInv DEF In
<1>5. CASE In(fn, 3) /\ Keep(idx, <<mk_binary_expr(vals[2], vals[1], vals[3])>>)
  BY <1>5, Here, KeepInv, Singles DEF In
<1> QED BY <1>1, <1>3, <1>4, <1>5

LEMMA ParseAssignExprInv == ASSUME IInv, ParseAssignExpr PROVE IInv'
<1> USE DEF In
<1>1. "parse_assign_expr" \in Fns \ DOMAIN FirstToken
  BY DEF Fns, exprFns, operand, FirstToken
<1>2. CASE In("parse_assign_expr", 1) /\ tok = "T_EQUAL" /\ Call(idx + 1, vals, "parse_assign_expr")
  BY <1>1, <1>2, Here, CallInv
<1>3. CASE \E val : Top.fn = "parse_assign_expr" /\ phase = "parse" /\ Return(idx, val)
  BY <1>3, Here, ReturnInv
<1>4. CASE compile_error
  BY <1>4, ErrorInv
<1> QED BY <1>2, <1>3, <1>4 DEF ParseAssignExpr

LEMMA ParseUnaryExprInv == ASSUME IInv, ParseUnaryExpr PROVE IInv'
<1> USE DEF In
<1>1. /\ {"parse_unary_expr", "parse_postfix"} \subseteq Fns \ DOMAIN FirstToken
      /\ "T_EOF" \notin DOMAIN unary_op
  BY DEF Fns, exprFns, operand, FirstToken, unary_op
<1>2. CASE /\ In("parse_unary_expr", 0) /\ tok \in DOMAIN unary_op
           /\ Call(idx + 1, <<unary_op[tok]>>, "parse_unary_expr")
  BY <1>1, <1>2, Here, CallInv, Singles
<1>3. CASE In("parse_unary_expr", 0) /\ Become("parse_postfix")
  BY <1>1, <1>3, BecomeInv
<1>4. CASE In("parse_unary_expr", 2) /\ Return(idx, mk_unary_expr(vals[1], vals[2]))
  BY <1>4, Here, ReturnInv
<1> QED BY <1>2, <1>3, <1>4 DEF ParseUnaryExpr

LEMMA ParsePostfixInv == ASSUME IInv, ParsePostfix PROVE IInv'
<1> USE DEF In
<1>1. parse_binary_expr \in Fns \ DOMAIN FirstToken /\ parse_binary_expr # "parse_program"
  BY DEF Fns, exprFns, operand, FirstToken, parse_binary_expr
<1>2. CASE In("parse_postfix", 1) /\ tok = "T_LEFT_BRACKET" /\ Call(idx + 1, vals, parse_binary_expr)
  BY <1>1, <1>2, Here, CallInv
<1>3. CASE In("parse_postfix", 1) /\ Return(idx, vals[1])
  BY <1>3, Here, ReturnInv
<1>4. CASE /\ In("parse_postfix", 2) /\ tok = "T_RIGHT_BRACKET"
           /\ Keep(idx + 1, <<mk_index_expr(vals[1], vals[2])>>)
  BY <1>4, Here, KeepInv, Singles
<1>5. CASE compile_error
  BY <1>5, ErrorInv
<1> QED BY <1>2, <1>3, <1>4, <1>5 DEF ParsePostfix

LEMMA ParsePrimaryInv == ASSUME IInv, ParsePrimary PROVE IInv'
<1> USE DEF In
<1>1. /\ {"parse_cast_expr", "parse_call_expr", "parse_assign_expr"} \subseteq Fns
      /\ FirstToken["parse_cast_expr"] = "T_LEFT_PAREN" /\ FirstToken["parse_call_expr"] = "T_CALL"
      /\ "parse_assign_expr" \notin DOMAIN FirstToken
  BY DEF Fns, exprFns, operand, FirstToken
<1>2. CASE In("parse_primary", 0) /\ tok = "T_LEFT_PAREN" /\ Become("parse_cast_expr")
  BY <1>1, <1>2, BecomeInv
<1>3. CASE In("parse_primary", 0) /\ tok = "T_CALL" /\ Become("parse_call_expr")
  BY <1>1, <1>3, BecomeInv
<1>4. CASE In("parse_primary", 0) /\ tok = "T_LEFT_PAREN" /\ Call(idx + 1, <<>>, "parse_assign_expr")
  BY <1>1, <1>4, Here, CallInv, Singles
<1>5. CASE \E val : Top.fn = "parse_primary" /\ phase = "parse" /\ tok # "T_EOF" /\ Return(idx + 1, val)
  BY <1>5, Here, ReturnInv
<1>6. CASE compile_error
  BY <1>6, ErrorInv
<1> QED BY <1>2, <1>3, <1>4, <1>5, <1>6 DEF ParsePrimary, IsCast

LEMMA ParseCastExprInv == ASSUME IInv, ParseCastExpr PROVE IInv'
<1> USE DEF In
<1> DEFINE type == parse_var_type(idx + 1)
<1>1. /\ "parse_primary" \in Fns \ DOMAIN FirstToken
      /\ "parse_cast_expr" \in DOMAIN FirstToken /\ FirstToken["parse_cast_expr"] = "T_LEFT_PAREN"
  BY DEF Fns, exprFns, FirstToken
<1>2. CASE /\ In("parse_cast_expr", 0) /\ Kind(type.idx) = "T_RIGHT_PAREN"
           /\ Call(type.idx + 1, type.nodes, "parse_primary")
  <2>1. InTokens(idx + 1)
    BY <1>1, <1>2, Here
  <2>2. InTokens(type.idx) /\ IsSeq(type.nodes)
    BY <2>1, VarType, Here
  <2>3. InTokens(type.idx + 1)
    BY <1>2, <2>2, NextToken, Here
  <2> HIDE DEF type
  <2> QED BY <1>1, <1>2, <2>2, <2>3, CallInv
<1>3. CASE In("parse_cast_expr", 2) /\ Return(idx, mk_cast_expr(vals[1], vals[2]))
  BY <1>3, Here, ReturnInv
<1>4. CASE compile_error \/ assert_failed
  BY <1>4, ErrorInv
<1> QED BY <1>2, <1>3, <1>4 DEF ParseCastExpr

LEMMA NextArgInv ==
  ASSUME IInv, phase = "parse", Top.fn = "parse_call_expr",
         NEW k, InTokens(k), NEW vs, IsSeq(vs), NextArg(k, vs)
  PROVE  IInv'
<1>1. parse_binary_expr \in Fns \ DOMAIN FirstToken /\ parse_binary_expr # "parse_program"
  BY DEF Fns, exprFns, operand, FirstToken, parse_binary_expr
<1>2. CASE Kind(k) = "T_RIGHT_PAREN" /\ Return(k + 1, CallOn(vs))
  <2>1. InTokens(k + 1)
    BY <1>2, NextToken, Here
  <2> QED BY <1>2, <2>1, ReturnInv
<1>3. CASE Call(k, vs, parse_binary_expr)
  BY <1>1, <1>3, CallInv
<1> QED BY <1>2, <1>3 DEF NextArg

LEMMA ParseCallExprInv == ASSUME IInv, ParseCallExpr PROVE IInv'
<1> USE DEF In
<1> DEFINE ident == parse_identifier_expr(idx + 1)
<1>1. "parse_call_expr" \in DOMAIN FirstToken /\ FirstToken["parse_call_expr"] = "T_CALL"
  BY DEF FirstToken
<1>2. CASE /\ In("parse_call_expr", 0) /\ Kind(ident.idx) = "T_LEFT_PAREN"
           /\ NextArg(ident.idx + 1, ident.nodes)
  <2>1. InTokens(idx + 1)
    BY <1>1, <1>2, Here
  <2>2. InTokens(ident.idx) /\ IsSeq(ident.nodes)
    BY <2>1, IdentifierExpr, Here
  <2>3. InTokens(ident.idx + 1)
    BY <1>2, <2>2, NextToken, Here
  <2> HIDE DEF ident
  <2> QED BY <1>2, <2>2, <2>3, NextArgInv
<1>3. CASE phase = "parse" /\ Top.fn = "parse_call_expr" /\ tok = "T_COMMA" /\ NextArg(idx + 1, vals)
  BY <1>3, Here, NextArgInv
<1>4. CASE /\ phase = "parse" /\ Top.fn = "parse_call_expr" /\ tok = "T_RIGHT_PAREN"
           /\ Return(idx + 1, CallOn(vals))
  BY <1>4, Here, ReturnInv
<1>5. CASE compile_error
  BY <1>5, ErrorInv
<1> QED BY <1>2, <1>3, <1>4, <1>5 DEF ParseCallExpr

LEMMA BlockInv ==
  ASSUME IInv, phase = "parse", NEW k, InTokens(k), NEW vs, IsSeq(vs), parse_block_stmt(k, vs)
  PROVE  IInv'
<1>1. "parse_block_stmt" \in Fns \ DOMAIN FirstToken
  BY DEF Fns, stmtFns, FirstToken
<1>2. CASE Kind(k) = "T_LEFT_BRACE" /\ Call(k + 1, vs, "parse_block_stmt")
  <2>1. InTokens(k + 1)
    BY <1>2, NextToken, Here
  <2> QED BY <1>1, <1>2, <2>1, CallInv
<1>3. CASE assert_failed
  BY <1>3, ErrorInv
<1> QED BY <1>2, <1>3 DEF parse_block_stmt

LEMMA ParseBlockStmtInv == ASSUME IInv, ParseBlockStmt PROVE IInv'
<1>1. /\ "parse_statment" \in Fns \ DOMAIN FirstToken
      /\ "parse_var_decl" \in Fns /\ FirstToken["parse_var_decl"] = "T_LET"
      /\ "parse_block_stmt" \notin DOMAIN FirstToken
  BY DEF Fns, stmtFns, FirstToken
<1>2. phase = "parse" /\ Top.fn = "parse_block_stmt"
  BY DEF ParseBlockStmt
<1>3. CASE tok = "T_RIGHT_BRACE" /\ Return(idx + 1, mk_block_stmt(vals))
  BY <1>2, <1>3, Here, ReturnInv
<1>4. CASE tok = "T_LET" /\ Call(idx, vals, "parse_var_decl")
  BY <1>1, <1>2, <1>4, Here, CallInv DEF tok
<1>5. CASE tok = "T_COMMENT" /\ Keep(idx + 1, Append(vals, mk_comment_stmt))
  BY <1>1, <1>2, <1>5, Here, KeepInv, Appending
<1>6. CASE Call(idx, vals, "parse_statment")
  BY <1>1, <1>2, <1>6, Here, CallInv
<1> QED BY <1>3, <1>4, <1>5, <1>6 DEF ParseBlockStmt

LEMMA ParseStatmentInv == ASSUME IInv, ParseStatment PROVE IInv'
<1> USE DEF In
<1>1. /\ {"parse_assign_expr", "parse_call_expr", "parse_if_stmt", "parse_return_stmt",
           "parse_block_stmt"} \subseteq Fns
      /\ FirstToken["parse_call_expr"] = "T_CALL" /\ FirstToken["parse_if_stmt"] = "T_IF"
      /\ FirstToken["parse_return_stmt"] = "T_RETURN"
      /\ {"parse_assign_expr", "parse_block_stmt"} \cap DOMAIN FirstToken = {}
  BY DEF Fns, exprFns, stmtFns, operand, FirstToken
<1>2. CASE In("parse_statment", 0) /\ tok = "T_IF" /\ Become("parse_if_stmt")
  BY <1>1, <1>2, BecomeInv
<1>3. CASE In("parse_statment", 0) /\ tok = "T_RETURN" /\ Call(idx, <<>>, "parse_return_stmt")
  BY <1>1, <1>3, Here, CallInv, Singles DEF tok
<1>4. CASE In("parse_statment", 0) /\ ParseExpr
  <2>1. CASE tok = "T_CALL" /\ Call(idx, <<>>, "parse_call_expr")
    BY <1>1, <1>4, <2>1, Here, CallInv, Singles DEF tok
  <2>2. CASE tok = "T_LEFT_BRACE" /\ Call(idx + 1, <<>>, "parse_block_stmt")
    BY <1>1, <1>4, <2>2, Here, CallInv, Singles
  <2>3. CASE Call(idx, <<>>, "parse_assign_expr")
    BY <1>1, <1>4, <2>3, Here, CallInv, Singles
  <2> QED BY <1>4, <2>1, <2>2, <2>3 DEF ParseExpr
<1>5. CASE In("parse_statment", 1) /\ EndStatment
  BY <1>5, Here, ReturnInv, ErrorInv DEF EndStatment
<1> QED BY <1>2, <1>3, <1>4, <1>5 DEF ParseStatment

LEMMA ParseReturnStmtInv == ASSUME IInv, ParseReturnStmt PROVE IInv'
<1> USE DEF In
<1>1. /\ "parse_assign_expr" \in Fns \ DOMAIN FirstToken
      /\ "parse_return_stmt" \in DOMAIN FirstToken /\ FirstToken["parse_return_stmt"] = "T_RETURN"
  BY DEF Fns, exprFns, operand, FirstToken
<1>2. CASE In("parse_return_stmt", 0) /\ Call(idx + 1, <<>>, "parse_assign_expr")
  BY <1>1, <1>2, Here, CallInv, Singles
<1>3. CASE In("parse_return_stmt", 1) /\ Return(idx, mk_return_stmt(vals[1]))
  BY <1>3, Here, ReturnInv
<1> QED BY <1>2, <1>3 DEF ParseReturnStmt

LEMMA ParseIfStmtInv == ASSUME IInv, ParseIfStmt PROVE IInv'
<1> USE DEF In
<1>1. /\ parse_binary_expr \in Fns \ DOMAIN FirstToken /\ parse_binary_expr # "parse_program"
      /\ "parse_if_stmt" \in DOMAIN FirstToken /\ FirstToken["parse_if_stmt"] = "T_IF"
  BY DEF Fns, exprFns, operand, parse_binary_expr, FirstToken
<1>2. CASE /\ In("parse_if_stmt", 0) /\ Kind(idx + 1) = "T_LEFT_PAREN"
           /\ Call(idx + 2, <<>>, parse_binary_expr)
  <2>1. InTokens(idx + 1)
    BY <1>1, <1>2, Here
  <2>2. InTokens(idx + 1 + 1)
    BY <1>2, <2>1, NextToken, Here
  <2>3. idx + 1 + 1 = idx + 2
    BY Here
  <2> QED BY <1>1, <1>2, <2>2, <2>3, CallInv, Singles
<1>3. CASE In("parse_if_stmt", 1) /\ tok = "T_RIGHT_PAREN" /\ parse_block_stmt(idx + 1, vals)
  BY <1>3, Here, BlockInv
<1>4. CASE In("parse_if_stmt", 2) /\ tok = "T_ELSE" /\ parse_block_stmt(idx + 1, vals)
  BY <1>4, Here, BlockInv
<1>5. CASE \E val : phase = "parse" /\ Top.fn = "parse_if_stmt" /\ Return(idx, val)
  BY <1>5, Here, ReturnInv
<1>6. CASE compile_error
  BY <1>6, ErrorInv
<1> QED BY <1>2, <1>3, <1>4, <1>5, <1>6 DEF ParseIfStmt

LEMMA ParseVarDeclInv == ASSUME IInv, ParseVarDecl PROVE IInv'
<1> USE DEF In
<1> DEFINE decl == TypedIdent(idx + 1)
<1>1. /\ parse_binary_expr \in Fns \ DOMAIN FirstToken /\ parse_binary_expr # "parse_program"
      /\ "parse_var_decl" \in DOMAIN FirstToken /\ FirstToken["parse_var_decl"] = "T_LET"
  BY DEF Fns, exprFns, operand, parse_binary_expr, FirstToken
<1>2. In("parse_var_decl", 0) => InTokens(decl.idx) /\ IsSeq(decl.nodes)
  <2>1. In("parse_var_decl", 0) => InTokens(idx + 1)
    BY <1>1, Here
  <2> QED BY <2>1, TypedIdents, Here
<1>3. In("parse_var_decl", 0) /\ Kind(decl.idx) # "T_EOF" => InTokens(decl.idx + 1)
  BY <1>2, NextToken, Here
<1>4. CASE /\ In("parse_var_decl", 0) /\ Kind(decl.idx) = "T_EQUAL"
           /\ Call(decl.idx + 1, decl.nodes, parse_binary_expr)
  <2> HIDE DEF decl
  <2> QED BY <1>1, <1>2, <1>3, <1>4, CallInv
<1>5. CASE \E val : /\ In("parse_var_decl", 0) /\ Kind(decl.idx) = "T_SEMICOLON"
                    /\ Return(decl.idx + 1, val)
  <2> HIDE DEF decl
  <2> QED BY <1>3, <1>5, ReturnInv
<1>6. CASE \E val : In("parse_var_decl", 3) /\ tok = "T_SEMICOLON" /\ Return(idx + 1, val)
  BY <1>6, Here, ReturnInv
<1>7. CASE compile_error
  BY <1>7, ErrorInv
<1> QED BY <1>4, <1>5, <1>6, <1>7 DEF ParseVarDecl

LEMMA ParseAllFuncParamsInv == ASSUME IInv, ParseAllFuncParams PROVE IInv'
<1> DEFINE param == TypedIdent(idx)
           added == Append(vals, mk_func_param(param.nodes[2], param.nodes[1]))
<1>1. phase = "parse" /\ Top.fn = "parse_all_func_params"
  BY DEF ParseAllFuncParams
<1>2. InTokens(param.idx)
  BY TypedIdents, Here
<1>3. Kind(param.idx) = "T_COMMA" => InTokens(param.idx + 1)
  BY <1>2, NextToken, Here
<1>4. "parse_all_func_params" \notin DOMAIN FirstToken
  BY DEF FirstToken
<1>5. IsSeq(added)
  BY Here, Appending
<1>6. CASE tok = "T_RIGHT_PAREN" /\ Return(idx + 1, vals)
  BY <1>1, <1>6, Here, ReturnInv
<1>7. CASE \/ Kind(param.idx) = "T_COMMA" /\ Keep(param.idx + 1, added)
           \/ Keep(param.idx, added)
  <2> HIDE DEF param, added
  <2> QED BY <1>1, <1>2, <1>3, <1>4, <1>5, <1>7, KeepInv
<1>8. CASE compile_error
  BY <1>8, ErrorInv
<1> QED BY <1>6, <1>7, <1>8 DEF ParseAllFuncParams

LEMMA ParseFuncDeclInv == ASSUME IInv, ParseFuncDecl PROVE IInv'
<1> USE DEF In
<1> DEFINE decl == TypedIdent(idx + 1)
<1>1. /\ "parse_all_func_params" \in Fns \ DOMAIN FirstToken
      /\ "parse_func_decl" \in DOMAIN FirstToken /\ FirstToken["parse_func_decl"] = "T_FUNC"
  BY DEF Fns, topFns, FirstToken
<1>2. CASE /\ In("parse_func_decl", 0) /\ Kind(decl.idx) = "T_LEFT_PAREN"
           /\ Call(decl.idx + 1, decl.nodes, "parse_all_func_params")
  <2>1. InTokens(idx + 1)
    BY <1>1, <1>2, Here
  <2>2. InTokens(decl.idx) /\ IsSeq(decl.nodes)
    BY <2>1, TypedIdents, Here
  <2>3. InTokens(decl.idx + 1)
    BY <1>2, <2>2, NextToken, Here
  <2> HIDE DEF decl
  <2> QED BY <1>1, <1>2, <2>2, <2>3, CallInv
<1>3. CASE In("parse_func_decl", 3) /\ parse_block_stmt(idx, vals)
  BY <1>3, Here, BlockInv
<1>4. CASE \E val : In("parse_func_decl", 4) /\ Return(idx, val)
  BY <1>4, Here, ReturnInv
<1>5. CASE compile_error
  BY <1>5, ErrorInv
<1> QED BY <1>2, <1>3, <1>4, <1>5 DEF ParseFuncDecl

LEMMA ParseProgramInv == ASSUME IInv, ParseProgram PROVE IInv'
<1>1. phase = "parse" /\ Top.fn = "parse_program"
  BY DEF ParseProgram
<1>2. /\ {"parse_func_decl", "parse_var_decl"} \subseteq Fns
      /\ FirstToken["parse_func_decl"] = "T_FUNC" /\ FirstToken["parse_var_decl"] = "T_LET"
      /\ "parse_program" \notin DOMAIN FirstToken
  BY DEF Fns, stmtFns, topFns, FirstToken
<1>3. CASE tok = "T_EOF" /\ Stop("done")
  <2>1. Len(frames) \in Nat /\ Len(frames) > 0
    BY Here, LenNat DEF IsStack
  <2>2. Len(frames) \in 1..Len(frames)
    BY <2>1
  <2>3. \A k \in 1..Len(frames) : frames[k].fn = "parse_program" <=> k = 1
    BY Here DEF IsStack
  <2>4. frames[Len(frames)].fn = "parse_program"
    BY <1>1, Here
  <2>5. Len(frames) = 1
    BY <2>2, <2>3, <2>4
  <2> QED BY <1>3, <2>5 DEF Stop, IInv, InTokens, tok, Kind
<1>4. CASE tok = "T_FUNC" /\ Call(idx, vals, "parse_func_decl")
  BY <1>1, <1>2, <1>4, Here, CallInv DEF tok
<1>5. CASE tok = "T_LET" /\ Call(idx, vals, "parse_var_decl")
  BY <1>1, <1>2, <1>5, Here, CallInv DEF tok
<1>6. CASE tok = "T_COMMENT" /\ Keep(idx + 1, Append(vals, mk_comment_stmt))
  BY <1>1, <1>2, <1>6, Here, KeepInv, Appending
<1>7. CASE compile_error
  BY <1>7, ErrorInv
<1> QED BY <1>3, <1>4, <1>5, <1>6, <1>7 DEF ParseProgram

-----------------------------------------------------------------------------
(* The theorems *)

LEMMA Starts == Init => IInv
<1> SUFFICES ASSUME Init PROVE IInv
  OBVIOUS
<1>1. tokens \in Inputs /\ InTokens(idx)
  BY Lists DEF Init, InTokens
<1>2. IsFrame(frames[1]) /\ frames[1].fn = "parse_program" /\ Len(frames) = 1
  BY Singles DEF Init, IsFrame, Frame, Fns, topFns
<1>3. IsStack(frames)
  BY <1>2, Singles DEF Init, IsStack
<1>4. Expects(frames[Len(frames)], tok)
  BY <1>2 DEF Expects, FirstToken
<1> QED BY <1>1, <1>3, <1>4 DEF Init, IInv

LEMMA Inductive == IInv /\ [Next]_vars => IInv'
<1> SUFFICES ASSUME IInv, [Next]_vars PROVE IInv'
  OBVIOUS
<1>1. CASE ParseExpression
  BY <1>1, FirstOperandInv, ParseLevelInv, ParseAssignExprInv, ParseUnaryExprInv, ParsePostfixInv,
     ParsePrimaryInv, ParseCastExprInv, ParseCallExprInv DEF ParseExpression
<1>2. CASE ParseStmt
  BY <1>2, ParseBlockStmtInv, ParseStatmentInv, ParseReturnStmtInv, ParseIfStmtInv, ParseVarDeclInv
     DEF ParseStmt
<1>3. CASE ParseAllFuncParams \/ ParseFuncDecl \/ ParseProgram
  BY <1>3, ParseAllFuncParamsInv, ParseFuncDeclInv, ParseProgramInv
<1>4. CASE UNCHANGED vars
  BY <1>4 DEF vars, IInv, InTokens, tok, Kind
<1> QED BY <1>1, <1>2, <1>3, <1>4 DEF Next, Parse, Terminated

LEMMA Implies == IInv => TypeOK /\ NeverPastEof
<1> SUFFICES ASSUME IInv PROVE TypeOK /\ NeverPastEof
  OBVIOUS
<1>1. PICK S : frames \in Seq(S)
  BY DEF IInv, IsStack, IsSeq
<1>2. DOMAIN frames = 1..Len(frames) /\ frames # <<>>
  BY <1>1 DEF IInv, IsStack
<1>3. TypeOK
  BY <1>2 DEF IInv, InTokens, IsStack, IsFrame, Fns, TypeOK
<1>4. idx < Len(tokens) /\ idx \in Nat /\ Len(tokens) \in Nat
  BY Lists DEF IInv, InTokens
<1>5. ASSUME NEW k \in 1..idx PROVE tokens[k].type # "T_EOF"
  <2>1. k - 1 \in 0..Len(tokens) - 1 /\ k - 1 # Len(tokens) - 1 /\ k - 1 + 1 = k
    BY <1>4
  <2> QED BY <2>1, Lists DEF IInv, Kind
<1> QED BY <1>3, <1>4, <1>5 DEF IInv, NeverPastEof

(***************************************************************************)
(* On every list of tokens that ends in its one T_EOF, the index stays     *)
(* inside the list and every call made by a parse_* function returns to    *)
(* one: parse_program is at the bottom of the stack and nowhere else.      *)
(***************************************************************************)
THEOREM TypeCorrect == Spec => []TypeOK
<1> QED BY Starts, Inductive, Implies, PTL DEF Spec

(***************************************************************************)
(* The parser steps over every token of a complete program and never over  *)
(* T_EOF, however the source is cut off and however deeply it is nested.   *)
(***************************************************************************)
THEOREM EofNotConsumed == Spec => []NeverPastEof
<1> QED BY Starts, Inductive, Implies, PTL DEF Spec

-----------------------------------------------------------------------------
(* Well-formed trees                                                       *)
(*                                                                         *)
(* A node is made of the values a function has in hand, which the calls    *)
(* before it have returned.  So what must be known while the tree is being *)
(* built is of what kind each value in each frame is: TreeInv says so.     *)

\* A set of nodes closed under Below, each well-formed; N is the names.
Universe(U, N) ==
  \A n \in U : /\ Shape(U, N)!WellFormed(n)
               /\ Range(Below(n)) \subseteq U \cup {Null}

expr_t == Shape({}, {})!expr_t
stmt_t == Shape({}, {})!stmt_t
top_t == Shape({}, {})!top_t

IsIdent(N, v) == v.type = "AST_IDENTIFIER" /\ v.name \in N

\* v is what a function that builds the given kind of thing returns; a plain
\* statement is one that a semicolon ends.
Fits(U, N, kind, v) ==
  CASE kind = "expr"   -> v \in U /\ v.type \in expr_t
    [] kind = "block"  -> v \in U /\ v.type = "AST_BLOCK"
    [] kind = "decl"   -> v \in U /\ v.type = "AST_VAR_DECL"
    [] kind = "func"   -> v \in U /\ v.type = "AST_FUNC_DECL"
    [] kind = "plain"  -> v \in U /\ v.type \in expr_t \cup {"AST_BLOCK", "AST_RETURN"}
    [] kind = "stmt"   -> v \in U /\ v.type \in expr_t \cup stmt_t
    [] kind = "top"    -> v \in U /\ v.type \in top_t
    [] kind = "ident"  -> IsIdent(N, v)
    [] kind = "param"  -> IsIdent(N, v.ident)
    [] kind = "params" -> IsSeq(v) /\ \A k \in 1..Len(v) : IsIdent(N, v[k].ident)
    [] kind = "unary"  -> v \in unary_expr_t
    [] kind = "binary" -> v \in binary_expr_t
    [] OTHER           -> TRUE

\* What the one kind of thing is returned for, when it is not that kind itself
\* that is wanted.
Goes(kind, want) ==
  \/ kind = want
  \/ want = "plain" /\ kind \in {"expr", "block"}
  \/ want = "stmt" /\ kind = "decl"
  \/ want = "top" /\ kind \in {"func", "decl"}

\* The kind of thing that fn returns, and of the i-th it has in hand.
Gives(fn) ==
  CASE fn = "parse_block_stmt"      -> "block"
    [] fn = "parse_var_decl"        -> "decl"
    [] fn = "parse_func_decl"       -> "func"
    [] fn = "parse_all_func_params" -> "params"
    [] fn \in {"parse_statment", "parse_if_stmt"} -> "stmt"
    [] fn = "parse_return_stmt"     -> "plain"
    [] OTHER                        -> "expr"

Wants(fn, i) ==
  CASE fn \in DOMAIN binary_op        -> IF i = 2 THEN "binary" ELSE "expr"
    [] fn = "parse_unary_expr"        -> IF i = 1 THEN "unary" ELSE "expr"
    [] fn = "parse_cast_expr"         -> IF i = 1 THEN "type" ELSE "expr"
    [] fn = "parse_call_expr"         -> IF i = 1 THEN "ident" ELSE "expr"
    [] fn = "parse_block_stmt"        -> "stmt"
    [] fn = "parse_statment"          -> "plain"
    [] fn = "parse_if_stmt"           -> IF i = 1 THEN "expr" ELSE "block"
    [] fn = "parse_var_decl"          -> IF i = 1 THEN "type" ELSE IF i = 2 THEN "ident" ELSE "expr"
    [] fn = "parse_all_func_params"   -> "param"
    [] fn = "parse_func_decl"         -> IF i = 1 THEN "type" ELSE IF i = 2 THEN "ident"
                                         ELSE IF i = 3 THEN "params" ELSE "block"
    [] fn = "parse_program"           -> "top"
    [] OTHER                          -> "expr"

Holds(U, N, fr) == \A i \in 1..Len(fr.vals) : Fits(U, N, Wants(fr.fn, i), fr.vals[i])

\* What each frame has in hand is as it should be, and so will be what the
\* frame above returns to it.
Stacked(U, N, fs) ==
  /\ \A k \in 1..Len(fs) : Holds(U, N, fs[k])
  /\ \A k \in 1..Len(fs) - 1 : Goes(Gives(fs[k + 1].fn), Wants(fs[k].fn, Len(fs[k].vals) + 1))

\* Every node that has been made, and is not lost, is in some such set.  The
\* set is not a variable: a step that makes a node adds it.
TreeInv == \E U : Universe(U, Names) /\ Stacked(U, Names, frames)

-----------------------------------------------------------------------------
(* A larger universe *)

LEMMA FitsGoes ==
  ASSUME NEW U, NEW N, NEW kind, NEW want, Goes(kind, want), NEW v, Fits(U, N, kind, v)
  PROVE  Fits(U, N, want, v)
BY DEF Goes, Fits, stmt_t, top_t, Shape!stmt_t, Shape!top_t

LEMMA FitsGrows ==
  ASSUME NEW U, NEW V, U \subseteq V, NEW N, NEW kind, NEW v, Fits(U, N, kind, v)
  PROVE  Fits(V, N, kind, v)
BY DEF Fits

LEMMA HoldsGrows ==
  ASSUME NEW U, NEW V, U \subseteq V, NEW N, NEW fr, Holds(U, N, fr)
  PROVE  Holds(V, N, fr)
BY FitsGrows DEF Holds

LEMMA SubsSame == ASSUME NEW U, NEW V, NEW N, NEW n PROVE Shape(U, N)!Subs(n) = Shape(V, N)!Subs(n)
BY DEF Shape!Subs, Shape!Null

LEMMA WellFormedGrows ==
  ASSUME NEW U, NEW V, U \subseteq V, NEW N, NEW n, Shape(U, N)!WellFormed(n)
  PROVE  Shape(V, N)!WellFormed(n)
<1>1. Shape(V, N)!Subs(n) = Shape(U, N)!Subs(n)
  BY SubsSame
<1>2. \A m : Shape(U, N)!IsBlock(m) => Shape(V, N)!IsBlock(m)
  BY DEF Shape!IsBlock
<1>3. \A s : s \in Seq(U) => s \in Seq(V)
  OBVIOUS
<1>4. /\ Shape(U, N)!SubTypes(n) = Shape(V, N)!SubTypes(n)
      /\ Shape(U, N)!Idents(n) = Shape(V, N)!Idents(n)
  BY DEF Shape!SubTypes, Shape!Idents, Shape!expr_t, Shape!stmt_t
<1>5. /\ Shape(U, N)!expr_t = Shape(V, N)!expr_t /\ Shape(U, N)!stmt_t = Shape(V, N)!stmt_t
      /\ Shape(U, N)!unary_expr_t = Shape(V, N)!unary_expr_t
      /\ Shape(U, N)!binary_expr_t = Shape(V, N)!binary_expr_t
      /\ Shape(U, N)!Null = Shape(V, N)!Null
  BY DEF Shape!expr_t, Shape!stmt_t, Shape!unary_expr_t, Shape!binary_expr_t,
         Shape!arithmetic_t, Shape!comparison_t, Shape!Null
<1> QED BY <1>1, <1>2, <1>3, <1>4, <1>5 DEF Shape!WellFormed

LEMMA NewNode ==
  ASSUME NEW U, NEW N, Universe(U, N), NEW n, Shape(U, N)!WellFormed(n),
         Range(Below(n)) \subseteq U \cup {Null}
  PROVE  Universe(U \cup {n}, N)
<1> DEFINE V == U \cup {n}
<1>1. U \subseteq V
  OBVIOUS
<1>2. \A m \in V : Shape(U, N)!WellFormed(m) /\ Range(Below(m)) \subseteq U \cup {Null}
  BY DEF Universe
<1> HIDE DEF V
<1> QED BY <1>1, <1>2, WellFormedGrows DEF Universe, V

-----------------------------------------------------------------------------
(* How a step can end *)

\* The universe before the step.
Before(U) == Universe(U, Names) /\ Stacked(U, Names, frames)

\* What is in hand, or is returned, is as it should be in a larger universe.
InHand(U, fn, vs) ==
  \E V : U \subseteq V /\ Universe(V, Names) /\ Holds(V, Names, Frame(fn, vs))
Made(U, kind, val) ==
  \E V : U \subseteq V /\ Universe(V, Names) /\ Fits(V, Names, kind, val)

\* The values in hand.
LEMMA HandHolds ==
  ASSUME IInv, NEW U, Before(U)
  PROVE  /\ \A i \in 1..Len(vals) : Fits(U, Names, Wants(Top.fn, i), vals[i])
         /\ InHand(U, Top.fn, vals)
<1>1. Len(frames) \in 1..Len(frames) /\ Top = frames[Len(frames)]
  BY Here, LenNat DEF IsStack
<1>2. Holds(U, Names, Top)
  BY <1>1 DEF Before, Stacked
<1>3. Frame(Top.fn, vals).fn = Top.fn /\ Frame(Top.fn, vals).vals = Top.vals
  BY DEF Frame, vals
<1>4. Holds(U, Names, Frame(Top.fn, vals))
  BY <1>2, <1>3 DEF Holds
<1> QED BY <1>2, <1>4 DEF Holds, vals, InHand, Before

LEMMA StackedGrows ==
  ASSUME NEW U, NEW V, U \subseteq V, NEW N, NEW fs, Stacked(U, N, fs)
  PROVE  Stacked(V, N, fs)
BY HoldsGrows DEF Stacked

\* The stack with other values in its top frame.
LEMMA StackedSet ==
  ASSUME NEW U, NEW N, NEW fs, IsStack(fs), Stacked(U, N, fs),
         NEW vs, Holds(U, N, Frame(fs[Len(fs)].fn, vs))
  PROVE  LET gs == [fs EXCEPT ![Len(fs)].vals = vs]
         IN Stacked(U, N, gs)
<1> DEFINE n == Len(fs)
           gs == [fs EXCEPT ![n].vals = vs]
<1>1. PICK S : fs \in Seq(S)
  BY DEF IsStack, IsSeq
<1>2. n \in Nat /\ n > 0 /\ DOMAIN fs = 1..n
  BY <1>1 DEF IsStack
<1>3. IsFrame(fs[n])
  BY <1>2 DEF IsStack
<1>4. fs[n] = [fn |-> fs[n].fn, vals |-> fs[n].vals]
  BY <1>3 DEF IsFrame, Frame
<1>5. [fs[n] EXCEPT !.vals = vs] = Frame(fs[n].fn, vs)
  BY <1>4 DEF Frame
<1>6. gs = [fs EXCEPT ![n] = Frame(fs[n].fn, vs)]
  BY <1>5
<1>7. Len(gs) = n /\ \A k \in 1..n : gs[k] = IF k = n THEN Frame(fs[n].fn, vs) ELSE fs[k]
  BY <1>1, <1>2, <1>6
<1>8. Frame(fs[n].fn, vs).fn = fs[n].fn
  BY DEF Frame
<1> HIDE DEF gs
<1>9. \A k \in 1..n : Holds(U, N, gs[k]) /\ gs[k].fn = fs[k].fn
  BY <1>2, <1>7, <1>8 DEF Stacked
<1>10. \A k \in 1..n - 1 : k + 1 \in 1..n /\ k \in 1..n /\ k # n
  <2> HIDE DEF n
  <2> QED BY <1>2
<1>11. ASSUME NEW k \in 1..n - 1
       PROVE  Goes(Gives(gs[k + 1].fn), Wants(gs[k].fn, Len(gs[k].vals) + 1))
  <2>1. gs[k + 1].fn = fs[k + 1].fn /\ gs[k] = fs[k]
    BY <1>7, <1>9, <1>10
  <2>2. Goes(Gives(fs[k + 1].fn), Wants(fs[k].fn, Len(fs[k].vals) + 1))
    BY DEF Stacked
  <2> QED BY <2>1, <2>2
<1> QED BY <1>7, <1>9, <1>11 DEF Stacked, gs

LEMMA StackedPush ==
  ASSUME NEW U, NEW N, NEW fs, IsStack(fs), Stacked(U, N, fs), NEW fn,
         Goes(Gives(fn), Wants(fs[Len(fs)].fn, Len(fs[Len(fs)].vals) + 1))
  PROVE  Stacked(U, N, Append(fs, Frame(fn, <<>>)))
<1> DEFINE n == Len(fs)
           gs == Append(fs, Frame(fn, <<>>))
<1>1. n \in Nat /\ n > 0 /\ IsSeq(fs)
  BY LenNat DEF IsStack
<1>2. Len(gs) = n + 1 /\ gs[n + 1] = Frame(fn, <<>>) /\ \A k \in 1..n : gs[k] = fs[k]
  BY <1>1, Appending
<1>3. Holds(U, N, Frame(fn, <<>>)) /\ Frame(fn, <<>>).fn = fn
  BY DEF Holds, Frame
<1> HIDE DEF gs
<1>4. \A k \in 1..n + 1 : Holds(U, N, gs[k])
  BY <1>1, <1>2, <1>3 DEF Stacked
<1>5. ASSUME NEW k \in 1..(n + 1) - 1
      PROVE  Goes(Gives(gs[k + 1].fn), Wants(gs[k].fn, Len(gs[k].vals) + 1))
  <2>1. CASE k = n
    BY <1>1, <1>2, <1>3, <2>1
  <2>2. CASE k # n
    <3>1. k \in 1..n - 1 /\ k \in 1..n /\ k + 1 \in 1..n
      BY <1>1, <2>2
    <3>2. gs[k] = fs[k] /\ gs[k + 1] = fs[k + 1]
      BY <1>2, <3>1
    <3> QED BY <3>1, <3>2 DEF Stacked
  <2> QED BY <2>1, <2>2
<1> QED BY <1>2, <1>4, <1>5 DEF Stacked, gs

LEMMA StackedPop ==
  ASSUME NEW U, NEW N, NEW fs, IsStack(fs), Stacked(U, N, fs), Len(fs) > 1
  PROVE  LET hs == Front(fs)
             n == Len(hs)
         IN /\ Stacked(U, N, hs) /\ n \in 1..n
            /\ Goes(Gives(fs[Len(fs)].fn), Wants(hs[n].fn, Len(hs[n].vals) + 1))
<1> DEFINE hs == Front(fs)
           n == Len(fs) - 1
<1>1. Len(fs) \in Nat /\ IsSeq(fs) /\ Len(fs) > 0
  BY LenNat DEF IsStack
<1>2. Len(hs) = n /\ \A k \in 1..n : hs[k] = fs[k]
  BY <1>1, Fronts
<1> HIDE DEF hs
<1>3. n \in 1..n /\ n + 1 = Len(fs) /\ n \in 1..Len(fs) /\ n \in 1..Len(fs) - 1
  BY <1>1
<1>4. Goes(Gives(fs[Len(fs)].fn), Wants(fs[n].fn, Len(fs[n].vals) + 1))
  BY <1>3 DEF Stacked
<1>5. \A k \in 1..n : k \in 1..Len(fs)
  BY <1>1
<1>6. \A k \in 1..n : Holds(U, N, hs[k])
  BY <1>2, <1>5 DEF Stacked
<1>7. \A k \in 1..n - 1 : k \in 1..Len(fs) - 1 /\ k \in 1..n /\ k + 1 \in 1..n
  BY <1>1
<1>8. \A k \in 1..n - 1 : Goes(Gives(hs[k + 1].fn), Wants(hs[k].fn, Len(hs[k].vals) + 1))
  BY <1>2, <1>7 DEF Stacked
<1> QED BY <1>2, <1>3, <1>4, <1>6, <1>8 DEF Stacked, hs

LEMMA KeepTree ==
  ASSUME IInv, NEW U, Before(U), NEW k, NEW vs, InHand(U, Top.fn, vs), Keep(k, vs)
  PROVE  TreeInv'
<1>1. PICK V : U \subseteq V /\ Universe(V, Names) /\ Holds(V, Names, Frame(Top.fn, vs))
  BY DEF InHand
<1>2. IsStack(frames) /\ Top = frames[Len(frames)]
  BY Here
<1>3. Stacked(V, Names, frames)
  BY <1>1, StackedGrows DEF Before
<1>4. Stacked(V, Names, [frames EXCEPT ![Len(frames)].vals = vs])
  BY <1>1, <1>2, <1>3, StackedSet
<1>5. Names' = Names
  BY DEF Keep, Names
<1>6. Universe(V, Names)' /\ Stacked(V, Names, frames)'
  BY <1>1, <1>4, <1>5 DEF Keep
<1> QED BY <1>6 DEF TreeInv

LEMMA CallTree ==
  ASSUME IInv, NEW U, Before(U), NEW k, NEW vs, IsSeq(vs), InHand(U, Top.fn, vs), NEW fn,
         Goes(Gives(fn), Wants(Top.fn, Len(vs) + 1)), Call(k, vs, fn)
  PROVE  TreeInv'
<1> DEFINE hs == [frames EXCEPT ![Len(frames)].vals = vs]
<1>1. PICK V : U \subseteq V /\ Universe(V, Names) /\ Holds(V, Names, Frame(Top.fn, vs))
  BY DEF InHand
<1>2. IsStack(frames) /\ Top = frames[Len(frames)]
  BY Here
<1>3. Stacked(V, Names, frames)
  BY <1>1, StackedGrows DEF Before
<1>4. Stacked(V, Names, hs)
  BY <1>1, <1>2, <1>3, StackedSet
<1>5. IsStack(hs) /\ hs[Len(hs)] = Frame(Top.fn, vs)
  BY <1>2, SetTop
<1>6. Frame(Top.fn, vs).fn = Top.fn /\ Frame(Top.fn, vs).vals = vs
  BY DEF Frame
<1>7. frames' = Append(hs, Frame(fn, <<>>)) /\ tokens' = tokens
  BY DEF Call
<1> HIDE DEF hs
<1>8. Stacked(V, Names, Append(hs, Frame(fn, <<>>)))
  BY <1>4, <1>5, <1>6, StackedPush
<1>9. Names' = Names
  BY <1>7 DEF Names
<1>10. Universe(V, Names)' /\ Stacked(V, Names, frames)'
  BY <1>1, <1>7, <1>8, <1>9
<1> QED BY <1>10 DEF TreeInv

LEMMA BecomeTree ==
  ASSUME IInv, NEW U, Before(U), Top.fn # "parse_program", NEW fn,
         Gives(fn) = Gives(Top.fn), Become(fn)
  PROVE  TreeInv'
<1> DEFINE hs == Front(frames)
<1>1. IsStack(frames) /\ Top = frames[Len(frames)]
  BY Here
<1>2. IsStack(hs) /\ Len(frames) > 1
  BY <1>1, PopFrame
<1>3. /\ Stacked(U, Names, hs)
      /\ Goes(Gives(Top.fn), Wants(hs[Len(hs)].fn, Len(hs[Len(hs)].vals) + 1))
  BY <1>1, <1>2, StackedPop DEF Before
<1>4. frames' = Append(hs, Frame(fn, <<>>)) /\ tokens' = tokens
  BY DEF Become
<1> HIDE DEF hs
<1>5. Stacked(U, Names, Append(hs, Frame(fn, <<>>)))
  BY <1>2, <1>3, StackedPush
<1>6. Names' = Names
  BY <1>4 DEF Names
<1>7. Universe(U, Names)' /\ Stacked(U, Names, frames)'
  BY <1>4, <1>5, <1>6 DEF Before
<1> QED BY <1>7 DEF TreeInv

LEMMA ReturnTree ==
  ASSUME IInv, NEW U, Before(U), Top.fn # "parse_program", NEW k, NEW val,
         Made(U, Gives(Top.fn), val), Return(k, val)
  PROVE  TreeInv'
<1> DEFINE hs == Front(frames)
           n == Len(hs)
           vs == Append(hs[n].vals, val)
<1>1. IsStack(frames) /\ Top = frames[Len(frames)]
  BY Here
<1>2. IsStack(hs) /\ Len(frames) > 1 /\ n = Len(frames) - 1
  BY <1>1, PopFrame
<1>3. PICK V : U \subseteq V /\ Universe(V, Names) /\ Fits(V, Names, Gives(Top.fn), val)
  BY DEF Made
<1>4. Stacked(V, Names, frames)
  BY <1>3, StackedGrows DEF Before
<1>5. /\ Stacked(V, Names, hs) /\ n \in 1..n
      /\ Goes(Gives(Top.fn), Wants(hs[n].fn, Len(hs[n].vals) + 1))
  BY <1>1, <1>2, <1>4, StackedPop
<1>6. frames' = [hs EXCEPT ![n].vals = vs] /\ tokens' = tokens
  BY <1>2 DEF Return
<1> HIDE DEF hs
<1>7. Fits(V, Names, Wants(hs[n].fn, Len(hs[n].vals) + 1), val)
  BY <1>3, <1>5, FitsGoes
<1>8. Holds(V, Names, hs[n])
  BY <1>5 DEF Stacked
<1>9. IsSeq(hs[n].vals)
  BY <1>2, <1>5 DEF IsStack, IsFrame
<1>10. /\ Len(vs) = Len(hs[n].vals) + 1 /\ vs[Len(hs[n].vals) + 1] = val
       /\ \A i \in 1..Len(hs[n].vals) : vs[i] = hs[n].vals[i]
  BY <1>9, Appending
<1>11. Len(hs[n].vals) \in Nat
  BY <1>9, LenNat
<1>12. Frame(hs[n].fn, vs).fn = hs[n].fn /\ Frame(hs[n].fn, vs).vals = vs
  BY DEF Frame
<1> HIDE DEF vs
<1>13. Holds(V, Names, Frame(hs[n].fn, vs))
  <2> SUFFICES ASSUME NEW i \in 1..Len(hs[n].vals) + 1
               PROVE  Fits(V, Names, Wants(hs[n].fn, i), vs[i])
    BY <1>10, <1>12 DEF Holds
  <2>1. CASE i = Len(hs[n].vals) + 1
    BY <1>7, <1>10, <2>1
  <2>2. CASE i # Len(hs[n].vals) + 1
    <3>1. i \in 1..Len(hs[n].vals)
      BY <1>11, <2>2
    <3> QED BY <1>8, <1>10, <3>1 DEF Holds
  <2> QED BY <2>1, <2>2
<1>14. Stacked(V, Names, [hs EXCEPT ![n].vals = vs])
  BY <1>2, <1>5, <1>13, StackedSet
<1>15. Names' = Names
  BY <1>6 DEF Names
<1>16. Universe(V, Names)' /\ Stacked(V, Names, frames)'
  BY <1>3, <1>6, <1>14, <1>15
<1> QED BY <1>16 DEF TreeInv

LEMMA SameTree == ASSUME TreeInv, UNCHANGED <<tokens, frames>> PROVE TreeInv'
<1>1. PICK U : Universe(U, Names) /\ Stacked(U, Names, frames)
  BY DEF TreeInv
<1>2. Names' = Names
  BY DEF Names
<1>3. Universe(U, Names)' /\ Stacked(U, Names, frames)'
  BY <1>1, <1>2
<1> QED BY <1>3 DEF TreeInv

LEMMA ErrorTree == ASSUME NEW U, Before(U), compile_error \/ assert_failed PROVE TreeInv'
BY SameTree DEF Before, TreeInv, compile_error, assert_failed, Stop

-----------------------------------------------------------------------------
(* Making nodes *)

LEMMA FitsMade ==
  ASSUME NEW U, Universe(U, Names), NEW kind, NEW val, Fits(U, Names, kind, val)
  PROVE  Made(U, kind, val)
BY DEF Made

\* A node over nodes there are.
Sound(U, n) ==
  /\ Shape(U, Names)!WellFormed(n)
  /\ Range(Below(n)) \subseteq U \cup {Null}

LEMMA NodeMade ==
  ASSUME NEW U, Universe(U, Names), NEW n, Sound(U, n), NEW kind, Fits({n}, Names, kind, n)
  PROVE  Made(U, kind, n)
<1>1. Universe(U \cup {n}, Names)
  BY NewNode DEF Sound
<1>2. Fits(U \cup {n}, Names, kind, n)
  BY FitsGrows
<1>3. U \subseteq U \cup {n}
  OBVIOUS
<1> QED BY <1>1, <1>2, <1>3 DEF Made

LEMMA RangeOf ==
  /\ Range(<<>>) = {}
  /\ \A a : Range(<<a>>) = {a}
  /\ \A a, b : Range(<<a, b>>) = {a, b}
  /\ \A a, b, c : Range(<<a, b, c>>) = {a, b, c}
<1>1. ASSUME NEW a PROVE Range(<<a>>) = {a}
  BY DEF Range
<1>2. ASSUME NEW a, NEW b PROVE Range(<<a, b>>) = {a, b}
  BY DEF Range
<1>3. ASSUME NEW a, NEW b, NEW c PROVE Range(<<a, b, c>>) = {a, b, c}
  BY DEF Range
<1> QED BY <1>1, <1>2, <1>3 DEF Range

LEMMA RangeIn == ASSUME NEW S, NEW s \in Seq(S) PROVE Range(s) \subseteq S
BY DEF Range

LEMMA Types ==
  ASSUME NEW U
  PROVE  /\ Shape(U, Names)!expr_t = expr_t /\ Shape(U, Names)!stmt_t = stmt_t
         /\ Shape(U, Names)!unary_expr_t = unary_expr_t
         /\ Shape(U, Names)!binary_expr_t = binary_expr_t
         /\ Shape(U, Names)!Null = Null
BY DEF expr_t, stmt_t, Shape!expr_t, Shape!stmt_t, unary_expr_t, Shape!unary_expr_t,
       binary_expr_t, arithmetic_t, comparison_t, Shape!binary_expr_t, Shape!arithmetic_t,
       Shape!comparison_t, Null, Shape!Null

\* What WellFormed asks of a node of its type besides.
Particular(U, n) ==
  /\ n.type = "AST_LITERAL" => n.num_value \in Int
  /\ n.type = "AST_UNARY" => n.op \in unary_expr_t
  /\ n.type = "AST_UNARY" => n.expr \in U
  /\ n.type = "AST_BINARY" => n.op \in binary_expr_t
  /\ n.type = "AST_ASSIGN" => n.target \in U
  /\ n.type = "AST_CALL" => n.args \in Seq(U)
  /\ n.type = "AST_IF" => /\ n.cond.type \in expr_t
                          /\ n.then_branch \in U /\ n.then_branch.type = "AST_BLOCK"
                          /\ \/ n.else_branch \in U /\ n.else_branch.type = "AST_BLOCK"
                             \/ n.else_branch = Null
  /\ n.type = "AST_FUNC_DECL" => /\ n.block \in U /\ n.block.type = "AST_BLOCK"
                                 /\ Len(n.func_t.params) \in Nat

\* Its children are nodes of the types T, its names are names, and what is
\* below it is in U.
SubsIn(U, n, T) ==
  /\ Shape(U, Names)!Subs(n) \in Seq(U)
  /\ \A k \in DOMAIN Shape(U, Names)!Subs(n) : Shape(U, Names)!Subs(n)[k].type \in T
Named(U, n) == \A d \in Shape(U, Names)!Idents(n) : IsIdent(Names, d)
BelowIn(U, n) == Range(Below(n)) \subseteq U \cup {Null}

LEMMA SoundNode ==
  ASSUME NEW U, NEW n, n.type \in expr_t \cup stmt_t \cup {"AST_FUNC_DECL"},
         SubsIn(U, n, Shape(U, Names)!SubTypes(n)), Named(U, n), Particular(U, n), BelowIn(U, n)
  PROVE  Sound(U, n)
<1>1. /\ \A d \in Shape(U, Names)!Idents(n) : d.type = "AST_IDENTIFIER" /\ d.name \in Names
      /\ Shape(U, Names)!Subs(n) \in Seq(U)
      /\ \A k \in DOMAIN Shape(U, Names)!Subs(n) :
           Shape(U, Names)!Subs(n)[k].type \in Shape(U, Names)!SubTypes(n)
  BY DEF IsIdent, Named, SubsIn
<1>2. Shape(U, Names)!WellFormed(n)
  BY <1>1, Types DEF Particular, Shape!WellFormed, Shape!IsBlock
<1> QED BY <1>2 DEF Sound, BelowIn

IsExpr(U, v) == v \in U /\ v.type \in expr_t

LEMMA SoundExpr ==
  ASSUME NEW U, NEW n, n.type \in expr_t, SubsIn(U, n, expr_t), Named(U, n), Particular(U, n),
         BelowIn(U, n)
  PROVE  Sound(U, n)
<1>1. Shape(U, Names)!SubTypes(n) = expr_t
  BY Types DEF Shape!SubTypes, expr_t, Shape!expr_t
<1> QED BY <1>1, SoundNode

LEMMA SoundLiteral == ASSUME NEW U, NEW num \in Int PROVE Sound(U, mk_literal_expr(num))
<1> DEFINE n == mk_literal_expr(num)
<1>1. n.type = "AST_LITERAL" /\ n.num_value = num
  BY DEF mk_literal_expr
<1> HIDE DEF n
<1>2. Below(n) = <<>> /\ Shape(U, Names)!Subs(n) = <<>> /\ Shape(U, Names)!Idents(n) = {}
  BY <1>1 DEF Below, Shape!Subs, Shape!Idents
<1>3. n.type \in expr_t /\ Particular(U, n)
  BY <1>1 DEF expr_t, Shape!expr_t, Particular
<1>5. SubsIn(U, n, expr_t) /\ Named(U, n)
  BY <1>2, <1>3 DEF SubsIn, Named
<1>6. BelowIn(U, n)
  BY <1>1, <1>2, RangeOf DEF BelowIn
<1> QED BY <1>3, <1>5, <1>6, SoundExpr DEF n

LEMMA SoundIdent == ASSUME NEW U, NEW name \in Names PROVE Sound(U, mk_identifer_expr(name))
<1> DEFINE n == mk_identifer_expr(name)
<1>1. n.type = "AST_IDENTIFIER" /\ n.name = name
  BY DEF mk_identifer_expr
<1> HIDE DEF n
<1>2. Below(n) = <<>> /\ Shape(U, Names)!Subs(n) = <<>> /\ Shape(U, Names)!Idents(n) = {n}
  BY <1>1 DEF Below, Shape!Subs, Shape!Idents
<1>3. n.type \in expr_t /\ Particular(U, n) /\ IsIdent(Names, n)
  BY <1>1 DEF expr_t, Shape!expr_t, Particular, IsIdent
<1>5. SubsIn(U, n, expr_t) /\ Named(U, n)
  BY <1>2, <1>3 DEF SubsIn, Named
<1>6. BelowIn(U, n)
  BY <1>1, <1>2, RangeOf DEF BelowIn
<1> QED BY <1>3, <1>5, <1>6, SoundExpr DEF n

LEMMA SoundUnary ==
  ASSUME NEW U, NEW op \in unary_expr_t, NEW e, IsExpr(U, e)
  PROVE  Sound(U, mk_unary_expr(op, e))
<1> DEFINE n == mk_unary_expr(op, e)
<1>1. n.type = "AST_UNARY" /\ n.op = op /\ n.expr = e /\ e \in U /\ e.type \in expr_t
  BY DEF mk_unary_expr, IsExpr
<1> HIDE DEF n
<1> DEFINE subs == IF op = "U_ADDR" THEN <<>> ELSE <<e>>
<1>2. Below(n) = <<e>> /\ Shape(U, Names)!Subs(n) = subs /\ Shape(U, Names)!Idents(n) = {}
  BY <1>1 DEF Below, Shape!Subs, Shape!Idents
<1>3. n.type \in expr_t /\ Particular(U, n)
  BY <1>1 DEF expr_t, Shape!expr_t, Particular
<1>4. subs \in Seq(U) /\ \A k \in DOMAIN subs : subs[k].type \in expr_t
  BY <1>1
<1>5. SubsIn(U, n, expr_t) /\ Named(U, n)
  BY <1>2, <1>4 DEF SubsIn, Named
<1>6. BelowIn(U, n)
  BY <1>1, <1>2, RangeOf DEF BelowIn
<1> QED BY <1>3, <1>5, <1>6, SoundExpr DEF n

LEMMA SoundBinary ==
  ASSUME NEW U, NEW op \in binary_expr_t, NEW a, NEW b, IsExpr(U, a), IsExpr(U, b)
  PROVE  Sound(U, mk_binary_expr(op, a, b))
<1> DEFINE n == mk_binary_expr(op, a, b)
           subs == <<a, b>>
<1>1. /\ n.type = "AST_BINARY" /\ n.op = op /\ n.expr_left = a /\ n.expr_right = b
      /\ a \in U /\ a.type \in expr_t /\ b \in U /\ b.type \in expr_t
  BY DEF mk_binary_expr, IsExpr
<1> HIDE DEF n
<1>2. Below(n) = <<a, b>> /\ Shape(U, Names)!Subs(n) = subs /\ Shape(U, Names)!Idents(n) = {}
  BY <1>1 DEF Below, Shape!Subs, Shape!Idents
<1>3. n.type \in expr_t /\ Particular(U, n)
  BY <1>1 DEF expr_t, Shape!expr_t, Particular
<1>4. subs \in Seq(U) /\ \A k \in DOMAIN subs : subs[k].type \in expr_t
  BY <1>1
<1>5. SubsIn(U, n, expr_t) /\ Named(U, n)
  BY <1>2, <1>4 DEF SubsIn, Named
<1>6. BelowIn(U, n)
  BY <1>1, <1>2, RangeOf DEF BelowIn
<1> QED BY <1>3, <1>5, <1>6, SoundExpr DEF n

LEMMA SoundAssign ==
  ASSUME NEW U, NEW a, NEW b, IsExpr(U, a), IsExpr(U, b)
  PROVE  Sound(U, mk_assign_expr(a, b))
<1> DEFINE n == mk_assign_expr(a, b)
           subs == <<b>>
<1>1. /\ n.type = "AST_ASSIGN" /\ n.target = a /\ n.val = b
      /\ a \in U /\ b \in U /\ b.type \in expr_t
  BY DEF mk_assign_expr, IsExpr
<1> HIDE DEF n
<1>2. Below(n) = <<a, b>> /\ Shape(U, Names)!Subs(n) = subs /\ Shape(U, Names)!Idents(n) = {}
  BY <1>1 DEF Below, Shape!Subs, Shape!Idents
<1>3. n.type \in expr_t /\ Particular(U, n)
  BY <1>1 DEF expr_t, Shape!expr_t, Particular
<1>4. subs \in Seq(U) /\ \A k \in DOMAIN subs : subs[k].type \in expr_t
  BY <1>1
<1>5. SubsIn(U, n, expr_t) /\ Named(U, n)
  BY <1>2, <1>4 DEF SubsIn, Named
<1>6. BelowIn(U, n)
  BY <1>1, <1>2, RangeOf DEF BelowIn
<1> QED BY <1>3, <1>5, <1>6, SoundExpr DEF n

LEMMA SoundIndex ==
  ASSUME NEW U, NEW a, NEW b, IsExpr(U, a), IsExpr(U, b)
  PROVE  Sound(U, mk_index_expr(a, b))
<1> DEFINE n == mk_index_expr(a, b)
<1>1. n.type = "AST_INDEX" /\ n.target = a /\ n.index = b /\ a \in U /\ b \in U
  BY DEF mk_index_expr, IsExpr
<1> HIDE DEF n
<1>2. Below(n) = <<a, b>> /\ Shape(U, Names)!Subs(n) = <<>> /\ Shape(U, Names)!Idents(n) = {}
  BY <1>1 DEF Below, Shape!Subs, Shape!Idents
<1>3. n.type \in expr_t /\ Particular(U, n)
  BY <1>1 DEF expr_t, Shape!expr_t, Particular
<1>5. SubsIn(U, n, expr_t) /\ Named(U, n)
  BY <1>2, <1>3 DEF SubsIn, Named
<1>6. BelowIn(U, n)
  BY <1>1, <1>2, RangeOf DEF BelowIn
<1> QED BY <1>3, <1>5, <1>6, SoundExpr DEF n

LEMMA SoundCast ==
  ASSUME NEW U, NEW t, NEW e, IsExpr(U, e)
  PROVE  Sound(U, mk_cast_expr(t, e))
<1> DEFINE n == mk_cast_expr(t, e)
           subs == <<e>>
<1>1. n.type = "AST_CAST" /\ n.inner = e /\ e \in U /\ e.type \in expr_t
  BY DEF mk_cast_expr, IsExpr
<1> HIDE DEF n
<1>2. Below(n) = <<e>> /\ Shape(U, Names)!Subs(n) = subs /\ Shape(U, Names)!Idents(n) = {}
  BY <1>1 DEF Below, Shape!Subs, Shape!Idents
<1>3. n.type \in expr_t /\ Particular(U, n)
  BY <1>1 DEF expr_t, Shape!expr_t, Particular
<1>4. subs \in Seq(U) /\ \A k \in DOMAIN subs : subs[k].type \in expr_t
  BY <1>1
<1>5. SubsIn(U, n, expr_t) /\ Named(U, n)
  BY <1>2, <1>4 DEF SubsIn, Named
<1>6. BelowIn(U, n)
  BY <1>1, <1>2, RangeOf DEF BelowIn
<1> QED BY <1>3, <1>5, <1>6, SoundExpr DEF n

LEMMA SoundCall ==
  ASSUME NEW U, NEW callee, IsIdent(Names, callee), NEW args \in Seq(U),
         \A k \in DOMAIN args : args[k].type \in expr_t
  PROVE  Sound(U, mk_call_expr(callee, args))
<1> DEFINE n == mk_call_expr(callee, args)
<1>1. n.type = "AST_CALL" /\ n.callee = callee /\ n.args = args
  BY DEF mk_call_expr
<1> HIDE DEF n
<1>2. Below(n) = args /\ Shape(U, Names)!Subs(n) = args /\ Shape(U, Names)!Idents(n) = {callee}
  BY <1>1 DEF Below, Shape!Subs, Shape!Idents
<1>3. n.type \in expr_t /\ Particular(U, n)
  BY <1>1 DEF expr_t, Shape!expr_t, Particular
<1>5. SubsIn(U, n, expr_t) /\ Named(U, n)
  BY <1>2 DEF SubsIn, Named
<1>6. BelowIn(U, n)
  BY <1>2, RangeIn DEF BelowIn
<1> QED BY <1>3, <1>5, <1>6, SoundExpr DEF n

LEMMA SoundComment == ASSUME NEW U PROVE Sound(U, mk_comment_stmt)
<1> DEFINE n == mk_comment_stmt
<1>1. n.type = "AST_COMMENT"
  BY DEF mk_comment_stmt
<1> HIDE DEF n
<1>2. Below(n) = <<>> /\ Shape(U, Names)!Subs(n) = <<>> /\ Shape(U, Names)!Idents(n) = {}
  BY <1>1 DEF Below, Shape!Subs, Shape!Idents
<1>3. n.type \in stmt_t /\ Particular(U, n)
  BY <1>1 DEF stmt_t, Shape!stmt_t, Particular
<1>5. SubsIn(U, n, Shape(U, Names)!SubTypes(n)) /\ Named(U, n)
  BY <1>2, <1>3 DEF SubsIn, Named
<1>6. BelowIn(U, n)
  BY <1>1, <1>2, RangeOf DEF BelowIn
<1> QED BY <1>3, <1>5, <1>6, SoundNode DEF n

LEMMA SoundReturn ==
  ASSUME NEW U, NEW e, IsExpr(U, e)
  PROVE  Sound(U, mk_return_stmt(e))
<1> DEFINE n == mk_return_stmt(e)
           subs == <<e>>
<1>1. /\ n.type = "AST_RETURN" /\ n.return_val = e
      /\ e \in U /\ e.type \in expr_t /\ e # Shape(U, Names)!Null
  BY DEF mk_return_stmt, IsExpr, expr_t, Shape!expr_t, Shape!Null
<1> HIDE DEF n
<1>2. /\ Below(n) = <<e>> /\ Shape(U, Names)!Subs(n) = subs /\ Shape(U, Names)!Idents(n) = {}
      /\ Shape(U, Names)!SubTypes(n) = expr_t
  BY <1>1, Types DEF Below, Shape!Subs, Shape!Idents, Shape!SubTypes
<1>3. n.type \in stmt_t /\ Particular(U, n)
  BY <1>1 DEF stmt_t, Shape!stmt_t, Particular
<1>4. subs \in Seq(U) /\ \A k \in DOMAIN subs : subs[k].type \in expr_t
  BY <1>1
<1>5. SubsIn(U, n, expr_t) /\ Named(U, n)
  BY <1>2, <1>4 DEF SubsIn, Named
<1>6. BelowIn(U, n)
  BY <1>1, <1>2, RangeOf DEF BelowIn
<1> QED BY <1>2, <1>3, <1>5, <1>6, SoundNode DEF n

IsBlockOf(U, v) == v \in U /\ v.type = "AST_BLOCK"

LEMMA SoundIf ==
  ASSUME NEW U, NEW c, IsExpr(U, c), NEW t, IsBlockOf(U, t), NEW e, IsBlockOf(U, e) \/ e = Null
  PROVE  Sound(U, mk_if_stmt(c, t, e))
<1> DEFINE n == mk_if_stmt(c, t, e)
           subs == IF e = Null THEN <<c, t>> ELSE <<c, t, e>>
           T == expr_t \cup {"AST_BLOCK"}
<1>1. /\ n.type = "AST_IF" /\ n.cond = c /\ n.then_branch = t /\ n.else_branch = e
      /\ c \in U /\ c.type \in expr_t /\ t \in U /\ t.type = "AST_BLOCK"
      /\ (e \in U /\ e.type = "AST_BLOCK") \/ e = Null
  BY DEF mk_if_stmt, IsExpr, IsBlockOf
<1> HIDE DEF n
<1>2. /\ Below(n) = <<c, t, e>> /\ Shape(U, Names)!Subs(n) = subs /\ Shape(U, Names)!Idents(n) = {}
      /\ Shape(U, Names)!SubTypes(n) = T
  BY <1>1, Types DEF Below, Shape!Subs, Shape!Idents, Shape!SubTypes
<1>3. n.type \in stmt_t /\ Particular(U, n)
  BY <1>1 DEF stmt_t, Shape!stmt_t, Particular
<1>4. subs \in Seq(U) /\ \A k \in DOMAIN subs : subs[k].type \in T
  <2> HIDE DEF T
  <2>1. c.type \in T /\ t.type \in T /\ (e # Null => e.type \in T)
    BY <1>1 DEF T
  <2>2. CASE e = Null
    <3>1. <<c, t>> \in Seq(U) /\ \A k \in DOMAIN <<c, t>> : <<c, t>>[k].type \in T
      BY <1>1, <2>1
    <3> QED BY <2>2, <3>1
  <2>3. CASE e # Null
    <3>1. <<c, t, e>> \in Seq(U) /\ \A k \in DOMAIN <<c, t, e>> : <<c, t, e>>[k].type \in T
      BY <1>1, <2>1, <2>3
    <3> QED BY <2>3, <3>1
  <2> QED BY <2>2, <2>3
<1> HIDE DEF subs, T
<1>5. SubsIn(U, n, T) /\ Named(U, n)
  BY <1>2, <1>4 DEF SubsIn, Named
<1>6. BelowIn(U, n)
  BY <1>1, <1>2, RangeOf DEF BelowIn
<1> QED BY <1>2, <1>3, <1>5, <1>6, SoundNode DEF n

LEMMA SoundBlock ==
  ASSUME NEW U, NEW nodes \in Seq(U), \A k \in DOMAIN nodes : nodes[k].type \in expr_t \cup stmt_t
  PROVE  Sound(U, mk_block_stmt(nodes))
<1> DEFINE n == mk_block_stmt(nodes)
<1>1. n.type = "AST_BLOCK" /\ n.nodes = nodes
  BY DEF mk_block_stmt
<1> HIDE DEF n
<1>2. /\ Below(n) = nodes /\ Shape(U, Names)!Subs(n) = nodes /\ Shape(U, Names)!Idents(n) = {}
      /\ Shape(U, Names)!SubTypes(n) = expr_t \cup stmt_t
  BY <1>1, Types DEF Below, Shape!Subs, Shape!Idents, Shape!SubTypes
<1>3. n.type \in stmt_t /\ Particular(U, n)
  BY <1>1 DEF stmt_t, Shape!stmt_t, Particular
<1>5. SubsIn(U, n, expr_t \cup stmt_t) /\ Named(U, n)
  BY <1>2 DEF SubsIn, Named
<1>6. BelowIn(U, n)
  BY <1>2, RangeIn DEF BelowIn
<1> QED BY <1>2, <1>3, <1>5, <1>6, SoundNode DEF n

LEMMA SoundVarDecl ==
  ASSUME NEW U, NEW ident, IsIdent(Names, ident), NEW type, NEW e, IsExpr(U, e) \/ e = Null
  PROVE  Sound(U, mk_var_decl(ident, type, e))
<1> DEFINE n == mk_var_decl(ident, type, e)
           subs == IF e = Null THEN <<>> ELSE <<e>>
<1>1. /\ n.type = "AST_VAR_DECL" /\ n.ident = ident /\ n.assign = e
      /\ (e \in U /\ e.type \in expr_t) \/ e = Null
  BY DEF mk_var_decl, IsExpr
<1> HIDE DEF n
<1>2. /\ Below(n) = <<e>> /\ Shape(U, Names)!Subs(n) = subs /\ Shape(U, Names)!Idents(n) = {ident}
      /\ Shape(U, Names)!SubTypes(n) = expr_t
  BY <1>1, Types DEF Below, Shape!Subs, Shape!Idents, Shape!SubTypes
<1>3. n.type \in stmt_t /\ Particular(U, n)
  BY <1>1 DEF stmt_t, Shape!stmt_t, Particular
<1>4. subs \in Seq(U) /\ \A k \in DOMAIN subs : subs[k].type \in expr_t
  BY <1>1
<1>5. SubsIn(U, n, expr_t) /\ Named(U, n)
  BY <1>2, <1>4 DEF SubsIn, Named
<1>6. BelowIn(U, n)
  BY <1>1, <1>2, RangeOf DEF BelowIn
<1> QED BY <1>2, <1>3, <1>5, <1>6, SoundNode DEF n

LEMMA SoundFuncDecl ==
  ASSUME NEW U, Universe(U, Names), NEW ident, IsIdent(Names, ident), NEW ret_t,
         NEW params, IsSeq(params), \A k \in 1..Len(params) : IsIdent(Names, params[k].ident),
         NEW block, IsBlockOf(U, block)
  PROVE  Sound(U, mk_func_decl(mk_func_t(ret_t, params, ident), block))
<1> DEFINE n == mk_func_decl(mk_func_t(ret_t, params, ident), block)
           nodes == block.nodes
<1>1. /\ n.type = "AST_FUNC_DECL" /\ n.block = block
      /\ n.func_t.ident = ident /\ n.func_t.params = params
      /\ block \in U /\ block.type = "AST_BLOCK"
  BY DEF mk_func_decl, mk_func_t, IsBlockOf
<1> HIDE DEF n
<1>2. PICK S : params \in Seq(S)
  BY DEF IsSeq
<1>3. DOMAIN params = 1..Len(params) /\ Len(params) \in Nat
  BY <1>2
<1>4. /\ Below(n) = <<block>> /\ Shape(U, Names)!Subs(n) = nodes
      /\ Shape(U, Names)!Idents(n) = {ident} \cup {params[k].ident : k \in DOMAIN params}
      /\ Shape(U, Names)!SubTypes(n) = expr_t \cup stmt_t
  BY <1>1, Types DEF Below, Shape!Subs, Shape!Idents, Shape!SubTypes
<1>5. n.type = "AST_FUNC_DECL" /\ Particular(U, n)
  BY <1>1, <1>3 DEF Particular
<1>6. Shape(U, Names)!WellFormed(block)
  BY <1>1 DEF Universe
<1>7. Shape(U, Names)!Subs(block) = nodes /\ Shape(U, Names)!SubTypes(block) = expr_t \cup stmt_t
  BY <1>1, Types DEF Shape!Subs, Shape!SubTypes
<1>8. nodes \in Seq(U) /\ \A k \in DOMAIN nodes : nodes[k].type \in expr_t \cup stmt_t
  BY <1>6, <1>7 DEF Shape!WellFormed
<1>9. SubsIn(U, n, expr_t \cup stmt_t)
  BY <1>4, <1>8 DEF SubsIn
<1>10. Named(U, n)
  BY <1>3, <1>4 DEF Named
<1>11. BelowIn(U, n)
  BY <1>1, <1>4, RangeOf DEF BelowIn
<1> QED BY <1>4, <1>5, <1>9, <1>10, <1>11, SoundNode DEF n

-----------------------------------------------------------------------------
(* What the functions make *)

LEMMA MadeExpr ==
  ASSUME NEW U, Universe(U, Names), NEW n, Sound(U, n), n.type \in expr_t
  PROVE  Made(U, "expr", n)
BY NodeMade DEF Fits

LEMMA InHandNone == ASSUME NEW U, Universe(U, Names), NEW fn PROVE InHand(U, fn, <<>>)
BY DEF InHand, Holds, Frame

LEMMA InHandOne ==
  ASSUME NEW U, NEW fn, NEW a, Made(U, Wants(fn, 1), a)
  PROVE  InHand(U, fn, <<a>>)
<1>1. PICK V : U \subseteq V /\ Universe(V, Names) /\ Fits(V, Names, Wants(fn, 1), a)
  BY DEF Made
<1>2. Frame(fn, <<a>>).fn = fn /\ Frame(fn, <<a>>).vals = <<a>>
  BY DEF Frame
<1>3. \A i \in 1..Len(<<a>>) : i = 1 /\ <<a>>[i] = a
  OBVIOUS
<1>4. Holds(V, Names, Frame(fn, <<a>>))
  BY <1>1, <1>2, <1>3 DEF Holds
<1> QED BY <1>1, <1>4 DEF InHand

LEMMA InHandTwo ==
  ASSUME NEW U, Universe(U, Names), NEW fn, NEW a, NEW b,
         Fits(U, Names, Wants(fn, 1), a), Fits(U, Names, Wants(fn, 2), b)
  PROVE  InHand(U, fn, <<a, b>>)
<1>1. Frame(fn, <<a, b>>).fn = fn /\ Frame(fn, <<a, b>>).vals = <<a, b>>
  BY DEF Frame
<1>2. \A i \in 1..Len(<<a, b>>) : (i = 1 /\ <<a, b>>[i] = a) \/ (i = 2 /\ <<a, b>>[i] = b)
  OBVIOUS
<1>3. Holds(U, Names, Frame(fn, <<a, b>>))
  BY <1>1, <1>2 DEF Holds
<1> QED BY <1>3 DEF InHand

\* One more in hand.
LEMMA InHandMore ==
  ASSUME IInv, NEW U, Before(U), NEW a, Made(U, Wants(Top.fn, Len(vals) + 1), a)
  PROVE  InHand(U, Top.fn, Append(vals, a))
<1>1. PICK V : /\ U \subseteq V /\ Universe(V, Names)
               /\ Fits(V, Names, Wants(Top.fn, Len(vals) + 1), a)
  BY DEF Made
<1> DEFINE vs == Append(vals, a)
<1>2. IsSeq(vals) /\ Len(vals) \in Nat
  BY Here
<1>3. Len(vs) = Len(vals) + 1 /\ vs[Len(vals) + 1] = a /\ \A i \in 1..Len(vals) : vs[i] = vals[i]
  BY <1>2, Appending
<1>4. Frame(Top.fn, vs).fn = Top.fn /\ Frame(Top.fn, vs).vals = vs
  BY DEF Frame
<1> HIDE DEF vs
<1>5. ASSUME NEW i \in 1..Len(vals) + 1
      PROVE  Fits(V, Names, Wants(Top.fn, i), vs[i])
  <2>1. CASE i = Len(vals) + 1
    BY <1>1, <1>3, <2>1
  <2>2. CASE i # Len(vals) + 1
    <3>1. i \in 1..Len(vals)
      BY <1>2, <2>2
    <3>2. Fits(U, Names, Wants(Top.fn, i), vals[i])
      BY <3>1, HandHolds
    <3>3. Fits(V, Names, Wants(Top.fn, i), vals[i])
      BY <1>1, <3>2, FitsGrows
    <3> QED BY <1>3, <3>1, <3>3
  <2> QED BY <2>1, <2>2
<1>6. Holds(V, Names, Frame(Top.fn, vs))
  BY <1>3, <1>4, <1>5 DEF Holds
<1> QED BY <1>1, <1>6 DEF InHand, vs

\* The tokens' part of a node.
LEMMA TokenValues ==
  ASSUME tokens \in Inputs, NEW k, InTokens(k)
  PROVE  tokens[k + 1].name \in Names /\ tokens[k + 1].num \in Nat
<1>1. tokens \in Seq([type : STRING, name : STRING, num : Nat]) /\ Len(tokens) \in Nat
  BY InputsAssumption, Lists
<1>2. k + 1 \in 1..Len(tokens) /\ DOMAIN tokens = 1..Len(tokens)
  BY <1>1 DEF InTokens
<1>3. tokens[k + 1] \in [type : STRING, name : STRING, num : Nat]
  BY <1>1, <1>2, ElementOfSeq
<1> QED BY <1>2, <1>3 DEF Names

LEMMA IdentNodes ==
  ASSUME tokens \in Inputs, NEW k, InTokens(k)
  PROVE  LET nodes == parse_identifier_expr(k).nodes
         IN nodes # <<>> => /\ nodes = <<mk_identifer_expr(tokens[k + 1].name)>>
                            /\ IsIdent(Names, nodes[1])
<1> DEFINE n == mk_identifer_expr(tokens[k + 1].name)
<1>1. n.type = "AST_IDENTIFIER" /\ n.name = tokens[k + 1].name
  BY DEF mk_identifer_expr
<1>2. IsIdent(Names, n)
  BY <1>1, TokenValues DEF IsIdent
<1>3. parse_identifier_expr(k).nodes = IF Kind(k) = "T_IDENTIFIER" THEN <<n>> ELSE <<>>
  BY DEF parse_identifier_expr, Parsed, Failed
<1> HIDE DEF n
<1>4. <<n>>[1] = n
  OBVIOUS
<1> QED BY <1>2, <1>3, <1>4 DEF n

LEMMA VarTypeNodes ==
  ASSUME NEW k
  PROVE  LET nodes == parse_var_type(k).nodes
         IN nodes # <<>> => \E t : nodes = <<t>>
<1> DEFINE is_adr == Kind(k) = "T_AND"
           at == IF is_adr THEN k + 1 ELSE k
           explicit == Kind(at) \in DOMAIN lit_of
           next == IF explicit THEN at + 1 ELSE at
           lit == IF explicit THEN lit_of[Kind(at)] ELSE "LIT_QWORD"
<1>1. parse_var_type(k) =
        IF is_adr /\ ~explicit THEN Failed(k)
        ELSE IF Kind(next) # "T_LEFT_BRACKET" THEN Parsed(next, <<mk_var_t(is_adr, lit)>>)
        ELSE IF Kind(next + 1) = "T_NUMBER_LIT" /\ Kind(next + 2) = "T_RIGHT_BRACKET"
        THEN Parsed(next + 3, <<mk_array_t(is_adr, lit, tokens[next + 2].num)>>)
        ELSE Failed(k)
  BY DEF parse_var_type
<1>2. \A j, nodes : Parsed(j, nodes).nodes = nodes
  BY DEF Parsed
<1>3. Failed(k) = Parsed(k, <<>>)
  BY DEF Failed
<1> HIDE DEF is_adr, explicit, next, lit
<1> QED BY <1>1, <1>2, <1>3

LEMMA TypedNodes ==
  ASSUME tokens \in Inputs, NEW k, InTokens(k)
  PROVE  LET nodes == TypedIdent(k).nodes
         IN nodes # <<>> => \E t, a : nodes = <<t, a>> /\ IsIdent(Names, a)
<1> DEFINE type == parse_var_type(k)
           ident == parse_identifier_expr(type.idx)
<1>1. InTokens(type.idx)
  BY VarType
<1>2. type.nodes # <<>> => \E t : type.nodes = <<t>>
  BY VarTypeNodes
<1>3. ident.nodes # <<>> => \E a : ident.nodes = <<a>> /\ IsIdent(Names, a)
  <2> SUFFICES ASSUME ident.nodes # <<>> PROVE \E a : ident.nodes = <<a>> /\ IsIdent(Names, a)
    OBVIOUS
  <2> DEFINE a == mk_identifer_expr(tokens[type.idx + 1].name)
  <2>1. ident.nodes = <<a>> /\ IsIdent(Names, ident.nodes[1])
    BY <1>1, IdentNodes
  <2> HIDE DEF a, ident
  <2>2. <<a>>[1] = a
    OBVIOUS
  <2> QED BY <2>1, <2>2
<1>4. TypedIdent(k).nodes = IF type.nodes = <<>> \/ ident.nodes = <<>> THEN <<>>
                            ELSE type.nodes \o ident.nodes
  BY DEF TypedIdent, Failed, Parsed
<1> HIDE DEF type, ident
<1>5. ASSUME NEW t, NEW a PROVE <<t>> \o <<a>> = <<t, a>>
  <2>1. <<t>> \o <<a>> = Append(<<t>>, a)
    OBVIOUS
  <2>2. <<t, a>> = Append(<<t>>, a)
    OBVIOUS
  <2> QED BY <2>1, <2>2, Zenon
<1> QED BY <1>2, <1>3, <1>4, <1>5

-----------------------------------------------------------------------------
(* The functions and the tree *)

LEMMA FirstOperandTree == ASSUME IInv, NEW U, Before(U), FirstOperand PROVE TreeInv'
<1>1. PICK fn \in DOMAIN operand : In(fn, 0) /\ Call(idx, <<>>, operand[fn])
  BY DEF FirstOperand
<1>2. Gives(operand[fn]) = "expr" /\ Wants(fn, 1) = "expr"
  BY DEF operand, Gives, Wants, binary_op
<1>3. Goes(Gives(operand[fn]), Wants(fn, Len(<<>>) + 1))
  BY <1>2 DEF Goes
<1>4. InHand(U, fn, <<>>)
  BY InHandNone DEF Before
<1> QED BY <1>1, <1>3, <1>4, Singles, CallTree DEF In

LEMMA ParseLevelTree == ASSUME IInv, NEW U, Before(U), ParseLevel PROVE TreeInv'
<1>1. PICK fn \in DOMAIN binary_op :
        \/ In(fn, 1) /\ tok \in DOMAIN binary_op[fn]
           /\ Call(idx + 1, <<vals[1], binary_op[fn][tok]>>, operand[fn])
        \/ In(fn, 1) /\ Return(idx, vals[1])
        \/ In(fn, 3) /\ Keep(idx, <<mk_binary_expr(vals[2], vals[1], vals[3])>>)
  BY DEF ParseLevel
<1>2. /\ Gives(operand[fn]) = "expr" /\ Gives(fn) = "expr" /\ fn # "parse_program"
      /\ Wants(fn, 1) = "expr" /\ Wants(fn, 2) = "binary" /\ Wants(fn, 3) = "expr"
  BY DEF operand, Gives, Wants, binary_op
<1>3. Top.fn = fn /\ Universe(U, Names)
  BY <1>1 DEF In, Before
<1>4. \A i \in 1..Len(vals) : Fits(U, Names, Wants(fn, i), vals[i])
  BY <1>3, HandHolds
<1>5. CASE In(fn, 1) /\ tok \in DOMAIN binary_op[fn]
           /\ Call(idx + 1, <<vals[1], binary_op[fn][tok]>>, operand[fn])
  <2>1. Fits(U, Names, "expr", vals[1])
    BY <1>2, <1>4, <1>5 DEF In
  <2>2. binary_op[fn][tok] \in binary_expr_t
    BY <1>5 DEF binary_op, binary_expr_t, arithmetic_t, comparison_t
  <2>3. Fits(U, Names, "binary", binary_op[fn][tok])
    BY <2>2 DEF Fits
  <2> DEFINE vs == <<vals[1], binary_op[fn][tok]>>
  <2>4. InHand(U, fn, vs)
    BY <1>2, <1>3, <2>1, <2>3, InHandTwo
  <2>5. IsSeq(vs) /\ Len(vs) + 1 = 3
    BY Singles
  <2>6. Goes(Gives(operand[fn]), Wants(fn, 3))
    BY <1>2 DEF Goes
  <2> HIDE DEF vs
  <2>7. Call(idx + 1, vs, operand[fn])
    BY <1>5 DEF vs
  <2> QED BY <1>3, <2>4, <2>5, <2>6, <2>7, CallTree
<1>6. CASE In(fn, 1) /\ Return(idx, vals[1])
  <2>1. Fits(U, Names, "expr", vals[1])
    BY <1>2, <1>4, <1>6 DEF In
  <2> QED BY <1>2, <1>3, <1>6, <2>1, FitsMade, ReturnTree
<1>7. CASE In(fn, 3) /\ Keep(idx, <<mk_binary_expr(vals[2], vals[1], vals[3])>>)
  <2>1. /\ Fits(U, Names, "expr", vals[1]) /\ Fits(U, Names, "binary", vals[2])
        /\ Fits(U, Names, "expr", vals[3])
    BY <1>2, <1>4, <1>7 DEF In
  <2>2. IsExpr(U, vals[1]) /\ vals[2] \in binary_expr_t /\ IsExpr(U, vals[3])
    BY <2>1 DEF Fits, IsExpr
  <2> DEFINE n == mk_binary_expr(vals[2], vals[1], vals[3])
  <2>3. Sound(U, n)
    BY <2>2, SoundBinary
  <2>4. n.type \in expr_t
    BY DEF mk_binary_expr, expr_t, Shape!expr_t
  <2> HIDE DEF n
  <2>5. InHand(U, fn, <<n>>)
    BY <1>2, <1>3, <2>3, <2>4, MadeExpr, InHandOne
  <2> QED BY <1>3, <1>7, <2>5, KeepTree DEF n
<1> QED BY <1>1, <1>5, <1>6, <1>7

\* Returning an expression, a new one or one in hand.
LEMMA ReturnExpr ==
  ASSUME IInv, NEW U, Before(U), Gives(Top.fn) = "expr", Top.fn # "parse_program",
         NEW n, n.type \in expr_t, n \in U \/ Sound(U, n), NEW k, Return(k, n)
  PROVE  TreeInv'
<1>1. Universe(U, Names)
  BY DEF Before
<1>2. CASE n \in U
  <2>1. Fits(U, Names, "expr", n)
    BY <1>2 DEF Fits
  <2> QED BY <1>1, <2>1, FitsMade, ReturnTree
<1>3. CASE Sound(U, n)
  BY <1>1, <1>3, MadeExpr, ReturnTree
<1> QED BY <1>2, <1>3

\* Going on with what is in hand, and returning it.
LEMMA CallOnTree ==
  ASSUME IInv, NEW U, Before(U), NEW k, NEW fn, Goes(Gives(fn), Wants(Top.fn, Len(vals) + 1)),
         Call(k, vals, fn)
  PROVE  TreeInv'
BY HandHolds, Here, CallTree

LEMMA ReturnHeld ==
  ASSUME IInv, NEW U, Before(U), Top.fn # "parse_program", NEW i \in 1..Len(vals),
         Goes(Wants(Top.fn, i), Gives(Top.fn)), NEW k, Return(k, vals[i])
  PROVE  TreeInv'
<1>1. Fits(U, Names, Gives(Top.fn), vals[i])
  BY HandHolds, FitsGoes
<1> QED BY <1>1, FitsMade, ReturnTree DEF Before

\* A call with nothing in hand.
LEMMA CallFirst ==
  ASSUME IInv, NEW U, Before(U), NEW k, NEW fn, Goes(Gives(fn), Wants(Top.fn, 1)), Call(k, <<>>, fn)
  PROVE  TreeInv'
<1>1. InHand(U, Top.fn, <<>>)
  BY InHandNone DEF Before
<1>2. IsSeq(<<>>) /\ Len(<<>>) + 1 = 1
  BY Singles
<1> QED BY <1>1, <1>2, CallTree

\* An expression in hand.
LEMMA HeldExpr ==
  ASSUME IInv, NEW U, Before(U), NEW i \in 1..Len(vals), Wants(Top.fn, i) = "expr"
  PROVE  IsExpr(U, vals[i])
<1>1. Fits(U, Names, "expr", vals[i])
  BY HandHolds
<1> QED BY <1>1 DEF Fits, IsExpr

LEMMA ParseAssignExprTree == ASSUME IInv, NEW U, Before(U), ParseAssignExpr PROVE TreeInv'
<1> DEFINE fn == "parse_assign_expr"
<1>1. Gives(fn) = "expr" /\ Wants(fn, 1) = "expr" /\ Wants(fn, 2) = "expr"
  BY DEF Gives, Wants, binary_op
<1>2. CASE In(fn, 1) /\ Call(idx + 1, vals, fn)
  BY <1>1, <1>2, CallOnTree DEF In, Goes
<1>3. CASE In(fn, 1) /\ Return(idx, vals[1])
  BY <1>1, <1>3, ReturnHeld DEF In, Goes
<1>4. CASE In(fn, 2) /\ Return(idx, mk_assign_expr(vals[1], vals[2]))
  <2>1. IsExpr(U, vals[1]) /\ IsExpr(U, vals[2])
    BY <1>1, <1>4, HeldExpr DEF In
  <2>2. mk_assign_expr(vals[1], vals[2]).type \in expr_t
    BY DEF mk_assign_expr, expr_t, Shape!expr_t
  <2> QED BY <1>1, <1>4, <2>1, <2>2, SoundAssign, ReturnExpr DEF In
<1>5. CASE compile_error
  BY <1>5, ErrorTree
<1> QED BY <1>2, <1>3, <1>4, <1>5 DEF ParseAssignExpr

LEMMA ParseUnaryExprTree == ASSUME IInv, NEW U, Before(U), ParseUnaryExpr PROVE TreeInv'
<1> DEFINE fn == "parse_unary_expr"
<1>1. /\ Gives(fn) = "expr" /\ Gives("parse_postfix") = "expr"
      /\ Wants(fn, 1) = "unary" /\ Wants(fn, 2) = "expr"
  BY DEF Gives, Wants, binary_op
<1>2. CASE In(fn, 0) /\ tok \in DOMAIN unary_op /\ Call(idx + 1, <<unary_op[tok]>>, fn)
  <2>1. unary_op[tok] \in unary_expr_t
    BY <1>2 DEF unary_op, unary_expr_t
  <2>2. Made(U, "unary", unary_op[tok])
    BY <2>1, FitsMade DEF Fits, Before
  <2> DEFINE vs == <<unary_op[tok]>>
  <2>3. InHand(U, fn, vs)
    BY <1>1, <2>2, InHandOne
  <2>4. IsSeq(vs) /\ Len(vs) + 1 = 2
    BY Singles
  <2>5. Goes(Gives(fn), Wants(fn, 2))
    BY <1>1 DEF Goes
  <2> HIDE DEF vs
  <2>6. Call(idx + 1, vs, fn)
    BY <1>2 DEF vs
  <2> QED BY <1>2, <2>3, <2>4, <2>5, <2>6, CallTree DEF In
<1>3. CASE In(fn, 0) /\ Become("parse_postfix")
  BY <1>1, <1>3, BecomeTree DEF In
<1>4. CASE In(fn, 2) /\ Return(idx, mk_unary_expr(vals[1], vals[2]))
  <2>1. Fits(U, Names, "unary", vals[1])
    BY <1>1, <1>4, HandHolds DEF In
  <2>2. vals[1] \in unary_expr_t /\ IsExpr(U, vals[2])
    BY <1>1, <1>4, <2>1, HeldExpr DEF In, Fits
  <2>3. mk_unary_expr(vals[1], vals[2]).type \in expr_t
    BY DEF mk_unary_expr, expr_t, Shape!expr_t
  <2> QED BY <1>1, <1>4, <2>2, <2>3, SoundUnary, ReturnExpr DEF In
<1> QED BY <1>2, <1>3, <1>4 DEF ParseUnaryExpr

LEMMA ParsePostfixTree == ASSUME IInv, NEW U, Before(U), ParsePostfix PROVE TreeInv'
<1> DEFINE fn == "parse_postfix"
<1>1. /\ Gives(fn) = "expr" /\ Gives(parse_binary_expr) = "expr"
      /\ Wants(fn, 1) = "expr" /\ Wants(fn, 2) = "expr"
  BY DEF Gives, Wants, binary_op, parse_binary_expr
<1>2. CASE In(fn, 1) /\ Call(idx + 1, vals, parse_binary_expr)
  BY <1>1, <1>2, CallOnTree DEF In, Goes
<1>3. CASE In(fn, 1) /\ Return(idx, vals[1])
  BY <1>1, <1>3, ReturnHeld DEF In, Goes
<1>4. CASE In(fn, 2) /\ Keep(idx + 1, <<mk_index_expr(vals[1], vals[2])>>)
  <2> DEFINE n == mk_index_expr(vals[1], vals[2])
  <2>1. IsExpr(U, vals[1]) /\ IsExpr(U, vals[2])
    BY <1>1, <1>4, HeldExpr DEF In
  <2>2. n.type \in expr_t
    BY DEF mk_index_expr, expr_t, Shape!expr_t
  <2>3. Sound(U, n)
    BY <2>1, SoundIndex
  <2> HIDE DEF n
  <2>4. InHand(U, fn, <<n>>)
    BY <1>1, <2>2, <2>3, MadeExpr, InHandOne DEF Before
  <2> QED BY <1>4, <2>4, KeepTree DEF n, In
<1>5. CASE compile_error
  BY <1>5, ErrorTree
<1> QED BY <1>2, <1>3, <1>4, <1>5 DEF ParsePostfix

LEMMA ParsePrimaryTree == ASSUME IInv, NEW U, Before(U), ParsePrimary PROVE TreeInv'
<1> DEFINE fn == "parse_primary"
<1>1. /\ Gives(fn) = "expr" /\ Gives("parse_cast_expr") = "expr" /\ Gives("parse_call_expr") = "expr"
      /\ Gives("parse_assign_expr") = "expr" /\ Wants(fn, 1) = "expr"
  BY DEF Gives, Wants, binary_op
<1>2. tokens \in Inputs /\ InTokens(idx)
  BY Here
<1>3. CASE In(fn, 0) /\ (Become("parse_cast_expr") \/ Become("parse_call_expr"))
  BY <1>1, <1>3, BecomeTree DEF In
<1>4. CASE /\ In(fn, 0) /\ tok = "T_IDENTIFIER"
           /\ Return(idx + 1, parse_identifier_expr(idx).nodes[1])
  <2> DEFINE n == mk_identifer_expr(tokens[idx + 1].name)
  <2>1. parse_identifier_expr(idx).nodes = <<n>>
    BY <1>4 DEF parse_identifier_expr, Parsed, tok
  <2>2. Sound(U, n)
    BY <1>2, TokenValues, SoundIdent
  <2>3. n.type \in expr_t
    BY DEF mk_identifer_expr, expr_t, Shape!expr_t
  <2> HIDE DEF n
  <2>4. <<n>>[1] = n
    OBVIOUS
  <2>5. Return(idx + 1, n)
    BY <1>4, <2>1, <2>4
  <2> QED BY <1>1, <1>4, <2>2, <2>3, <2>5, ReturnExpr DEF In
<1>5. CASE In(fn, 0) /\ Return(idx + 1, mk_literal_expr(tokens[idx + 1].num))
  <2> DEFINE n == mk_literal_expr(tokens[idx + 1].num)
  <2>1. Sound(U, n)
    BY <1>2, TokenValues, SoundLiteral
  <2>2. n.type \in expr_t
    BY DEF mk_literal_expr, expr_t, Shape!expr_t
  <2> HIDE DEF n
  <2> QED BY <1>1, <1>5, <2>1, <2>2, ReturnExpr DEF In, n
<1>6. CASE In(fn, 0) /\ Return(idx + 1, mk_string_literal)
  <2>1. Sound(U, mk_string_literal)
    BY SoundLiteral DEF mk_string_literal, INT_MIN
  <2>2. mk_string_literal.type \in expr_t
    BY DEF mk_string_literal, mk_literal_expr, expr_t, Shape!expr_t
  <2> QED BY <1>1, <1>6, <2>1, <2>2, ReturnExpr DEF In
<1>7. CASE In(fn, 0) /\ Call(idx + 1, <<>>, "parse_assign_expr")
  BY <1>1, <1>7, CallFirst DEF In, Goes
<1>8. CASE In(fn, 1) /\ Return(idx + 1, vals[1])
  BY <1>1, <1>8, ReturnHeld DEF In, Goes
<1>9. CASE compile_error
  BY <1>9, ErrorTree
<1> QED BY <1>3, <1>4, <1>5, <1>6, <1>7, <1>8, <1>9 DEF ParsePrimary

LEMMA ParseCastExprTree == ASSUME IInv, NEW U, Before(U), ParseCastExpr PROVE TreeInv'
<1> DEFINE fn == "parse_cast_expr"
           type == parse_var_type(idx + 1)
<1>1. /\ Gives(fn) = "expr" /\ Gives("parse_primary") = "expr"
      /\ Wants(fn, 1) = "type" /\ Wants(fn, 2) = "expr"
  BY DEF Gives, Wants, binary_op
<1>2. CASE In(fn, 0) /\ type.nodes # <<>> /\ Call(type.idx + 1, type.nodes, "parse_primary")
  <2>1. PICK t : type.nodes = <<t>>
    BY <1>2, VarTypeNodes
  <2> HIDE DEF type
  <2>2. Made(U, "type", t)
    BY FitsMade DEF Fits, Before
  <2> DEFINE vs == <<t>>
  <2>3. InHand(U, fn, vs)
    BY <1>1, <2>2, InHandOne
  <2>4. IsSeq(vs) /\ Len(vs) + 1 = 2
    BY Singles
  <2>5. Goes(Gives("parse_primary"), Wants(fn, 2))
    BY <1>1 DEF Goes
  <2> HIDE DEF vs
  <2>6. Call(type.idx + 1, vs, "parse_primary")
    BY <1>2, <2>1 DEF vs
  <2> QED BY <1>2, <2>3, <2>4, <2>5, <2>6, CallTree DEF In
<1>3. CASE In(fn, 2) /\ Return(idx, mk_cast_expr(vals[1], vals[2]))
  <2>1. IsExpr(U, vals[2])
    BY <1>1, <1>3, HeldExpr DEF In
  <2>2. mk_cast_expr(vals[1], vals[2]).type \in expr_t
    BY DEF mk_cast_expr, expr_t, Shape!expr_t
  <2> QED BY <1>1, <1>3, <2>1, <2>2, SoundCast, ReturnExpr DEF In
<1>4. CASE compile_error \/ assert_failed
  BY <1>4, ErrorTree
<1> QED BY <1>2, <1>3, <1>4 DEF ParseCastExpr

LEMMA SeqInto ==
  ASSUME NEW s, IsSeq(s), NEW S, \A k \in 1..Len(s) : s[k] \in S
  PROVE  s \in Seq(S) /\ DOMAIN s = 1..Len(s)
<1>1. PICK R : s \in Seq(R)
  BY DEF IsSeq
<1>2. Len(s) \in Nat /\ s \in [1..Len(s) -> R] /\ DOMAIN s = 1..Len(s)
  BY <1>1, LenProperties
<1>3. s \in [1..Len(s) -> S]
  BY <1>2
<1> QED BY <1>2, <1>3, SeqDef

\* An identifier and the arguments after it.
LEMMA CallSound ==
  ASSUME NEW U, NEW vs, IsSeq(vs), Len(vs) > 0,
         \A i \in 1..Len(vs) : Fits(U, Names, Wants("parse_call_expr", i), vs[i])
  PROVE  Sound(U, CallOn(vs)) /\ CallOn(vs).type \in expr_t
<1> DEFINE args == Tail(vs)
<1>1. PICK S : vs \in Seq(S)
  BY DEF IsSeq
<1>2. Len(vs) \in Nat /\ 1 \in 1..Len(vs)
  BY <1>1
<1>3. args \in Seq(S) /\ Len(args) = Len(vs) - 1 /\ \A i \in 1..Len(args) : args[i] = vs[i + 1]
  BY <1>1
<1>4. IsSeq(args)
  BY <1>3 DEF IsSeq
<1>5. IsIdent(Names, vs[1])
  <2>1. Wants("parse_call_expr", 1) = "ident"
    BY DEF Wants, binary_op
  <2> QED BY <1>2, <2>1 DEF Fits
<1> HIDE DEF args
<1>6. ASSUME NEW i \in 1..Len(args) PROVE IsExpr(U, args[i])
  <2>1. i + 1 \in 1..Len(vs) /\ i + 1 # 1
    BY <1>2, <1>3
  <2>2. PICK j \in 1..Len(vs) : j = i + 1 /\ j # 1
    BY <2>1
  <2>3. Wants("parse_call_expr", j) = "expr"
    BY <2>2 DEF Wants, binary_op
  <2>4. Fits(U, Names, "expr", vs[j])
    BY <2>3
  <2> QED BY <1>3, <2>2, <2>4 DEF Fits, IsExpr
<1>7. args \in Seq(U) /\ DOMAIN args = 1..Len(args)
  BY <1>4, <1>6, SeqInto DEF IsExpr
<1>8. Sound(U, mk_call_expr(vs[1], args))
  BY <1>5, <1>6, <1>7, SoundCall DEF IsExpr
<1>9. mk_call_expr(vs[1], args).type \in expr_t
  BY DEF mk_call_expr, expr_t, Shape!expr_t
<1> QED BY <1>8, <1>9 DEF CallOn, args

LEMMA NextArgTree ==
  ASSUME IInv, NEW U, Before(U), Top.fn = "parse_call_expr", NEW vs, IsSeq(vs), Len(vs) > 0,
         \A i \in 1..Len(vs) : Fits(U, Names, Wants("parse_call_expr", i), vs[i]),
         NEW k, NextArg(k, vs)
  PROVE  TreeInv'
<1> DEFINE fn == "parse_call_expr"
<1>1. /\ Gives(fn) = "expr" /\ Gives(parse_binary_expr) = "expr"
      /\ \A i : i # 1 => Wants(fn, i) = "expr"
  BY DEF Gives, Wants, binary_op, parse_binary_expr
<1>2. CASE Return(k + 1, CallOn(vs))
  <2>1. Sound(U, CallOn(vs)) /\ CallOn(vs).type \in expr_t
    BY CallSound
  <2> QED BY <1>1, <1>2, <2>1, ReturnExpr
<1>3. CASE Call(k, vs, parse_binary_expr)
  <2>1. Frame(fn, vs).fn = fn /\ Frame(fn, vs).vals = vs
    BY DEF Frame
  <2>2. InHand(U, fn, vs)
    BY <2>1 DEF InHand, Holds, Before
  <2>3. Len(vs) + 1 # 1
    BY LenNat
  <2>4. Goes(Gives(parse_binary_expr), Wants(fn, Len(vs) + 1))
    BY <1>1, <2>3 DEF Goes
  <2> QED BY <1>3, <2>2, <2>4, CallTree
<1> QED BY <1>2, <1>3 DEF NextArg

LEMMA ParseCallExprTree == ASSUME IInv, NEW U, Before(U), ParseCallExpr PROVE TreeInv'
<1> DEFINE fn == "parse_call_expr"
           ident == parse_identifier_expr(idx + 1)
<1>1. Wants(fn, 1) = "ident" /\ Gives(fn) = "expr"
  BY DEF Gives, Wants, binary_op
<1>2. CASE In(fn, 0) /\ ident.nodes # <<>> /\ NextArg(ident.idx + 1, ident.nodes)
  <2>1. InTokens(idx + 1) /\ tokens \in Inputs
    <3>1. fn \in DOMAIN FirstToken /\ FirstToken[fn] = "T_CALL"
      BY DEF FirstToken
    <3> QED BY <1>2, <3>1, Here DEF In
  <2>2. PICK a : ident.nodes = <<a>> /\ IsIdent(Names, a)
    <3> DEFINE a == mk_identifer_expr(tokens[idx + 1 + 1].name)
    <3>1. ident.nodes = <<a>> /\ IsIdent(Names, ident.nodes[1])
      BY <1>2, <2>1, IdentNodes
    <3> HIDE DEF a, ident
    <3>2. <<a>>[1] = a
      OBVIOUS
    <3> QED BY <3>1, <3>2
  <2> DEFINE vs == <<a>>
  <2>3. IsSeq(vs) /\ Len(vs) > 0 /\ \A i \in 1..Len(vs) : i = 1 /\ vs[i] = a
    BY Singles
  <2>4. Fits(U, Names, "ident", a)
    BY <2>2 DEF Fits
  <2> HIDE DEF vs, ident
  <2>5. \A i \in 1..Len(vs) : Fits(U, Names, Wants(fn, i), vs[i])
    BY <1>1, <2>3, <2>4
  <2>6. NextArg(ident.idx + 1, vs)
    BY <1>2, <2>2 DEF vs
  <2> QED BY <1>2, <2>3, <2>5, <2>6, NextArgTree DEF In
<1>3. CASE Top.fn = fn /\ Len(vals) > 1 /\ NextArg(idx + 1, vals)
  <2>1. \A i \in 1..Len(vals) : Fits(U, Names, Wants(fn, i), vals[i])
    BY <1>3, HandHolds
  <2>2. IsSeq(vals) /\ Len(vals) > 0
    BY <1>3, Here
  <2> QED BY <1>3, <2>1, <2>2, NextArgTree
<1>4. CASE Top.fn = fn /\ Len(vals) > 1 /\ Return(idx + 1, CallOn(vals))
  <2>1. \A i \in 1..Len(vals) : Fits(U, Names, Wants(fn, i), vals[i])
    BY <1>4, HandHolds
  <2>2. IsSeq(vals) /\ Len(vals) > 0
    BY <1>4, Here
  <2>3. Sound(U, CallOn(vals)) /\ CallOn(vals).type \in expr_t
    BY <2>1, <2>2, CallSound
  <2> QED BY <1>1, <1>4, <2>3, ReturnExpr
<1>5. CASE compile_error
  BY <1>5, ErrorTree
<1> QED BY <1>2, <1>3, <1>4, <1>5 DEF ParseCallExpr

\* Returning a new node that is no expression.
LEMMA ReturnNode ==
  ASSUME IInv, NEW U, Before(U), Top.fn # "parse_program", NEW n, Sound(U, n),
         Fits({n}, Names, Gives(Top.fn), n), NEW k, Return(k, n)
  PROVE  TreeInv'
BY NodeMade, ReturnTree DEF Before

LEMMA BlockTree ==
  ASSUME IInv, NEW U, Before(U), Goes("block", Wants(Top.fn, Len(vals) + 1)),
         NEW k, parse_block_stmt(k, vals)
  PROVE  TreeInv'
<1>1. Gives("parse_block_stmt") = "block"
  BY DEF Gives
<1> QED BY <1>1, CallOnTree, ErrorTree DEF parse_block_stmt

LEMMA ParseBlockStmtTree == ASSUME IInv, NEW U, Before(U), ParseBlockStmt PROVE TreeInv'
<1> DEFINE fn == "parse_block_stmt"
<1>1. /\ Gives(fn) = "block" /\ Gives("parse_var_decl") = "decl" /\ Gives("parse_statment") = "stmt"
      /\ \A i : Wants(fn, i) = "stmt"
  BY DEF Gives, Wants, binary_op
<1>2. Top.fn = fn
  BY DEF ParseBlockStmt
<1>3. CASE Return(idx + 1, mk_block_stmt(vals))
  <2> DEFINE n == mk_block_stmt(vals)
  <2>1. \A i \in 1..Len(vals) : Fits(U, Names, "stmt", vals[i])
    BY <1>1, <1>2, HandHolds
  <2>2. \A i \in 1..Len(vals) : vals[i] \in U /\ vals[i].type \in expr_t \cup stmt_t
    BY <2>1 DEF Fits
  <2>3. vals \in Seq(U) /\ DOMAIN vals = 1..Len(vals)
    BY <2>2, Here, SeqInto
  <2>4. Sound(U, n)
    BY <2>2, <2>3, SoundBlock
  <2>5. Fits({n}, Names, "block", n)
    BY DEF Fits, mk_block_stmt
  <2> HIDE DEF n
  <2> QED BY <1>1, <1>2, <1>3, <2>4, <2>5, ReturnNode DEF n
<1>4. CASE Call(idx, vals, "parse_var_decl") \/ Call(idx, vals, "parse_statment")
  BY <1>1, <1>2, <1>4, CallOnTree DEF Goes
<1>5. CASE Keep(idx + 1, Append(vals, mk_comment_stmt))
  <2>1. Sound(U, mk_comment_stmt)
    BY SoundComment
  <2>2. Fits({mk_comment_stmt}, Names, "stmt", mk_comment_stmt)
    BY DEF Fits, mk_comment_stmt, stmt_t, Shape!stmt_t
  <2>3. Made(U, Wants(Top.fn, Len(vals) + 1), mk_comment_stmt)
    BY <1>1, <1>2, <2>1, <2>2, NodeMade DEF Before
  <2> QED BY <1>5, <2>3, InHandMore, KeepTree
<1> QED BY <1>3, <1>4, <1>5 DEF ParseBlockStmt

LEMMA ParseStatmentTree == ASSUME IInv, NEW U, Before(U), ParseStatment PROVE TreeInv'
<1> DEFINE fn == "parse_statment"
<1>1. /\ Gives(fn) = "stmt" /\ Gives("parse_if_stmt") = "stmt" /\ Gives("parse_return_stmt") = "plain"
      /\ Gives("parse_call_expr") = "expr" /\ Gives("parse_block_stmt") = "block"
      /\ Gives("parse_assign_expr") = "expr" /\ Wants(fn, 1) = "plain"
  BY DEF Gives, Wants, binary_op
<1>2. CASE In(fn, 0) /\ Become("parse_if_stmt")
  BY <1>1, <1>2, BecomeTree DEF In
<1>3. CASE In(fn, 0) /\ (Call(idx, <<>>, "parse_return_stmt") \/ ParseExpr)
  BY <1>1, <1>3, CallFirst DEF In, Goes, ParseExpr
<1>4. CASE In(fn, 1) /\ EndStatment
  <2>1. Fits(U, Names, "plain", vals[1])
    BY <1>1, <1>4, HandHolds DEF In
  <2>2. Fits(U, Names, "stmt", vals[1])
    BY <2>1 DEF Fits, stmt_t, Shape!stmt_t
  <2>3. CASE Return(idx + 1, vals[1])
    BY <1>1, <1>4, <2>2, <2>3, FitsMade, ReturnTree DEF In, Before
  <2> QED BY <1>4, <2>3, ErrorTree DEF EndStatment
<1> QED BY <1>2, <1>3, <1>4 DEF ParseStatment

LEMMA ParseReturnStmtTree == ASSUME IInv, NEW U, Before(U), ParseReturnStmt PROVE TreeInv'
<1> DEFINE fn == "parse_return_stmt"
<1>1. Gives(fn) = "plain" /\ Gives("parse_assign_expr") = "expr" /\ Wants(fn, 1) = "expr"
  BY DEF Gives, Wants, binary_op
<1>2. CASE In(fn, 0) /\ Call(idx + 1, <<>>, "parse_assign_expr")
  BY <1>1, <1>2, CallFirst DEF In, Goes
<1>3. CASE In(fn, 1) /\ Return(idx, mk_return_stmt(vals[1]))
  <2> DEFINE n == mk_return_stmt(vals[1])
  <2>1. IsExpr(U, vals[1])
    BY <1>1, <1>3, HeldExpr DEF In
  <2>2. Sound(U, n)
    BY <2>1, SoundReturn
  <2>3. Fits({n}, Names, "plain", n)
    BY DEF Fits, mk_return_stmt
  <2> HIDE DEF n
  <2> QED BY <1>1, <1>3, <2>2, <2>3, ReturnNode DEF n, In
<1> QED BY <1>2, <1>3 DEF ParseReturnStmt

\* A block in hand.
LEMMA HeldBlock ==
  ASSUME IInv, NEW U, Before(U), NEW i \in 1..Len(vals), Wants(Top.fn, i) = "block"
  PROVE  IsBlockOf(U, vals[i])
<1>1. Fits(U, Names, "block", vals[i])
  BY HandHolds
<1> QED BY <1>1 DEF Fits, IsBlockOf

LEMMA ParseIfStmtTree == ASSUME IInv, NEW U, Before(U), ParseIfStmt PROVE TreeInv'
<1> DEFINE fn == "parse_if_stmt"
<1>1. /\ Gives(fn) = "stmt" /\ Gives(parse_binary_expr) = "expr"
      /\ Wants(fn, 1) = "expr" /\ Wants(fn, 2) = "block" /\ Wants(fn, 3) = "block"
  BY DEF Gives, Wants, binary_op, parse_binary_expr
<1>2. CASE In(fn, 0) /\ Call(idx + 2, <<>>, parse_binary_expr)
  BY <1>1, <1>2, CallFirst DEF In, Goes
<1>3. CASE (In(fn, 1) \/ In(fn, 2)) /\ parse_block_stmt(idx + 1, vals)
  <2>1. \A n \in {1, 2} : n + 1 = 2 \/ n + 1 = 3
    OBVIOUS
  <2>2. Top.fn = fn /\ Len(vals) \in {1, 2}
    BY <1>3 DEF In
  <2>3. Goes("block", Wants(fn, Len(vals) + 1))
    BY <1>1, <2>1, <2>2 DEF Goes
  <2> QED BY <1>3, <2>2, <2>3, BlockTree
<1>4. ASSUME NEW e, Len(vals) \in {2, 3}, Top.fn = fn, IsBlockOf(U, e) \/ e = Null,
             Return(idx, mk_if_stmt(vals[1], vals[2], e))
      PROVE  TreeInv'
  <2> DEFINE n == mk_if_stmt(vals[1], vals[2], e)
  <2>1. IsExpr(U, vals[1]) /\ IsBlockOf(U, vals[2])
    BY <1>1, <1>4, HeldExpr, HeldBlock
  <2>2. Sound(U, n)
    BY <1>4, <2>1, SoundIf
  <2>3. Fits({n}, Names, "stmt", n)
    BY DEF Fits, mk_if_stmt, stmt_t, Shape!stmt_t
  <2> HIDE DEF n
  <2> QED BY <1>1, <1>4, <2>2, <2>3, ReturnNode DEF n
<1>5. CASE In(fn, 2) /\ Return(idx, mk_if_stmt(vals[1], vals[2], Null))
  BY <1>4, <1>5 DEF In
<1>6. CASE In(fn, 3) /\ Return(idx, mk_if_stmt(vals[1], vals[2], vals[3]))
  BY <1>1, <1>4, <1>6, HeldBlock DEF In
<1>7. CASE compile_error
  BY <1>7, ErrorTree
<1> QED BY <1>2, <1>3, <1>5, <1>6, <1>7 DEF ParseIfStmt

\* A type and an identifier, in front of anything.
LEMMA TypedInHand ==
  ASSUME NEW U, Universe(U, Names), NEW fn \in {"parse_var_decl", "parse_func_decl"},
         NEW t, NEW a, IsIdent(Names, a)
  PROVE  InHand(U, fn, <<t, a>>) /\ IsSeq(<<t, a>>) /\ Len(<<t, a>>) + 1 = 3
<1>1. Wants(fn, 1) = "type" /\ Wants(fn, 2) = "ident"
  <2>1. CASE fn = "parse_var_decl"
    BY <2>1 DEF Wants, binary_op
  <2>2. CASE fn = "parse_func_decl"
    BY <2>2 DEF Wants, binary_op
  <2> QED BY <2>1, <2>2
<1>2. Fits(U, Names, "type", t) /\ Fits(U, Names, "ident", a)
  BY DEF Fits
<1>3. InHand(U, fn, <<t, a>>)
  BY <1>1, <1>2, InHandTwo
<1> QED BY <1>3, Singles

\* An identifier in hand.
LEMMA HeldIdent ==
  ASSUME IInv, NEW U, Before(U), NEW i \in 1..Len(vals), Wants(Top.fn, i) = "ident"
  PROVE  IsIdent(Names, vals[i])
<1>1. Fits(U, Names, "ident", vals[i])
  BY HandHolds
<1> QED BY <1>1 DEF Fits

LEMMA ParseVarDeclTree == ASSUME IInv, NEW U, Before(U), ParseVarDecl PROVE TreeInv'
<1> DEFINE fn == "parse_var_decl"
           decl == TypedIdent(idx + 1)
<1>1. /\ Gives(fn) = "decl" /\ Gives(parse_binary_expr) = "expr"
      /\ Wants(fn, 2) = "ident" /\ Wants(fn, 3) = "expr"
  BY DEF Gives, Wants, binary_op, parse_binary_expr
<1>2. ASSUME NEW ident, IsIdent(Names, ident), NEW type, NEW e, IsExpr(U, e) \/ e = Null,
             Top.fn = fn, NEW k, Return(k, mk_var_decl(ident, type, e))
      PROVE  TreeInv'
  <2> DEFINE n == mk_var_decl(ident, type, e)
  <2>1. Sound(U, n)
    BY <1>2, SoundVarDecl
  <2>2. Fits({n}, Names, "decl", n)
    BY DEF Fits, mk_var_decl
  <2> HIDE DEF n
  <2> QED BY <1>1, <1>2, <2>1, <2>2, ReturnNode DEF n
<1>3. ASSUME In(fn, 0), decl.nodes # <<>>
      PROVE  \E t, a : decl.nodes = <<t, a>> /\ IsIdent(Names, a)
  <2>1. fn \in DOMAIN FirstToken /\ FirstToken[fn] = "T_LET"
    BY DEF FirstToken
  <2>2. InTokens(idx + 1) /\ tokens \in Inputs
    BY <1>3, <2>1, Here DEF In
  <2> QED BY <1>3, <2>2, TypedNodes
<1>4. CASE In(fn, 0) /\ decl.nodes # <<>> /\ Call(decl.idx + 1, decl.nodes, parse_binary_expr)
  <2>1. PICK t, a : decl.nodes = <<t, a>> /\ IsIdent(Names, a)
    BY <1>3, <1>4
  <2> DEFINE vs == <<t, a>>
  <2>2. InHand(U, fn, vs) /\ IsSeq(vs) /\ Len(vs) + 1 = 3
    BY <2>1, TypedInHand DEF Before
  <2>3. Goes(Gives(parse_binary_expr), Wants(fn, 3))
    BY <1>1 DEF Goes
  <2> HIDE DEF vs, decl
  <2>4. Call(decl.idx + 1, vs, parse_binary_expr)
    BY <1>4, <2>1 DEF vs
  <2> QED BY <1>4, <2>2, <2>3, <2>4, CallTree DEF In
<1>5. CASE /\ In(fn, 0) /\ decl.nodes # <<>>
           /\ Return(decl.idx + 1, mk_var_decl(decl.nodes[2], decl.nodes[1], Null))
  <2>1. PICK t, a : decl.nodes = <<t, a>> /\ IsIdent(Names, a)
    BY <1>3, <1>5
  <2> HIDE DEF decl
  <2>2. IsIdent(Names, decl.nodes[2])
    BY <2>1
  <2> QED BY <1>2, <1>5, <2>2 DEF In
<1>6. CASE In(fn, 3) /\ Return(idx + 1, mk_var_decl(vals[2], vals[1], vals[3]))
  <2>1. IsIdent(Names, vals[2]) /\ IsExpr(U, vals[3])
    BY <1>1, <1>6, HeldIdent, HeldExpr DEF In
  <2> QED BY <1>2, <1>6, <2>1 DEF In
<1>7. CASE compile_error
  BY <1>7, ErrorTree
<1> QED BY <1>4, <1>5, <1>6, <1>7 DEF ParseVarDecl

LEMMA ParseAllFuncParamsTree == ASSUME IInv, NEW U, Before(U), ParseAllFuncParams PROVE TreeInv'
<1> DEFINE fn == "parse_all_func_params"
           param == TypedIdent(idx)
           p == mk_func_param(param.nodes[2], param.nodes[1])
<1>1. Gives(fn) = "params" /\ \A i : Wants(fn, i) = "param"
  BY DEF Gives, Wants, binary_op
<1>2. Top.fn = fn
  BY DEF ParseAllFuncParams
<1>3. CASE Return(idx + 1, vals)
  <2>1. \A i \in 1..Len(vals) : Fits(U, Names, "param", vals[i])
    BY <1>1, <1>2, HandHolds
  <2>2. Fits(U, Names, "params", vals)
    BY <2>1, Here DEF Fits
  <2> QED BY <1>1, <1>2, <1>3, <2>2, FitsMade, ReturnTree DEF Before
<1>4. CASE param.nodes # <<>> /\ \E k : Keep(k, Append(vals, p))
  <2>1. PICK t, a : param.nodes = <<t, a>> /\ IsIdent(Names, a)
    BY <1>4, TypedNodes, Here
  <2> HIDE DEF param
  <2>2. param.nodes[2] = a
    BY <2>1
  <2>3. IsIdent(Names, p.ident)
    BY <2>1, <2>2 DEF mk_func_param
  <2> HIDE DEF p
  <2>4. Fits(U, Names, "param", p)
    BY <2>3 DEF Fits
  <2>5. Made(U, Wants(Top.fn, Len(vals) + 1), p)
    BY <1>1, <1>2, <2>4, FitsMade DEF Before
  <2> QED BY <1>4, <2>5, InHandMore, KeepTree
<1>5. CASE compile_error
  BY <1>5, ErrorTree
<1> QED BY <1>3, <1>4, <1>5 DEF ParseAllFuncParams

LEMMA ParseFuncDeclTree == ASSUME IInv, NEW U, Before(U), ParseFuncDecl PROVE TreeInv'
<1> DEFINE fn == "parse_func_decl"
           decl == TypedIdent(idx + 1)
<1>1. /\ Gives(fn) = "func" /\ Gives("parse_all_func_params") = "params"
      /\ Wants(fn, 2) = "ident" /\ Wants(fn, 3) = "params" /\ Wants(fn, 4) = "block"
  BY DEF Gives, Wants, binary_op
<1>2. CASE In(fn, 0) /\ decl.nodes # <<>> /\ Call(decl.idx + 1, decl.nodes, "parse_all_func_params")
  <2>1. fn \in DOMAIN FirstToken /\ FirstToken[fn] = "T_FUNC"
    BY DEF FirstToken
  <2>2. InTokens(idx + 1) /\ tokens \in Inputs
    BY <1>2, <2>1, Here DEF In
  <2>3. PICK t, a : decl.nodes = <<t, a>> /\ IsIdent(Names, a)
    BY <1>2, <2>2, TypedNodes
  <2> DEFINE vs == <<t, a>>
  <2>4. InHand(U, fn, vs) /\ IsSeq(vs) /\ Len(vs) + 1 = 3
    BY <2>3, TypedInHand DEF Before
  <2>5. Goes(Gives("parse_all_func_params"), Wants(fn, 3))
    BY <1>1 DEF Goes
  <2> HIDE DEF vs, decl
  <2>6. Call(decl.idx + 1, vs, "parse_all_func_params")
    BY <1>2, <2>3 DEF vs
  <2> QED BY <1>2, <2>4, <2>5, <2>6, CallTree DEF In
<1>3. CASE In(fn, 3) /\ parse_block_stmt(idx, vals)
  BY <1>1, <1>3, BlockTree DEF In, Goes
<1>4. CASE In(fn, 4) /\ Return(idx, mk_func_decl(mk_func_t(vals[1], vals[3], vals[2]), vals[4]))
  <2> DEFINE n == mk_func_decl(mk_func_t(vals[1], vals[3], vals[2]), vals[4])
  <2>1. IsIdent(Names, vals[2]) /\ IsBlockOf(U, vals[4])
    BY <1>1, <1>4, HeldIdent, HeldBlock DEF In
  <2>2. Fits(U, Names, "params", vals[3])
    BY <1>1, <1>4, HandHolds DEF In
  <2>3. IsSeq(vals[3]) /\ \A k \in 1..Len(vals[3]) : IsIdent(Names, vals[3][k].ident)
    BY <2>2 DEF Fits
  <2>4. Sound(U, n)
    BY <2>1, <2>3, SoundFuncDecl DEF Before
  <2>5. Fits({n}, Names, "func", n)
    BY DEF Fits, mk_func_decl
  <2> HIDE DEF n
  <2> QED BY <1>1, <1>4, <2>4, <2>5, ReturnNode DEF n, In
<1>5. CASE compile_error
  BY <1>5, ErrorTree
<1> QED BY <1>2, <1>3, <1>4, <1>5 DEF ParseFuncDecl

LEMMA ParseProgramTree == ASSUME IInv, NEW U, Before(U), ParseProgram PROVE TreeInv'
<1> DEFINE fn == "parse_program"
<1>1. /\ Gives("parse_func_decl") = "func" /\ Gives("parse_var_decl") = "decl"
      /\ \A i : Wants(fn, i) = "top"
  BY DEF Gives, Wants, binary_op
<1>2. Top.fn = fn
  BY DEF ParseProgram
<1>3. CASE Stop("done")
  BY <1>3, SameTree DEF Stop, Before, TreeInv
<1>4. CASE Call(idx, vals, "parse_func_decl") \/ Call(idx, vals, "parse_var_decl")
  BY <1>1, <1>2, <1>4, CallOnTree DEF Goes
<1>5. CASE Keep(idx + 1, Append(vals, mk_comment_stmt))
  <2>1. Sound(U, mk_comment_stmt)
    BY SoundComment
  <2>2. Fits({mk_comment_stmt}, Names, "top", mk_comment_stmt)
    BY DEF Fits, mk_comment_stmt, top_t, Shape!top_t
  <2>3. Made(U, Wants(Top.fn, Len(vals) + 1), mk_comment_stmt)
    BY <1>1, <1>2, <2>1, <2>2, NodeMade DEF Before
  <2> QED BY <1>5, <2>3, InHandMore, KeepTree
<1>6. CASE compile_error
  BY <1>6, ErrorTree
<1> QED BY <1>3, <1>4, <1>5, <1>6 DEF ParseProgram

LEMMA TreeStarts == Init => TreeInv
<1> SUFFICES ASSUME Init PROVE TreeInv
  OBVIOUS
<1>1. Universe({}, Names)
  BY DEF Universe
<1>2. frames = <<Frame("parse_program", <<>>)>>
  BY DEF Init
<1>3. Frame("parse_program", <<>>).vals = <<>>
  BY DEF Frame
<1>4. Holds({}, Names, Frame("parse_program", <<>>))
  BY <1>3 DEF Holds
<1> HIDE DEF Frame
<1>5. Len(frames) = 1 /\ frames[1] = Frame("parse_program", <<>>)
  BY <1>2
<1>6. Stacked({}, Names, frames)
  BY <1>4, <1>5 DEF Stacked
<1> QED BY <1>1, <1>6 DEF TreeInv

LEMMA TreeInductive == IInv /\ TreeInv /\ [Next]_vars => TreeInv'
<1> SUFFICES ASSUME IInv, TreeInv, [Next]_vars PROVE TreeInv'
  OBVIOUS
<1> PICK U : Before(U)
  BY DEF TreeInv, Before
<1>1. CASE ParseExpression
  BY <1>1, FirstOperandTree, ParseLevelTree, ParseAssignExprTree, ParseUnaryExprTree, ParsePostfixTree,
     ParsePrimaryTree, ParseCastExprTree, ParseCallExprTree DEF ParseExpression
<1>2. CASE ParseStmt
  BY <1>2, ParseBlockStmtTree, ParseStatmentTree, ParseReturnStmtTree, ParseIfStmtTree, ParseVarDeclTree
     DEF ParseStmt
<1>3. CASE ParseAllFuncParams \/ ParseFuncDecl \/ ParseProgram
  BY <1>3, ParseAllFuncParamsTree, ParseFuncDeclTree, ParseProgramTree
<1>4. CASE UNCHANGED vars
  BY <1>4, SameTree DEF vars
<1> QED BY <1>1, <1>2, <1>3, <1>4 DEF Next, Parse, Terminated

-----------------------------------------------------------------------------
(* What the generator is given *)

\* The nodes one step below those of L.
Step(L) == (UNION {Range(Below(n)) : n \in L}) \ {Null}

Levels(g) == [d \in 0..Len(tokens) + 2 |-> IF d = 0 THEN Range(program) ELSE Step(g[d - 1])]

LEMMA StepIn ==
  ASSUME NEW U, NEW N, Universe(U, N), NEW L, L \subseteq U
  PROVE  Step(L) \subseteq U
<1> SUFFICES ASSUME NEW x \in Step(L) PROVE x \in U
  OBVIOUS
<1>1. PICK n \in L : x \in Range(Below(n))
  BY DEF Step
<1>2. x # Null
  BY DEF Step
<1> QED BY <1>1, <1>2 DEF Universe

LEMMA LevelExists ==
  ASSUME tokens \in Inputs, NEW U, NEW N, Universe(U, N), Range(program) \subseteq U
  PROVE  \E g : g = Levels(g)
<1>1. PICK n \in Nat : n = Len(tokens) + 2
  BY Lists
<1> DEFINE S == SUBSET U
           F == [k \in 1..n |-> [L \in S |-> Step(L)]]
<1>2. F \in [1..n -> [S -> S]] /\ Range(program) \in S
  BY StepIn
<1>3. \A k \in 1..n : \A L \in S : F[k][L] = Step(L)
  OBVIOUS
<1>0. PICK b : b = Range(program)
  OBVIOUS
<1> HIDE DEF S, F
<1>4. PICK f \in [0..n -> S] : f[0] = b /\ \A k \in 1..n : f[k] = F[k][f[k - 1]]
  BY <1>0, <1>2, Recursion
<1>5. ASSUME NEW d \in 0..n
      PROVE  f[d] = IF d = 0 THEN Range(program) ELSE Step(f[d - 1])
  <2>1. CASE d = 0
    BY <1>0, <1>4, <2>1
  <2>2. CASE d # 0
    <3>1. d \in 1..n /\ d - 1 \in 0..n
      BY <2>2
    <3>2. f[d - 1] \in S
      BY <1>4, <3>1
    <3> QED BY <1>3, <1>4, <2>2, <3>1, <3>2
  <2> QED BY <2>1, <2>2
<1>6. f = Levels(f)
  BY <1>1, <1>4, <1>5 DEF Levels
<1> QED BY <1>6

LEMMA LevelIn ==
  ASSUME tokens \in Inputs, NEW U, NEW N, Universe(U, N), Range(program) \subseteq U
  PROVE  \A d \in 0..Len(tokens) + 2 :
           /\ Level[d] = IF d = 0 THEN Range(program) ELSE Step(Level[d - 1])
           /\ Level[d] \subseteq U
<1>1. PICK n \in Nat : n = Len(tokens) + 2
  BY Lists
<1>2. \E g : g = Levels(g)
  BY LevelExists
<1>3. Level = CHOOSE g : g = Levels(g)
  BY DEF Level, Levels, Step
<1>4. Level = Levels(Level)
  BY <1>2, <1>3
<1>5. \A d \in 0..n : Level[d] = IF d = 0 THEN Range(program) ELSE Step(Level[d - 1])
  BY <1>1, <1>4 DEF Levels
<1> DEFINE Bad == {d \in 0..n : ~(Level[d] \subseteq U)}
<1>6. Bad = {}
  <2> SUFFICES ASSUME Bad # {} PROVE FALSE
    OBVIOUS
  <2>1. Bad \subseteq Nat
    OBVIOUS
  <2>2. PICK d \in Bad : \A e \in Bad : d <= e
    BY <2>1, Least
  <2>3. d \in 0..n /\ ~(Level[d] \subseteq U)
    OBVIOUS
  <2>4. d # 0
    BY <1>5, <2>3
  <2>5. d - 1 \in 0..n /\ ~(d <= d - 1)
    BY <2>3, <2>4
  <2>6. Level[d - 1] \subseteq U
    BY <2>2, <2>5
  <2> QED BY <1>5, <2>3, <2>4, <2>6, StepIn
<1> QED BY <1>1, <1>5, <1>6

\* What is below the nodes within d steps is within d + 1.
LEMMA BelowWithin ==
  ASSUME tokens \in Inputs, NEW U, NEW N, Universe(U, N), Range(program) \subseteq U,
         NEW d \in Nat, d + 1 <= Len(tokens) + 2, NEW n \in Within(d)
  PROVE  Range(Below(n)) \subseteq Within(d + 1) \cup {Null}
<1>1. PICK m \in Nat : m = Len(tokens) + 2 /\ d + 1 <= m
  BY Lists
<1>2. PICK e \in 0..d : n \in Level[e]
  BY DEF Within
<1>3. e + 1 \in 0..m /\ e + 1 # 0 /\ e + 1 - 1 = e /\ e + 1 \in 0..d + 1
  BY <1>1
<1>4. Level[e + 1] = Step(Level[e])
  BY <1>1, <1>3, LevelIn
<1>5. ASSUME NEW x \in Range(Below(n)) PROVE x \in Step(Level[e]) \cup {Null}
  <2>1. x \in UNION {Range(Below(k)) : k \in Level[e]}
    BY <1>2
  <2> QED BY <2>1 DEF Step
<1>6. Level[e + 1] \subseteq Within(d + 1)
  BY <1>3 DEF Within
<1> QED BY <1>4, <1>5, <1>6

LEMMA NotNull == ASSUME NEW U, Universe(U, Names), NEW n \in U PROVE n # Null /\ n.type # "NULL"
<1>1. Shape(U, Names)!WellFormed(n)
  BY DEF Universe
<1>2. n.type \in expr_t \cup stmt_t \cup {"AST_FUNC_DECL"}
  BY <1>1, Types DEF Shape!WellFormed
<1>3. n.type # "NULL"
  BY <1>2 DEF expr_t, stmt_t, Shape!expr_t, Shape!stmt_t
<1> QED BY <1>3 DEF Null

\* The children are below the node, but for those of a function.
LEMMA SubsBelow ==
  ASSUME NEW U, NEW n, NEW k \in DOMAIN Shape(U, Names)!Subs(n)
  PROVE  IF n.type = "AST_FUNC_DECL" THEN Shape(U, Names)!Subs(n) = n.block.nodes
         ELSE Shape(U, Names)!Subs(n)[k] \in Range(Below(n))
<1> USE DEF Shape!Subs, Below
<1>1. CASE n.type = "AST_FUNC_DECL"
  BY <1>1
<1>2. CASE n.type \in {"AST_CALL", "AST_BLOCK"}
  BY <1>2 DEF Range
<1>3. CASE n.type \in {"AST_BINARY", "AST_CAST"}
  BY <1>3 DEF Range
<1>4. CASE n.type = "AST_UNARY"
  BY <1>4, RangeOf
<1>5. CASE n.type = "AST_ASSIGN"
  BY <1>5, RangeOf
<1>6. CASE n.type \in {"AST_VAR_DECL", "AST_RETURN"}
  BY <1>6, RangeOf
<1>7. CASE n.type = "AST_IF"
  BY <1>7, RangeOf
<1>8. CASE n.type \notin {"AST_FUNC_DECL", "AST_CALL", "AST_BLOCK", "AST_BINARY", "AST_CAST",
                          "AST_UNARY", "AST_ASSIGN", "AST_VAR_DECL", "AST_RETURN", "AST_IF"}
  BY <1>8
<1> QED BY <1>1, <1>2, <1>3, <1>4, <1>5, <1>6, <1>7, <1>8

\* A node is well-formed among the nodes at most two steps below it.
LEMMA Localised ==
  ASSUME NEW U, Universe(U, Names), NEW n \in U, NEW V, V \subseteq U, BelowIn(V, n),
         n.type = "AST_FUNC_DECL" => BelowIn(V, n.block)
  PROVE  Shape(V, Names)!WellFormed(n)
<1>1. Shape(U, Names)!WellFormed(n)
  BY DEF Universe
<1> DEFINE subs == Shape(U, Names)!Subs(n)
<1>2. subs = Shape(V, Names)!Subs(n)
  BY SubsSame
<1>3. subs \in Seq(U) /\ \A k \in DOMAIN subs : subs[k].type \in Shape(U, Names)!SubTypes(n)
  BY <1>1 DEF Shape!WellFormed
<1>4. Shape(U, Names)!SubTypes(n) = Shape(V, Names)!SubTypes(n)
  BY DEF Shape!SubTypes, Shape!expr_t, Shape!stmt_t
<1>5. Named(V, n)
  BY <1>1 DEF Named, IsIdent, Shape!WellFormed, Shape!Idents
<1>6. /\ n.type \in expr_t \cup stmt_t \cup {"AST_FUNC_DECL"}
      /\ Particular(U, n)
  BY <1>1, Types DEF Shape!WellFormed, Particular, Shape!IsBlock
<1>7. \A m \in Range(Below(n)) : m \in U => m \in V
  BY NotNull DEF BelowIn
<1>8. n.type = "AST_FUNC_DECL" => n.block \in V
  BY <1>6, <1>7, RangeOf DEF Particular, Below
<1>9. ASSUME NEW k \in DOMAIN subs PROVE subs[k] \in V
  <2>1. subs[k] \in U /\ subs[k] # Null
    <3>1. subs[k] \in U
      BY <1>3, LenProperties, ElementOfSeq
    <3> QED BY <3>1, NotNull
  <2>2. CASE n.type = "AST_FUNC_DECL"
    <3>1. n.block.type = "AST_BLOCK"
      BY <1>6, <2>2 DEF Particular
    <3>2. Below(n.block) = n.block.nodes
      BY <3>1 DEF Below
    <3>3. subs = Below(n.block)
      BY <2>2, <3>2, SubsBelow
    <3>4. subs[k] \in Range(Below(n.block))
      BY <3>3 DEF Range
    <3> QED BY <2>1, <2>2, <3>4 DEF BelowIn
  <2>3. CASE n.type # "AST_FUNC_DECL"
    BY <1>7, <2>1, <2>3, SubsBelow
  <2> QED BY <2>2, <2>3
<1> HIDE DEF subs
<1>10. IsSeq(subs) /\ DOMAIN subs = 1..Len(subs)
  BY <1>3, LenProperties DEF IsSeq
<1>11. subs \in Seq(V)
  BY <1>9, <1>10, SeqInto
<1>12. SubsIn(V, n, Shape(V, Names)!SubTypes(n))
  BY <1>2, <1>3, <1>4, <1>11 DEF SubsIn
<1>13. Particular(V, n)
  <2>1. n.type = "AST_UNARY" => n.expr \in V
    BY <1>6, <1>7, RangeOf DEF Particular, Below
  <2>2. n.type = "AST_ASSIGN" => n.target \in V
    BY <1>6, <1>7, RangeOf DEF Particular, Below
  <2>3. n.type = "AST_CALL" => n.args \in Seq(V)
    BY <1>11, <1>2 DEF Shape!Subs
  <2>4. n.type = "AST_IF" => /\ n.then_branch \in V
                             /\ n.else_branch \in U => n.else_branch \in V
    BY <1>6, <1>7, RangeOf DEF Particular, Below
  <2> QED BY <1>6, <1>8, <2>1, <2>2, <2>3, <2>4 DEF Particular
<1>14. Sound(V, n)
  BY <1>5, <1>6, <1>12, <1>13, SoundNode
<1> QED BY <1>14 DEF Sound

LEMMA Feeds == IInv /\ TreeInv => FeedsTheGenerator
<1> SUFFICES ASSUME IInv, TreeInv, phase = "done"
             PROVE  LET all == Within(Len(tokens) + 2)
                    IN /\ \A n \in Within(Len(tokens)) : Shape(all, Names)!WellFormed(n)
                       /\ \A k \in DOMAIN program : program[k].type \in Shape(all, Names)!top_t
  BY DEF FeedsTheGenerator
<1> PICK U : Before(U)
  BY DEF TreeInv, Before
<1> DEFINE L == Len(tokens)
           all == Within(L + 2)
<1>1. tokens \in Inputs /\ L \in Nat
  BY Lists DEF IInv
<1>2. Top.fn = "parse_program"
  <2>1. Len(frames) = 1
    BY DEF IInv
  <2> QED BY <2>1, Here DEF IsStack
<1>3. \A i \in 1..Len(vals) : Fits(U, Names, "top", vals[i])
  <2>1. \A i : Wants("parse_program", i) = "top"
    BY DEF Wants, binary_op
  <2> QED BY <1>2, <2>1, HandHolds
<1>4. IsSeq(vals) /\ DOMAIN vals = 1..Len(vals)
  <2>1. PICK S : vals \in Seq(S)
    BY Here DEF IsSeq
  <2> QED BY <2>1, LenProperties, Here
<1>5. \A k \in DOMAIN program : program[k] \in U /\ program[k].type \in top_t
  BY <1>3, <1>4 DEF program, Fits
<1>6. Range(program) \subseteq U
  BY <1>5 DEF Range
<1>7. Universe(U, Names)
  BY DEF Before
<1> HIDE DEF L
<1>8. \A d \in 0..L + 2 : Level[d] \subseteq U
  BY <1>1, <1>6, <1>7, LevelIn DEF L
<1>9. \A d \in 0..L + 2 : Within(d) \subseteq U
  <2> TAKE d \in 0..L + 2
  <2>1. \A e \in 0..d : e \in 0..L + 2
    BY <1>1
  <2> QED BY <1>8, <2>1 DEF Within
<1>10. L \in 0..L + 2 /\ L + 1 \in 0..L + 2 /\ L + 2 \in 0..L + 2 /\ L + 1 \in Nat
       /\ L + 1 <= L + 2 /\ L + 1 + 1 = L + 2 /\ L + 1 + 1 <= L + 2
  BY <1>1
<1>11. Within(L + 1) \subseteq all
  <2>1. \A e \in 0..L + 1 : e \in 0..L + 2
    BY <1>1
  <2> QED BY <2>1 DEF Within
<1> HIDE DEF all
<1>12. ASSUME NEW n \in Within(L) PROVE Shape(all, Names)!WellFormed(n)
  <2>1. Range(Below(n)) \subseteq Within(L + 1) \cup {Null}
    BY <1>1, <1>6, <1>7, <1>10, BelowWithin DEF L
  <2>2. n \in U /\ all \subseteq U
    BY <1>9, <1>10 DEF all
  <2>3. BelowIn(all, n)
    BY <1>11, <2>1 DEF BelowIn
  <2>4. ASSUME n.type = "AST_FUNC_DECL" PROVE BelowIn(all, n.block)
    <3>1. Below(n) = <<n.block>>
      BY <2>4 DEF Below
    <3>2. n.block \in U
      <4>1. Shape(U, Names)!WellFormed(n)
        BY <1>7, <2>2 DEF Universe
      <4> QED BY <2>4, <4>1 DEF Shape!WellFormed, Shape!IsBlock
    <3>3. n.block \in Within(L + 1)
      BY <1>7, <2>1, <3>1, <3>2, NotNull, RangeOf
    <3>4. Range(Below(n.block)) \subseteq Within(L + 1 + 1) \cup {Null}
      BY <1>1, <1>6, <1>7, <1>10, <3>3, BelowWithin DEF L
    <3> QED BY <1>10, <3>4 DEF BelowIn, all
  <2> QED BY <1>7, <2>2, <2>3, <2>4, Localised
<1>13. Shape(all, Names)!top_t = top_t
  BY DEF top_t, Shape!top_t
<1> QED BY <1>5, <1>12, <1>13 DEF all, L

(***************************************************************************)
(* What the parser accepts is what the generator is proved correct for,    *)
(* for every list of tokens: an expression has only expressions below it,  *)
(* an operator is one the generator knows, the arms of an if and the body  *)
(* of a function are blocks, and every name is one of the source.          *)
(***************************************************************************)
THEOREM GeneratorIsFed == Spec => []FeedsTheGenerator
<1> QED BY Starts, Inductive, TreeStarts, TreeInductive, Feeds, PTL DEF Spec

-----------------------------------------------------------------------------
(* How deep the nodes nest                                                 *)
(*                                                                         *)
(* A node has consumed a token that no node below it has: what is below    *)
(* one nests less deeply than the tokens that it spans.  While the tree is *)
(* being built, that is so of what each frame has in hand and the tokens   *)
(* between the one the frame began at and the one the next began at.       *)

\* H[d] are nodes that nest at most d deep.
Heights(H) ==
  /\ H[0] = {}
  /\ \A d, e \in Nat : d <= e => H[d] \subseteq H[e]
  /\ \A d \in Nat : \A n \in H[d + 1] : Range(Below(n)) \subseteq H[d] \cup {Null}

Grown(H, G) == Heights(G) /\ \A d \in Nat : H[d] \subseteq G[d]

NodeKinds == {"expr", "block", "decl", "func", "plain", "stmt", "top"}

\* The tokens that fn, with i values in hand, has consumed for the node it is
\* making: the operator, the keyword, the bracket.
Own(fn, i) ==
  IF \/ i >= 2 /\ fn \in DOMAIN binary_op \cup {"parse_assign_expr", "parse_unary_expr", "parse_postfix",
                                                "parse_cast_expr", "parse_call_expr"}
     \/ i >= 1 /\ fn \in {"parse_return_stmt", "parse_if_stmt", "parse_var_decl", "parse_func_decl"}
  THEN 1 ELSE 0

\* A frame that began d tokens ago and goes on with i values in hand.
Spent(H, fr, i, d) ==
  /\ Own(fr.fn, i) <= d
  /\ \A p \in 1..Len(fr.vals) :
       Wants(fr.fn, p) \in NodeKinds => fr.vals[p] \in H[d - Own(fr.fn, i)]

\* Frame k began at the token st[k].
Spans(H, st, fs, k) ==
  /\ \A j \in 1..Len(fs) - 1 : Spent(H, fs[j], Len(fs[j].vals) + 1, st[j + 1] - st[j])
  /\ LET n == Len(fs)
     IN Spent(H, fs[n], Len(fs[n].vals), k - st[n])

Measured(H, st) == Heights(H) /\ st \in [Nat -> Nat] /\ st[1] = 0 /\ Spans(H, st, frames, idx)

DepthInv == \E H, st : Measured(H, st)

LEMMA OwnValues ==
  ASSUME NEW fn, NEW i
  PROVE  /\ Own(fn, i) \in {0, 1}
         /\ i = 0 => Own(fn, i) = 0
BY DEF Own

LEMMA Higher ==
  ASSUME NEW H, Heights(H), NEW e \in Nat, NEW n, Range(Below(n)) \subseteq H[e] \cup {Null}
  PROVE  \E G : Grown(H, G) /\ n \in G[e + 1]
<1> DEFINE G == [d \in Nat |-> IF d >= e + 1 THEN H[d] \cup {n} ELSE H[d]]
<1>1. \A d \in Nat : G[d] = IF d >= e + 1 THEN H[d] \cup {n} ELSE H[d]
  OBVIOUS
<1> HIDE DEF G
<1>2. G[0] = {} /\ \A d \in Nat : H[d] \subseteq G[d]
  <2>1. G[0] = H[0]
    <3>1. 0 \in Nat /\ ~(0 >= e + 1)
      OBVIOUS
    <3> QED BY <1>1, <3>1, Zenon
  <2>2. \A d \in Nat : H[d] \subseteq G[d]
    BY <1>1
  <2> QED BY <2>1, <2>2 DEF Heights
<1>3. ASSUME NEW c \in Nat, NEW d \in Nat, c <= d PROVE G[c] \subseteq G[d]
  <2>1. H[c] \subseteq H[d]
    BY <1>3 DEF Heights
  <2>2. c >= e + 1 => d >= e + 1
    BY <1>3
  <2> QED BY <1>1, <2>1, <2>2
<1>4. ASSUME NEW d \in Nat, NEW m \in G[d + 1] PROVE Range(Below(m)) \subseteq G[d] \cup {Null}
  <2>1. CASE m \in H[d + 1]
    BY <1>2, <2>1 DEF Heights
  <2>2. CASE m \notin H[d + 1]
    <3>1. d + 1 \in Nat /\ G[d + 1] = IF d + 1 >= e + 1 THEN H[d + 1] \cup {n} ELSE H[d + 1]
      BY <1>1
    <3>2. m = n /\ d >= e
      BY <2>2, <3>1
    <3>3. H[e] \subseteq H[d]
      BY <3>2 DEF Heights
    <3> QED BY <1>2, <3>2, <3>3
  <2> QED BY <2>1, <2>2
<1>5. n \in G[e + 1]
  <2>1. PICK d \in Nat : d = e + 1
    OBVIOUS
  <2>2. d >= e + 1
    BY <2>1
  <2>3. n \in G[d]
    BY <1>1, <2>2
  <2> QED BY <2>1, <2>3
<1>6. Heights(G)
  BY <1>2, <1>3, <1>4 DEF Heights
<1> QED BY <1>2, <1>5, <1>6 DEF Grown

LEMMA Rises == ASSUME NEW H, Heights(H), NEW d \in Nat, NEW e \in Nat, d <= e PROVE H[d] \subseteq H[e]
BY DEF Heights

LEMMA SpentGrows ==
  ASSUME NEW H, NEW G, Grown(H, G), NEW fr, NEW i, NEW d \in Int, NEW e \in Int, d <= e,
         Spent(H, fr, i, d)
  PROVE  Spent(G, fr, i, e)
<1> DEFINE o == Own(fr.fn, i)
<1>1. o \in {0, 1} /\ o <= d
  BY OwnValues DEF Spent
<1> HIDE DEF o
<1>2. d - o \in Nat /\ e - o \in Nat /\ d - o <= e - o /\ o <= e
  BY <1>1
<1>3. H[d - o] \subseteq G[d - o] /\ G[d - o] \subseteq G[e - o]
  BY <1>2 DEF Grown, Heights
<1> QED BY <1>2, <1>3 DEF Spent, o

LEMMA SpansGrow ==
  ASSUME NEW H, NEW G, Grown(H, G), NEW st \in [Nat -> Nat], NEW fs, IsStack(fs), NEW k \in Int,
         Spans(H, st, fs, k)
  PROVE  Spans(G, st, fs, k)
<1>1. Len(fs) \in Nat /\ Len(fs) > 0
  BY LenNat DEF IsStack
<1>2. \A j \in 1..Len(fs) - 1 : st[j + 1] - st[j] \in Int
  BY <1>1
<1>3. \A j \in 1..Len(fs) - 1 : Spent(G, fs[j], Len(fs[j].vals) + 1, st[j + 1] - st[j])
  BY <1>2, SpentGrows DEF Spans
<1>4. k - st[Len(fs)] \in Int
  BY <1>1
<1>5. Spent(G, fs[Len(fs)], Len(fs[Len(fs)].vals), k - st[Len(fs)])
  BY <1>4, SpentGrows DEF Spans
<1> QED BY <1>3, <1>5 DEF Spans

LEMMA GrownSelf == ASSUME NEW H, Heights(H) PROVE Grown(H, H)
BY DEF Grown

\* The frames below the top one stay when its values change.
LEMMA SetBelow ==
  ASSUME NEW fs, IsStack(fs), NEW vs
  PROVE  LET gs == [fs EXCEPT ![Len(fs)].vals = vs]
         IN /\ Len(gs) = Len(fs) /\ gs[Len(fs)] = Frame(fs[Len(fs)].fn, vs)
            /\ \A k \in 1..Len(fs) - 1 : gs[k] = fs[k]
<1> DEFINE n == Len(fs)
           gs == [fs EXCEPT ![n].vals = vs]
<1>1. PICK S : fs \in Seq(S)
  BY DEF IsStack, IsSeq
<1>2. n \in Nat /\ n > 0 /\ DOMAIN fs = 1..n
  BY <1>1 DEF IsStack
<1>3. IsFrame(fs[n])
  BY <1>2 DEF IsStack
<1>4. fs[n] = [fn |-> fs[n].fn, vals |-> fs[n].vals]
  BY <1>3 DEF IsFrame, Frame
<1>5. [fs[n] EXCEPT !.vals = vs] = Frame(fs[n].fn, vs)
  BY <1>4 DEF Frame
<1>6. gs = [fs EXCEPT ![n] = Frame(fs[n].fn, vs)]
  BY <1>5
<1>7. Len(gs) = n /\ \A k \in 1..n : gs[k] = IF k = n THEN Frame(fs[n].fn, vs) ELSE fs[k]
  BY <1>1, <1>2, <1>6
<1> HIDE DEF gs
<1>8. \A k \in 1..n - 1 : k \in 1..n /\ k # n
  <2> HIDE DEF n
  <2> QED BY <1>2
<1> QED BY <1>2, <1>7, <1>8 DEF gs

-----------------------------------------------------------------------------
(* How a step can end *)

\* What the frame at the top has in hand.
LEMMA HandSpent ==
  ASSUME IInv, NEW H, NEW st, Measured(H, st)
  PROVE  LET d == idx - st[Len(frames)]
             o == Own(Top.fn, Len(vals))
         IN /\ Len(frames) \in Nat /\ Len(frames) > 0 /\ st[Len(frames)] \in Nat /\ idx \in Nat
            /\ d \in Nat /\ o <= d /\ o \in {0, 1}
            /\ \A p \in 1..Len(vals) : Wants(Top.fn, p) \in NodeKinds => vals[p] \in H[d - o]
<1>1. IsStack(frames) /\ Top = frames[Len(frames)] /\ InTokens(idx) /\ tokens \in Inputs
  BY Here
<1>2. Len(frames) \in Nat /\ Len(frames) > 0
  BY <1>1, LenNat DEF IsStack
<1>3. idx \in Nat
  BY <1>1, Lists DEF InTokens
<1>4. st[Len(frames)] \in Nat
  BY <1>2 DEF Measured
<1>5. Spent(H, Top, Len(vals), idx - st[Len(frames)])
  BY <1>1 DEF Measured, Spans, vals
<1>6. Own(Top.fn, Len(vals)) \in {0, 1}
  BY OwnValues
<1>7. Own(Top.fn, Len(vals)) <= idx - st[Len(frames)]
  BY <1>5 DEF Spent
<1>8. idx - st[Len(frames)] \in Nat
  BY <1>3, <1>4, <1>6, <1>7
<1> QED BY <1>2, <1>3, <1>4, <1>5, <1>6, <1>7, <1>8 DEF Spent, vals

LEMMA KeepSpan ==
  ASSUME IInv, NEW H, NEW st, Measured(H, st), NEW G, Grown(H, G), NEW k, NEW vs,
         Spent(G, Frame(Top.fn, vs), Len(vs), k - st[Len(frames)]), Keep(k, vs)
  PROVE  DepthInv'
<1>1. IsStack(frames) /\ Top = frames[Len(frames)] /\ idx \in Int
  BY Here
<1>2. Spans(G, st, frames, idx)
  BY <1>1, SpansGrow DEF Measured
<1> DEFINE gs == [frames EXCEPT ![Len(frames)].vals = vs]
<1>3. /\ Len(gs) = Len(frames) /\ gs[Len(frames)] = Frame(Top.fn, vs)
      /\ \A j \in 1..Len(frames) - 1 : gs[j] = frames[j]
  BY <1>1, SetBelow
<1>6. frames' = gs /\ idx' = k
  BY DEF Keep
<1>7. Frame(Top.fn, vs).vals = vs
  BY DEF Frame
<1> HIDE DEF gs
<1>8. Spans(G, st, gs, k)
  BY <1>2, <1>3, <1>7 DEF Spans
<1>4. Spans(G, st, frames, idx)'
  BY <1>6, <1>8
<1>5. Measured(G, st)'
  BY <1>4 DEF Measured, Grown
<1> QED BY <1>5 DEF DepthInv

\* One more frame, that begins at token k.
LEMMA SpansPush ==
  ASSUME NEW H, NEW st \in [Nat -> Nat], NEW fs, IsStack(fs), NEW k \in Nat, NEW fn,
         \A j \in 1..Len(fs) - 1 : Spent(H, fs[j], Len(fs[j].vals) + 1, st[j + 1] - st[j]),
         Spent(H, fs[Len(fs)], Len(fs[Len(fs)].vals) + 1, k - st[Len(fs)])
  PROVE  \E t \in [Nat -> Nat] : t[1] = st[1] /\ Spans(H, t, Append(fs, Frame(fn, <<>>)), k)
<1> DEFINE n == Len(fs)
           t == [j \in Nat |-> IF j = n + 1 THEN k ELSE st[j]]
           gs == Append(fs, Frame(fn, <<>>))
<1>1. n \in Nat /\ n > 0 /\ IsSeq(fs)
  BY LenNat DEF IsStack
<1>2. Len(gs) = n + 1 /\ gs[n + 1] = Frame(fn, <<>>) /\ \A j \in 1..n : gs[j] = fs[j]
  BY <1>1, Appending
<1> HIDE DEF n, gs
<1>3. t \in [Nat -> Nat]
  OBVIOUS
<1>4. t[n + 1] = k /\ \A j \in 1..n : t[j] = st[j]
  BY <1>1
<1> HIDE DEF t
<1>5. ASSUME NEW j \in 1..(n + 1) - 1
      PROVE  Spent(H, gs[j], Len(gs[j].vals) + 1, t[j + 1] - t[j])
  <2>0. j \in 1..n
    BY <1>1
  <2>1. gs[j] = fs[j] /\ t[j] = st[j]
    BY <1>2, <1>4, <2>0
  <2>2. CASE j = n
    BY <1>4, <2>1, <2>2 DEF n
  <2>3. CASE j # n
    <3>1. j \in 1..n - 1 /\ j + 1 \in 1..n
      BY <1>1, <2>0, <2>3
    <3>2. t[j + 1] = st[j + 1]
      BY <1>4, <3>1
    <3> QED BY <2>1, <3>1, <3>2 DEF n
  <2> QED BY <2>2, <2>3
<1>6. Frame(fn, <<>>).vals = <<>> /\ Len(<<>>) = 0 /\ Own(fn, 0) = 0 /\ Frame(fn, <<>>).fn = fn
  BY OwnValues DEF Frame
<1>7. Spent(H, Frame(fn, <<>>), 0, k - k)
  <2>1. 0 <= k - k /\ 1..0 = {}
    OBVIOUS
  <2> QED BY <1>6, <2>1 DEF Spent
<1>8. Spans(H, t, gs, k)
  BY <1>2, <1>4, <1>5, <1>6, <1>7 DEF Spans
<1>9. t[1] = st[1]
  <2>1. 1 \in 1..n
    BY <1>1
  <2> QED BY <1>4, <2>1
<1> QED BY <1>3, <1>8, <1>9 DEF gs

LEMMA CallSpan ==
  ASSUME IInv, NEW H, NEW st, Measured(H, st), NEW k \in Nat, NEW vs, IsSeq(vs),
         Spent(H, Frame(Top.fn, vs), Len(vs) + 1, k - st[Len(frames)]), NEW fn, Call(k, vs, fn)
  PROVE  DepthInv'
<1> DEFINE hs == [frames EXCEPT ![Len(frames)].vals = vs]
<1>1. IsStack(frames) /\ Top = frames[Len(frames)] /\ idx \in Int
  BY Here
<1>2. Spans(H, st, frames, idx) /\ st \in [Nat -> Nat] /\ st[1] = 0 /\ Heights(H)
  BY DEF Measured
<1>3. /\ Len(hs) = Len(frames) /\ hs[Len(frames)] = Frame(Top.fn, vs)
      /\ \A j \in 1..Len(frames) - 1 : hs[j] = frames[j]
  BY <1>1, SetBelow
<1>4. IsStack(hs)
  BY <1>1, SetTop
<1>5. frames' = Append(hs, Frame(fn, <<>>)) /\ idx' = k
  BY DEF Call
<1> HIDE DEF hs
<1>6. Frame(Top.fn, vs).vals = vs
  BY DEF Frame
<1>7. PICK t \in [Nat -> Nat] : t[1] = st[1] /\ Spans(H, t, Append(hs, Frame(fn, <<>>)), k)
  <2>1. Spent(H, hs[Len(hs)], Len(hs[Len(hs)].vals) + 1, k - st[Len(hs)])
    BY <1>3, <1>6
  <2>2. \A j \in 1..Len(hs) - 1 : Spent(H, hs[j], Len(hs[j].vals) + 1, st[j + 1] - st[j])
    BY <1>2, <1>3 DEF Spans
  <2> QED BY <1>2, <1>4, <2>1, <2>2, SpansPush, Zenon
<1>8. Spans(H, t, frames, idx)'
  BY <1>5, <1>7
<1>9. Measured(H, t)'
  BY <1>2, <1>7, <1>8 DEF Measured
<1> QED BY <1>9 DEF DepthInv

\* The stack without its top frame.
LEMMA SpansPop ==
  ASSUME NEW H, NEW st, NEW fs, IsStack(fs), NEW k, Spans(H, st, fs, k), Len(fs) > 1
  PROVE  LET hs == Front(fs)
             n == Len(hs)
         IN /\ n = Len(fs) - 1 /\ n \in Nat /\ n > 0
            /\ \A j \in 1..n : Spent(H, hs[j], Len(hs[j].vals) + 1, st[j + 1] - st[j])
<1> DEFINE hs == Front(fs)
<1>1. Len(fs) \in Nat /\ IsSeq(fs) /\ Len(fs) > 0
  BY LenNat DEF IsStack
<1>2. Len(hs) = Len(fs) - 1 /\ \A j \in 1..Len(fs) - 1 : hs[j] = fs[j]
  BY <1>1, Fronts
<1> HIDE DEF hs
<1>3. \A j \in 1..Len(fs) - 1 : Spent(H, hs[j], Len(hs[j].vals) + 1, st[j + 1] - st[j])
  BY <1>2 DEF Spans
<1>4. Len(fs) - 1 \in Nat /\ Len(fs) - 1 > 0
  BY <1>1
<1> QED BY <1>2, <1>3, <1>4 DEF hs

LEMMA BecomeSpan ==
  ASSUME IInv, NEW H, NEW st, Measured(H, st), Top.fn # "parse_program", NEW fn, Become(fn)
  PROVE  DepthInv'
<1> DEFINE hs == Front(frames)
           n == Len(hs)
<1>1. IsStack(frames) /\ Top = frames[Len(frames)] /\ idx \in Nat
  BY Here, HandSpent
<1>2. IsStack(hs) /\ Len(frames) > 1
  BY <1>1, PopFrame
<1>3. Spans(H, st, frames, idx) /\ st \in [Nat -> Nat] /\ st[1] = 0 /\ Heights(H)
  BY DEF Measured
<1>4. /\ n = Len(frames) - 1 /\ n \in Nat /\ n > 0
      /\ \A j \in 1..n : Spent(H, hs[j], Len(hs[j].vals) + 1, st[j + 1] - st[j])
  BY <1>1, <1>2, <1>3, SpansPop
<1>5. frames' = Append(hs, Frame(fn, <<>>)) /\ idx' = idx
  BY DEF Become
<1> HIDE DEF hs
<1>6. \A j \in 1..n - 1 : Spent(H, hs[j], Len(hs[j].vals) + 1, st[j + 1] - st[j])
  <2> HIDE DEF n
  <2> QED BY <1>4
<1>7. st[n + 1] = st[Len(frames)] /\ st[Len(frames)] \in Nat /\ st[Len(frames)] <= idx
  BY <1>4, HandSpent
<1>8. Spent(H, hs[n], Len(hs[n].vals) + 1, idx - st[n])
  <2>1. n \in 1..n
    BY <1>4
  <2>2. Spent(H, hs[n], Len(hs[n].vals) + 1, st[n + 1] - st[n])
    BY <1>4, <2>1
  <2>3. st[n] \in Nat
    BY <1>3, <1>4
  <2>4. st[n + 1] - st[n] \in Int /\ idx - st[n] \in Int /\ st[n + 1] - st[n] <= idx - st[n]
    BY <1>1, <1>7, <2>3
  <2> QED BY <1>3, <2>2, <2>4, GrownSelf, SpentGrows
<1>9. PICK t \in [Nat -> Nat] : t[1] = st[1] /\ Spans(H, t, Append(hs, Frame(fn, <<>>)), idx)
  BY <1>1, <1>2, <1>3, <1>6, <1>8, SpansPush
<1>10. Spans(H, t, frames, idx)'
  BY <1>5, <1>9
<1>11. Measured(H, t)'
  BY <1>3, <1>9, <1>10 DEF Measured
<1> QED BY <1>11 DEF DepthInv

LEMMA NodeGoes ==
  ASSUME NEW kind, NEW want, Goes(kind, want)
  PROVE  want \in NodeKinds => kind \in NodeKinds
BY DEF Goes, NodeKinds

LEMMA LessBoth ==
  ASSUME NEW a \in Nat, NEW b \in Nat, NEW k \in Int, b <= k, NEW o \in {0, 1}, o <= b - a
  PROVE  /\ b - a - o \in Nat /\ k - b \in Nat /\ k - a - o \in Nat /\ o <= k - a
         /\ b - a - o <= k - a - o /\ k - b <= k - a - o
OBVIOUS

\* A value returned after the token before k: it nests less deeply than the
\* frame has consumed tokens.
LEMMA ReturnSpan ==
  ASSUME IInv, NEW U, Before(U), NEW H, NEW st, Measured(H, st), Top.fn # "parse_program",
         NEW G, Grown(H, G), NEW k \in Int, idx <= k, NEW val,
         Gives(Top.fn) \in NodeKinds => val \in G[k - st[Len(frames)]], Return(k, val)
  PROVE  DepthInv'
<1> DEFINE hs == Front(frames)
           n == Len(hs)
           vs == Append(hs[n].vals, val)
<1>1. IsStack(frames) /\ Top = frames[Len(frames)] /\ idx \in Int
  BY Here
<1>2. IsStack(hs) /\ Len(frames) > 1
  BY <1>1, PopFrame
<1>3. Spans(G, st, frames, idx) /\ st \in [Nat -> Nat] /\ st[1] = 0 /\ Heights(G)
  BY <1>1, SpansGrow DEF Measured, Grown
<1>4. /\ n = Len(frames) - 1 /\ n \in Nat /\ n > 0
      /\ \A j \in 1..n : Spent(G, hs[j], Len(hs[j].vals) + 1, st[j + 1] - st[j])
  BY <1>1, <1>2, <1>3, SpansPop
<1>5. Goes(Gives(Top.fn), Wants(hs[n].fn, Len(hs[n].vals) + 1))
  BY <1>1, <1>2, StackedPop DEF Before
<1>6. frames' = [hs EXCEPT ![n].vals = vs] /\ idx' = k
  BY <1>4 DEF Return
<1> HIDE DEF hs
<1>7. IsSeq(hs[n].vals)
  BY <1>2, <1>4 DEF IsStack, IsFrame
<1>8. /\ Len(hs[n].vals) \in Nat /\ Len(vs) = Len(hs[n].vals) + 1 /\ vs[Len(hs[n].vals) + 1] = val
      /\ \A i \in 1..Len(hs[n].vals) : vs[i] = hs[n].vals[i]
  BY <1>7, Appending, LenNat
<1>9. st[n + 1] = st[Len(frames)] /\ st[n] \in Nat /\ st[n + 1] \in Nat /\ st[n + 1] <= k
  <2>1. st[Len(frames)] \in Nat /\ idx - st[Len(frames)] \in Nat /\ Len(frames) \in Nat
    BY HandSpent
  <2>2. n + 1 = Len(frames) /\ st[n] \in Nat
    BY <1>3, <1>4, <2>1
  <2>3. st[Len(frames)] <= idx
    BY <1>1, <2>1
  <2> QED BY <1>1, <2>1, <2>2, <2>3
<1>10. Spent(G, hs[n], Len(hs[n].vals) + 1, st[n + 1] - st[n])
  <2>1. n \in 1..n
    BY <1>4
  <2> QED BY <1>4, <2>1
<1> DEFINE o == Own(hs[n].fn, Len(hs[n].vals) + 1)
<1>11. o \in {0, 1} /\ o <= st[n + 1] - st[n]
  BY <1>10, OwnValues DEF Spent
<1> HIDE DEF vs, n, o
<1>12. /\ st[n + 1] - st[n] - o \in Nat /\ k - st[n + 1] \in Nat /\ k - st[n] - o \in Nat /\ o <= k - st[n]
       /\ st[n + 1] - st[n] - o <= k - st[n] - o /\ k - st[n + 1] <= k - st[n] - o
  BY <1>1, <1>9, <1>11, LessBoth
<1>13. G[st[n + 1] - st[n] - o] \subseteq G[k - st[n] - o] /\ G[k - st[n + 1]] \subseteq G[k - st[n] - o]
  <2>1. \A a, b \in Nat : a <= b => G[a] \subseteq G[b]
    BY <1>3, Rises
  <2> QED BY <1>12, <2>1
<1>14. Frame(hs[n].fn, vs).vals = vs /\ Frame(hs[n].fn, vs).fn = hs[n].fn
  BY DEF Frame
<1>15. ASSUME NEW p \in 1..Len(vs), Wants(hs[n].fn, p) \in NodeKinds
       PROVE  vs[p] \in G[k - st[n] - o]
  <2>1. CASE p = Len(hs[n].vals) + 1
    <3>1. Gives(Top.fn) \in NodeKinds
      BY <1>5, <1>15, <2>1, NodeGoes DEF n
    <3>2. val \in G[k - st[n + 1]]
      BY <1>9, <3>1
    <3> QED BY <1>8, <1>13, <2>1, <3>2
  <2>2. CASE p # Len(hs[n].vals) + 1
    <3>1. p \in 1..Len(hs[n].vals)
      BY <1>8, <2>2
    <3>2. hs[n].vals[p] \in G[st[n + 1] - st[n] - o]
      BY <1>10, <1>15, <3>1 DEF Spent, o
    <3> QED BY <1>8, <1>13, <3>1, <3>2
  <2> QED BY <2>1, <2>2
<1>16. Spent(G, Frame(hs[n].fn, vs), Len(vs), k - st[n])
  BY <1>8, <1>12, <1>14, <1>15 DEF Spent, o
<1>17. /\ Len([hs EXCEPT ![n].vals = vs]) = n /\ [hs EXCEPT ![n].vals = vs][n] = Frame(hs[n].fn, vs)
       /\ \A j \in 1..n - 1 : [hs EXCEPT ![n].vals = vs][j] = hs[j]
  BY <1>2, SetBelow DEF n
<1> DEFINE gs == [hs EXCEPT ![n].vals = vs]
<1> HIDE DEF gs
<1>18. Spans(G, st, gs, k)
  <2>1. Len(gs) = n /\ gs[n] = Frame(hs[n].fn, vs) /\ \A j \in 1..n - 1 : gs[j] = hs[j]
    BY <1>17 DEF gs
  <2>2. \A j \in 1..n - 1 : j \in 1..n
    BY <1>4
  <2>3. \A j \in 1..n - 1 : Spent(G, gs[j], Len(gs[j].vals) + 1, st[j + 1] - st[j])
    BY <1>4, <2>1, <2>2
  <2> QED BY <1>14, <1>16, <2>1, <2>3 DEF Spans
<1>19. Spans(G, st, frames, idx)'
  BY <1>6, <1>18 DEF gs
<1>20. Measured(G, st)'
  BY <1>3, <1>19 DEF Measured
<1> QED BY <1>20 DEF DepthInv

LEMMA SameSpan == ASSUME DepthInv, UNCHANGED <<idx, frames>> PROVE DepthInv'
<1>1. PICK H, st : Measured(H, st)
  BY DEF DepthInv
<1>2. Measured(H, st)'
  BY <1>1 DEF Measured
<1> QED BY <1>2 DEF DepthInv

LEMMA StopSpan == ASSUME DepthInv, NEW end, Stop(end) PROVE DepthInv'
BY SameSpan DEF Stop

\* The tokens since the frame at the top began.
Since(st) == idx - st[Len(frames)]

LEMMA Hand ==
  ASSUME IInv, NEW H, NEW st, Measured(H, st)
  PROVE  /\ st[Len(frames)] \in Nat /\ idx \in Nat /\ Since(st) \in Nat /\ Heights(H)
         /\ Own(Top.fn, Len(vals)) \in {0, 1} /\ Own(Top.fn, Len(vals)) <= Since(st)
         /\ \A p \in 1..Len(vals) :
              Wants(Top.fn, p) \in NodeKinds => vals[p] \in H[Since(st) - Own(Top.fn, Len(vals))]
BY HandSpent DEF Since, Measured

LEMMA CallOnSpan ==
  ASSUME IInv, NEW H, NEW st, Measured(H, st), NEW k \in Nat, NEW fn,
         idx + Own(Top.fn, Len(vals) + 1) - Own(Top.fn, Len(vals)) <= k, Call(k, vals, fn)
  PROVE  DepthInv'
<1>1. /\ st[Len(frames)] \in Nat /\ idx \in Nat /\ Since(st) \in Nat /\ Heights(H)
      /\ Own(Top.fn, Len(vals)) \in {0, 1} /\ Own(Top.fn, Len(vals)) <= Since(st)
      /\ \A p \in 1..Len(vals) :
           Wants(Top.fn, p) \in NodeKinds => vals[p] \in H[Since(st) - Own(Top.fn, Len(vals))]
  BY Hand
<1>2. Own(Top.fn, Len(vals) + 1) \in {0, 1}
  BY OwnValues
<1>3. PICK o, q, b, d, e : /\ o = Own(Top.fn, Len(vals)) /\ q = Own(Top.fn, Len(vals) + 1)
                           /\ b = st[Len(frames)] /\ d = Since(st) - o /\ e = k - b - q
  OBVIOUS
<1>4. d \in Nat /\ e \in Nat /\ d <= e /\ q <= k - b
  <2>1. Since(st) = idx - b /\ b \in Nat
    BY <1>1, <1>3 DEF Since
  <2>2. o \in {0, 1} /\ q \in {0, 1} /\ o <= idx - b /\ idx + q - o <= k
    BY <1>1, <1>2, <1>3, <2>1
  <2>3. d = idx - b - o /\ e = k - b - q
    BY <1>3, <2>1
  <2> QED BY <1>1, <2>1, <2>2, <2>3
<1>5. H[d] \subseteq H[e]
  BY <1>1, <1>4, Rises
<1>6. Frame(Top.fn, vals).fn = Top.fn /\ Frame(Top.fn, vals).vals = vals
  BY DEF Frame
<1>7. \A p \in 1..Len(vals) : Wants(Top.fn, p) \in NodeKinds => vals[p] \in H[e]
  BY <1>1, <1>3, <1>5
<1>8. Spent(H, Frame(Top.fn, vals), Len(vals) + 1, k - st[Len(frames)])
  BY <1>3, <1>4, <1>6, <1>7 DEF Spent
<1>9. IsSeq(vals)
  BY Here
<1> QED BY <1>8, <1>9, CallSpan

\* A call with no nodes in hand.
LEMMA CallFlat ==
  ASSUME IInv, NEW H, NEW st, Measured(H, st), NEW k \in Nat, NEW vs, IsSeq(vs), NEW fn,
         \A p \in 1..Len(vs) : Wants(Top.fn, p) \notin NodeKinds, idx + 1 <= k, Call(k, vs, fn)
  PROVE  DepthInv'
<1>1. st[Len(frames)] \in Nat /\ idx \in Nat /\ Since(st) \in Nat
  BY Hand
<1>2. PICK b, q : b = st[Len(frames)] /\ q = Own(Top.fn, Len(vs) + 1) /\ q \in {0, 1}
  BY OwnValues
<1>3. q <= k - b
  BY <1>1, <1>2 DEF Since
<1>4. Frame(Top.fn, vs).fn = Top.fn /\ Frame(Top.fn, vs).vals = vs
  BY DEF Frame
<1>5. Spent(H, Frame(Top.fn, vs), Len(vs) + 1, k - st[Len(frames)])
  BY <1>2, <1>3, <1>4 DEF Spent
<1> QED BY <1>5, CallSpan

LEMMA KeepFlat ==
  ASSUME IInv, NEW H, NEW st, Measured(H, st), NEW k \in Int, NEW vs,
         \A p : Wants(Top.fn, p) \notin NodeKinds, Own(Top.fn, Len(vs)) = 0, idx <= k, Keep(k, vs)
  PROVE  DepthInv'
<1>1. st[Len(frames)] \in Nat /\ idx \in Nat /\ Since(st) \in Nat /\ Heights(H)
  BY Hand
<1>2. PICK b : b = st[Len(frames)]
  OBVIOUS
<1>3. 0 <= k - b
  BY <1>1, <1>2 DEF Since
<1>4. Frame(Top.fn, vs).fn = Top.fn /\ Frame(Top.fn, vs).vals = vs
  BY DEF Frame
<1>5. Spent(H, Frame(Top.fn, vs), Len(vs), k - st[Len(frames)])
  BY <1>2, <1>3, <1>4 DEF Spent
<1> QED BY <1>1, <1>5, GrownSelf, KeepSpan

\* One node more, or one in place of those in hand.
LEMMA KeepMore ==
  ASSUME IInv, NEW H, NEW st, Measured(H, st), NEW n, Range(Below(n)) = {},
         Own(Top.fn, Len(vals)) = 0, Own(Top.fn, Len(vals) + 1) = 0, Keep(idx + 1, Append(vals, n))
  PROVE  DepthInv'
<1> DEFINE vs == Append(vals, n)
<1>1. /\ st[Len(frames)] \in Nat /\ idx \in Nat /\ Since(st) \in Nat /\ Heights(H)
      /\ \A p \in 1..Len(vals) : Wants(Top.fn, p) \in NodeKinds => vals[p] \in H[Since(st) - 0]
  BY Hand
<1>2. IsSeq(vals) /\ Len(vals) \in Nat
  BY Here
<1>3. Len(vs) = Len(vals) + 1 /\ vs[Len(vals) + 1] = n /\ \A i \in 1..Len(vals) : vs[i] = vals[i]
  BY <1>2, Appending
<1> HIDE DEF vs
<1>4. PICK d \in Nat : d = Since(st)
  BY <1>1
<1>5. PICK G : Grown(H, G) /\ n \in G[d + 1]
  BY <1>1, Higher
<1>6. H[d] \subseteq G[d + 1]
  <2>1. H[d] \subseteq G[d] /\ Heights(G)
    BY <1>5 DEF Grown
  <2>2. d + 1 \in Nat /\ d <= d + 1
    OBVIOUS
  <2>3. G[d] \subseteq G[d + 1]
    BY <2>1, <2>2, Rises
  <2> QED BY <2>1, <2>3
<1>7. ASSUME NEW p \in 1..Len(vs), Wants(Top.fn, p) \in NodeKinds
      PROVE  vs[p] \in G[d + 1]
  <2>1. CASE p = Len(vals) + 1
    BY <1>3, <1>5, <2>1
  <2>2. CASE p # Len(vals) + 1
    <3>1. p \in 1..Len(vals)
      BY <1>2, <1>3, <2>2
    <3>2. Since(st) - 0 = d
      BY <1>4
    <3>3. vals[p] \in H[d]
      BY <1>1, <1>7, <3>1, <3>2
    <3> QED BY <1>3, <1>6, <3>1, <3>3
  <2> QED BY <2>1, <2>2
<1>8. Frame(Top.fn, vs).fn = Top.fn /\ Frame(Top.fn, vs).vals = vs
  BY DEF Frame
<1>9. (idx + 1) - st[Len(frames)] = d + 1 /\ d + 1 - 0 = d + 1 /\ 0 <= d + 1
  BY <1>1, <1>4 DEF Since
<1>10. Spent(G, Frame(Top.fn, vs), Len(vs), (idx + 1) - st[Len(frames)])
  BY <1>3, <1>7, <1>8, <1>9 DEF Spent
<1> QED BY <1>5, <1>10, KeepSpan DEF vs

LEMMA KeepNode ==
  ASSUME IInv, NEW H, NEW st, Measured(H, st), NEW n, NEW e \in Nat,
         Range(Below(n)) \subseteq H[e] \cup {Null}, Own(Top.fn, 1) = 0,
         NEW k \in Int, k - st[Len(frames)] >= e + 1, Keep(k, <<n>>)
  PROVE  DepthInv'
<1>1. st[Len(frames)] \in Nat /\ Heights(H)
  BY Hand
<1>2. PICK G : Grown(H, G) /\ n \in G[e + 1]
  BY <1>1, Higher
<1>3. PICK d : d = k - st[Len(frames)]
  OBVIOUS
<1>4. d \in Nat /\ e + 1 \in Nat /\ e + 1 <= d /\ 0 <= d /\ d - 0 = d
  BY <1>1, <1>3
<1>5. n \in G[d]
  <2>1. G[e + 1] \subseteq G[d]
    BY <1>2, <1>4, Rises DEF Grown
  <2> QED BY <1>2, <2>1
<1> DEFINE vs == <<n>>
<1>6. Len(vs) = 1 /\ \A p \in 1..Len(vs) : vs[p] = n
  OBVIOUS
<1> HIDE DEF vs
<1>7. Frame(Top.fn, vs).fn = Top.fn /\ Frame(Top.fn, vs).vals = vs
  BY DEF Frame
<1>8. Spent(G, Frame(Top.fn, vs), Len(vs), d)
  BY <1>4, <1>5, <1>6, <1>7 DEF Spent
<1> QED BY <1>2, <1>3, <1>8, KeepSpan DEF vs

\* Returning a new node over nodes that nest less deeply,
LEMMA ReturnNew ==
  ASSUME IInv, NEW U, Before(U), NEW H, NEW st, Measured(H, st), Top.fn # "parse_program",
         NEW n, NEW e \in Nat, Range(Below(n)) \subseteq H[e] \cup {Null},
         NEW k \in Int, idx <= k, k - st[Len(frames)] >= e + 1, Return(k, n)
  PROVE  DepthInv'
<1>1. st[Len(frames)] \in Nat /\ Heights(H)
  BY Hand
<1>2. PICK G : Grown(H, G) /\ n \in G[e + 1]
  BY <1>1, Higher
<1>3. PICK d : d = k - st[Len(frames)]
  OBVIOUS
<1>4. d \in Nat /\ e + 1 \in Nat /\ e + 1 <= d
  BY <1>1, <1>3
<1>5. n \in G[d]
  <2>1. G[e + 1] \subseteq G[d]
    BY <1>2, <1>4, Rises DEF Grown
  <2> QED BY <1>2, <2>1
<1> QED BY <1>2, <1>3, <1>5, ReturnSpan

LEMMA LessOwn ==
  ASSUME NEW s \in Nat, NEW i \in Nat, NEW k \in Int, i <= k, NEW o \in {0, 1}, i - s \in Nat, o <= i - s
  PROVE  k - s \in Nat /\ (i - s) - o \in Nat /\ (i - s) - o <= k - s
OBVIOUS

\* or one in hand,
LEMMA ReturnOld ==
  ASSUME IInv, NEW U, Before(U), NEW H, NEW st, Measured(H, st), Top.fn # "parse_program",
         NEW i \in 1..Len(vals), Wants(Top.fn, i) \in NodeKinds,
         NEW k \in Int, idx <= k, Return(k, vals[i])
  PROVE  DepthInv'
<1>1. /\ st[Len(frames)] \in Nat /\ idx \in Nat /\ Since(st) \in Nat /\ Heights(H)
      /\ Own(Top.fn, Len(vals)) \in {0, 1} /\ Own(Top.fn, Len(vals)) <= Since(st)
      /\ vals[i] \in H[Since(st) - Own(Top.fn, Len(vals))]
  BY Hand
<1>2. PICK d, e : d = k - st[Len(frames)] /\ e = Since(st) - Own(Top.fn, Len(vals))
  OBVIOUS
<1>3. d \in Nat /\ e \in Nat /\ e <= d
  <2> DEFINE s == st[Len(frames)]
             o == Own(Top.fn, Len(vals))
  <2>1. /\ s \in Nat /\ idx \in Nat /\ idx - s \in Nat /\ o \in {0, 1} /\ o <= idx - s
        /\ d = k - s /\ e = (idx - s) - o
    BY <1>1, <1>2 DEF Since
  <2> HIDE DEF s, o
  <2> QED BY <2>1, LessOwn
<1>4. vals[i] \in H[d]
  <2>1. H[e] \subseteq H[d]
    BY <1>1, <1>3, Rises
  <2> QED BY <1>1, <1>2, <2>1
<1>5. Grown(H, H)
  BY <1>1, GrownSelf
<1> QED BY <1>2, <1>4, <1>5, ReturnSpan

\* or none.
LEMMA ReturnFlat ==
  ASSUME IInv, NEW U, Before(U), NEW H, NEW st, Measured(H, st), Top.fn # "parse_program",
         Gives(Top.fn) \notin NodeKinds, NEW k \in Int, idx <= k, NEW val, Return(k, val)
  PROVE  DepthInv'
<1>1. Grown(H, H)
  BY GrownSelf DEF Measured
<1> QED BY <1>1, ReturnSpan

LEMMA BelowMade ==
  /\ \A o, a : Range(Below(mk_unary_expr(o, a))) = {a}
  /\ \A o, a, b : Range(Below(mk_binary_expr(o, a, b))) = {a, b}
  /\ \A a, b : Range(Below(mk_assign_expr(a, b))) = {a, b}
  /\ \A a, b : Range(Below(mk_index_expr(a, b))) = {a, b}
  /\ \A t, a : Range(Below(mk_cast_expr(t, a))) = {a}
  /\ \A c, s : Range(Below(mk_call_expr(c, s))) = Range(s)
  /\ \A a : Range(Below(mk_return_stmt(a))) = {a}
  /\ \A a, b, c : Range(Below(mk_if_stmt(a, b, c))) = {a, b, c}
  /\ \A s : Range(Below(mk_block_stmt(s))) = Range(s)
  /\ \A d, t, a : Range(Below(mk_var_decl(d, t, a))) = {a}
  /\ \A t, b : Range(Below(mk_func_decl(t, b))) = {b}
  /\ \A c : Range(Below(mk_identifer_expr(c))) = {}
  /\ \A c : Range(Below(mk_literal_expr(c))) = {}
  /\ Range(Below(mk_string_literal)) = {} /\ Range(Below(mk_comment_stmt)) = {}
<1>1. ASSUME NEW o, NEW a PROVE Range(Below(mk_unary_expr(o, a))) = {a}
  <2>1. Below(mk_unary_expr(o, a)) = <<a>>
    BY DEF Below, mk_unary_expr
  <2> QED BY <2>1, RangeOf
<1>2. ASSUME NEW o, NEW a, NEW b PROVE Range(Below(mk_binary_expr(o, a, b))) = {a, b}
  <2>1. Below(mk_binary_expr(o, a, b)) = <<a, b>>
    BY DEF Below, mk_binary_expr
  <2> QED BY <2>1, RangeOf
<1>3. ASSUME NEW a, NEW b PROVE Range(Below(mk_assign_expr(a, b))) = {a, b}
  <2>1. Below(mk_assign_expr(a, b)) = <<a, b>>
    BY DEF Below, mk_assign_expr
  <2> QED BY <2>1, RangeOf
<1>4. ASSUME NEW a, NEW b PROVE Range(Below(mk_index_expr(a, b))) = {a, b}
  <2>1. Below(mk_index_expr(a, b)) = <<a, b>>
    BY DEF Below, mk_index_expr
  <2> QED BY <2>1, RangeOf
<1>5. ASSUME NEW t, NEW a PROVE Range(Below(mk_cast_expr(t, a))) = {a}
  <2>1. Below(mk_cast_expr(t, a)) = <<a>>
    BY DEF Below, mk_cast_expr
  <2> QED BY <2>1, RangeOf
<1>6. ASSUME NEW c, NEW s PROVE Range(Below(mk_call_expr(c, s))) = Range(s)
  <2>1. Below(mk_call_expr(c, s)) = s
    BY DEF Below, mk_call_expr
  <2> QED BY <2>1, RangeOf
<1>7. ASSUME NEW a PROVE Range(Below(mk_return_stmt(a))) = {a}
  <2>1. Below(mk_return_stmt(a)) = <<a>>
    BY DEF Below, mk_return_stmt
  <2> QED BY <2>1, RangeOf
<1>8. ASSUME NEW a, NEW b, NEW c PROVE Range(Below(mk_if_stmt(a, b, c))) = {a, b, c}
  <2>1. Below(mk_if_stmt(a, b, c)) = <<a, b, c>>
    BY DEF Below, mk_if_stmt
  <2> QED BY <2>1, RangeOf
<1>9. ASSUME NEW s PROVE Range(Below(mk_block_stmt(s))) = Range(s)
  <2>1. Below(mk_block_stmt(s)) = s
    BY DEF Below, mk_block_stmt
  <2> QED BY <2>1, RangeOf
<1>10. ASSUME NEW d, NEW t, NEW a PROVE Range(Below(mk_var_decl(d, t, a))) = {a}
  <2>1. Below(mk_var_decl(d, t, a)) = <<a>>
    BY DEF Below, mk_var_decl
  <2> QED BY <2>1, RangeOf
<1>11. ASSUME NEW t, NEW b PROVE Range(Below(mk_func_decl(t, b))) = {b}
  <2>1. Below(mk_func_decl(t, b)) = <<b>>
    BY DEF Below, mk_func_decl
  <2> QED BY <2>1, RangeOf
<1>12. ASSUME NEW c PROVE Range(Below(mk_identifer_expr(c))) = {}
  <2>1. Below(mk_identifer_expr(c)) = <<>>
    BY DEF Below, mk_identifer_expr
  <2> QED BY <2>1, RangeOf
<1>13. ASSUME NEW c PROVE Range(Below(mk_literal_expr(c))) = {}
  <2>1. Below(mk_literal_expr(c)) = <<>>
    BY DEF Below, mk_literal_expr
  <2> QED BY <2>1, RangeOf
<1>14. Range(Below(mk_string_literal)) = {}
  BY <1>13 DEF mk_string_literal
<1>15. Range(Below(mk_comment_stmt)) = {}
  <2>1. Below(mk_comment_stmt) = <<>>
    BY DEF Below, mk_comment_stmt
  <2> QED BY <2>1, RangeOf
<1> QED BY <1>1, <1>2, <1>3, <1>4, <1>5, <1>6, <1>7, <1>8, <1>9, <1>10, <1>11, <1>12, <1>13, <1>14, <1>15,
           Zenon

-----------------------------------------------------------------------------
(* The functions and the depth *)

LEMMA TypeOnwards == ASSUME NEW k \in Int PROVE parse_var_type(k).idx >= k
<1> DEFINE is_adr == Kind(k) = "T_AND"
           at == IF is_adr THEN k + 1 ELSE k
           explicit == Kind(at) \in DOMAIN lit_of
           next == IF explicit THEN at + 1 ELSE at
           lit == IF explicit THEN lit_of[Kind(at)] ELSE "LIT_QWORD"
<1>1. parse_var_type(k) =
        IF is_adr /\ ~explicit THEN Failed(k)
        ELSE IF Kind(next) # "T_LEFT_BRACKET" THEN Parsed(next, <<mk_var_t(is_adr, lit)>>)
        ELSE IF Kind(next + 1) = "T_NUMBER_LIT" /\ Kind(next + 2) = "T_RIGHT_BRACKET"
        THEN Parsed(next + 3, <<mk_array_t(is_adr, lit, tokens[next + 2].num)>>)
        ELSE Failed(k)
  BY DEF parse_var_type
<1>2. \A j, nodes : Parsed(j, nodes).idx = j
  BY DEF Parsed
<1>3. Failed(k) = Parsed(k, <<>>)
  BY DEF Failed
<1>4. next \in Int /\ next >= k
  OBVIOUS
<1> HIDE DEF is_adr, explicit, next, lit
<1>5. parse_var_type(k).idx \in {k, next, next + 3}
  BY <1>1, <1>2, <1>3
<1> QED BY <1>4, <1>5

LEMMA IdentOnwards ==
  ASSUME NEW k \in Int
  PROVE  /\ parse_identifier_expr(k).idx >= k
         /\ parse_identifier_expr(k).nodes # <<>> => parse_identifier_expr(k).idx = k + 1
BY DEF parse_identifier_expr, Parsed, Failed

LEMMA TypedOnwards ==
  ASSUME tokens \in Inputs, NEW k, InTokens(k)
  PROVE  TypedIdent(k).idx >= k
<1> DEFINE type == parse_var_type(k)
           ident == parse_identifier_expr(type.idx)
<1>1. k \in Int /\ type.idx \in Int
  BY VarType, Lists DEF InTokens
<1>2. type.idx >= k /\ ident.idx >= type.idx /\ ident.idx \in Int
  <2>1. InTokens(type.idx)
    BY VarType
  <2>2. InTokens(ident.idx)
    BY <2>1, IdentifierExpr
  <2>3. ident.idx \in Int
    BY <2>2, Lists DEF InTokens
  <2> QED BY <1>1, <2>3, TypeOnwards, IdentOnwards
<1>3. TypedIdent(k) = IF type.nodes = <<>> \/ ident.nodes = <<>> THEN Parsed(k, <<>>)
                      ELSE Parsed(ident.idx, type.nodes \o ident.nodes)
  BY DEF TypedIdent, Failed
<1> HIDE DEF type, ident
<1>4. \A j, nodes : Parsed(j, nodes).idx = j
  BY DEF Parsed
<1>5. TypedIdent(k).idx \in {k, ident.idx}
  BY <1>3, <1>4
<1> QED BY <1>1, <1>2, <1>5

\* What is known before a step.
Known(U, H, st) == IInv /\ Before(U) /\ Measured(H, st)

LEMMA ErrorSpan == ASSUME NEW H, NEW st, Measured(H, st), compile_error \/ assert_failed PROVE DepthInv'
BY StopSpan DEF compile_error, assert_failed, DepthInv

\* The nodes in hand of a function that has consumed one token for its own.
LEMMA HandOwn ==
  ASSUME NEW U, NEW H, NEW st, Known(U, H, st), Own(Top.fn, Len(vals)) = 1
  PROVE  \E e \in Nat :
           /\ e + 1 = Since(st) /\ e + 1 = idx - st[Len(frames)]
           /\ \A p \in 1..Len(vals) : Wants(Top.fn, p) \in NodeKinds => vals[p] \in H[e]
<1>1. /\ Since(st) \in Nat /\ 1 <= Since(st)
      /\ \A p \in 1..Len(vals) : Wants(Top.fn, p) \in NodeKinds => vals[p] \in H[Since(st) - 1]
  BY Hand DEF Known
<1>2. PICK e : e = Since(st) - 1
  OBVIOUS
<1>3. e \in Nat /\ e + 1 = Since(st)
  BY <1>1, <1>2
<1> QED BY <1>1, <1>2, <1>3 DEF Since

LEMMA FirstOperandSpan == ASSUME NEW U, NEW H, NEW st, Known(U, H, st), FirstOperand PROVE DepthInv'
<1>1. PICK fn \in DOMAIN operand : In(fn, 0) /\ Call(idx, <<>>, operand[fn])
  BY DEF FirstOperand
<1>2. IInv /\ Measured(H, st) /\ idx \in Nat
  BY Hand DEF Known
<1>3. Top.fn = fn /\ vals = <<>> /\ Len(vals) = 0
  BY <1>1, <1>2, Here DEF In
<1>4. Own(fn, 1) = 0 /\ Own(fn, 0) = 0
  BY DEF operand, Own
<1>5. Len(vals) + 1 = 1 /\ idx + 0 - 0 <= idx
  BY <1>2, <1>3
<1>6. idx + Own(Top.fn, Len(vals) + 1) - Own(Top.fn, Len(vals)) <= idx
  BY <1>3, <1>4, <1>5
<1>7. Call(idx, vals, operand[fn])
  BY <1>1, <1>3
<1> QED BY <1>2, <1>6, <1>7, CallOnSpan

LEMMA ParseLevelSpan == ASSUME NEW U, NEW H, NEW st, Known(U, H, st), ParseLevel PROVE DepthInv'
<1>1. PICK fn \in DOMAIN binary_op :
        \/ In(fn, 1) /\ Call(idx + 1, <<vals[1], binary_op[fn][tok]>>, operand[fn])
        \/ In(fn, 1) /\ Return(idx, vals[1])
        \/ In(fn, 3) /\ Keep(idx, <<mk_binary_expr(vals[2], vals[1], vals[3])>>)
  BY DEF ParseLevel
<1>2. /\ Own(fn, 1) = 0 /\ Own(fn, 2) = 1 /\ Own(fn, 3) = 1 /\ fn # "parse_program"
      /\ Wants(fn, 1) = "expr" /\ Wants(fn, 2) = "binary" /\ Wants(fn, 3) = "expr"
      /\ Wants(fn, 1) \in NodeKinds /\ Wants(fn, 2) \notin NodeKinds /\ Wants(fn, 3) \in NodeKinds
  BY DEF Own, Wants, binary_op, NodeKinds
<1>3. Top.fn = fn /\ IInv /\ Measured(H, st) /\ Before(U)
  BY <1>1 DEF In, Known
<1>4. /\ st[Len(frames)] \in Nat /\ idx \in Nat /\ Since(st) \in Nat /\ Heights(H)
  BY <1>3, Hand
<1>5. CASE In(fn, 1) /\ Call(idx + 1, <<vals[1], binary_op[fn][tok]>>, operand[fn])
  <2> DEFINE vs == <<vals[1], binary_op[fn][tok]>>
  <2>1. IsSeq(vs) /\ Len(vs) = 2 /\ vs[1] = vals[1] /\ Len(vs) + 1 = 3
    BY Singles
  <2>2. vals[1] \in H[Since(st) - 0]
    BY <1>2, <1>3, <1>5, Hand DEF In
  <2>3. (idx + 1) - st[Len(frames)] - 1 = Since(st) - 0 /\ 1 <= (idx + 1) - st[Len(frames)]
    BY <1>4 DEF Since
  <2>4. Frame(Top.fn, vs).fn = Top.fn /\ Frame(Top.fn, vs).vals = vs
    BY DEF Frame
  <2> HIDE DEF vs
  <2>5. \A p \in 1..2 : p = 1 \/ p = 2
    OBVIOUS
  <2>6. Spent(H, Frame(Top.fn, vs), Len(vs) + 1, (idx + 1) - st[Len(frames)])
    BY <1>2, <1>3, <2>1, <2>2, <2>3, <2>4, <2>5 DEF Spent
  <2>7. idx + 1 \in Nat /\ Call(idx + 1, vs, operand[fn])
    BY <1>4, <1>5 DEF vs
  <2> QED BY <1>3, <2>1, <2>6, <2>7, CallSpan
<1>6. CASE In(fn, 1) /\ Return(idx, vals[1])
  <2>1. 1 \in 1..Len(vals) /\ idx \in Int /\ idx <= idx
    BY <1>4, <1>6 DEF In
  <2> QED BY <1>2, <1>3, <1>6, <2>1, ReturnOld
<1>7. CASE In(fn, 3) /\ Keep(idx, <<mk_binary_expr(vals[2], vals[1], vals[3])>>)
  <2>1. PICK e \in Nat :
          /\ e + 1 = idx - st[Len(frames)]
          /\ \A p \in 1..Len(vals) : Wants(Top.fn, p) \in NodeKinds => vals[p] \in H[e]
    BY <1>2, <1>3, <1>7, HandOwn DEF In
  <2>2. vals[1] \in H[e] /\ vals[3] \in H[e]
    BY <1>2, <1>3, <1>7, <2>1 DEF In
  <2> DEFINE n == mk_binary_expr(vals[2], vals[1], vals[3])
  <2>3. Range(Below(n)) \subseteq H[e] \cup {Null}
    BY <2>2, BelowMade
  <2>4. idx - st[Len(frames)] >= e + 1 /\ idx \in Int
    BY <1>4, <2>1
  <2> HIDE DEF n
  <2>5. Keep(idx, <<n>>)
    BY <1>7 DEF n
  <2> QED BY <1>2, <1>3, <2>3, <2>4, <2>5, KeepNode
<1> QED BY <1>1, <1>5, <1>6, <1>7

\* Returning a new node over nodes in hand, or over none.
LEMMA ReturnOver ==
  ASSUME NEW U, NEW H, NEW st, Known(U, H, st), Top.fn # "parse_program", Own(Top.fn, Len(vals)) = 1,
         NEW n, \A m \in Range(Below(n)) :
                  m = Null \/ \E p \in 1..Len(vals) : Wants(Top.fn, p) \in NodeKinds /\ m = vals[p],
         NEW k \in Int, idx <= k, Return(k, n)
  PROVE  DepthInv'
<1>1. IInv /\ Measured(H, st) /\ Before(U)
  BY DEF Known
<1>2. st[Len(frames)] \in Nat /\ idx \in Nat
  BY <1>1, Hand
<1>3. PICK e \in Nat :
        /\ e + 1 = idx - st[Len(frames)]
        /\ \A p \in 1..Len(vals) : Wants(Top.fn, p) \in NodeKinds => vals[p] \in H[e]
  BY HandOwn
<1>4. Range(Below(n)) \subseteq H[e] \cup {Null}
  BY <1>3
<1>5. k - st[Len(frames)] >= e + 1
  BY <1>2, <1>3
<1> QED BY <1>1, <1>4, <1>5, ReturnNew

LEMMA ReturnLeaf ==
  ASSUME NEW U, NEW H, NEW st, Known(U, H, st), Top.fn # "parse_program",
         NEW n, Range(Below(n)) \subseteq {Null}, NEW k \in Int, idx + 1 <= k, Return(k, n)
  PROVE  DepthInv'
<1>1. IInv /\ Measured(H, st) /\ Before(U)
  BY DEF Known
<1>2. st[Len(frames)] \in Nat /\ idx \in Nat /\ Since(st) \in Nat
  BY <1>1, Hand
<1>3. k - st[Len(frames)] >= 0 + 1 /\ idx <= k
  BY <1>2 DEF Since
<1>4. Range(Below(n)) \subseteq H[0] \cup {Null}
  OBVIOUS
<1> QED BY <1>1, <1>3, <1>4, ReturnNew

LEMMA ParseAssignExprSpan ==
  ASSUME NEW U, NEW H, NEW st, Known(U, H, st), ParseAssignExpr
  PROVE  DepthInv'
<1> DEFINE fn == "parse_assign_expr"
<1>1. /\ Own(fn, 1) = 0 /\ Own(fn, 2) = 1 /\ Wants(fn, 1) \in NodeKinds /\ Wants(fn, 2) \in NodeKinds
  BY DEF Own, Wants, binary_op, NodeKinds
<1>2. IInv /\ Measured(H, st) /\ Before(U) /\ idx \in Nat
  BY Hand DEF Known
<1>3. CASE In(fn, 1) /\ Call(idx + 1, vals, fn)
  <2>1. Len(vals) = 1 /\ Len(vals) + 1 = 2 /\ Top.fn = fn
    BY <1>3 DEF In
  <2>2. idx + Own(Top.fn, Len(vals) + 1) - Own(Top.fn, Len(vals)) <= idx + 1 /\ idx + 1 \in Nat
    BY <1>1, <1>2, <2>1
  <2> QED BY <1>2, <1>3, <2>2, CallOnSpan
<1>4. CASE In(fn, 1) /\ Return(idx, vals[1])
  <2>1. Top.fn = fn /\ 1 \in 1..Len(vals) /\ idx \in Int /\ idx <= idx
    BY <1>2, <1>4 DEF In
  <2> QED BY <1>1, <1>2, <1>4, <2>1, ReturnOld
<1>5. CASE In(fn, 2) /\ Return(idx, mk_assign_expr(vals[1], vals[2]))
  <2>1. Top.fn = fn /\ Len(vals) = 2 /\ idx \in Int /\ idx <= idx
    BY <1>2, <1>5 DEF In
  <2> DEFINE n == mk_assign_expr(vals[1], vals[2])
  <2>2. Range(Below(n)) = {vals[1], vals[2]}
    BY BelowMade
  <2> HIDE DEF n
  <2>3. \A m \in Range(Below(n)) :
          m = Null \/ \E p \in 1..Len(vals) : Wants(Top.fn, p) \in NodeKinds /\ m = vals[p]
    BY <1>1, <2>1, <2>2
  <2> QED BY <1>1, <1>5, <2>1, <2>3, ReturnOver DEF n
<1>6. CASE compile_error
  BY <1>2, <1>6, ErrorSpan
<1> QED BY <1>3, <1>4, <1>5, <1>6 DEF ParseAssignExpr

LEMMA ParseUnaryExprSpan ==
  ASSUME NEW U, NEW H, NEW st, Known(U, H, st), ParseUnaryExpr
  PROVE  DepthInv'
<1> DEFINE fn == "parse_unary_expr"
<1>1. Own(fn, 2) = 1 /\ Wants(fn, 1) \notin NodeKinds /\ Wants(fn, 2) \in NodeKinds
  BY DEF Own, Wants, binary_op, NodeKinds
<1>2. IInv /\ Measured(H, st) /\ Before(U) /\ idx \in Nat
  BY Hand DEF Known
<1>3. CASE In(fn, 0) /\ Call(idx + 1, <<unary_op[tok]>>, fn)
  <2> DEFINE vs == <<unary_op[tok]>>
  <2>1. IsSeq(vs) /\ \A p \in 1..Len(vs) : p = 1
    BY Singles
  <2> HIDE DEF vs
  <2>2. \A p \in 1..Len(vs) : Wants(Top.fn, p) \notin NodeKinds
    BY <1>1, <1>3, <2>1 DEF In
  <2>3. idx + 1 \in Nat /\ idx + 1 <= idx + 1 /\ Call(idx + 1, vs, fn)
    BY <1>2, <1>3 DEF vs
  <2> QED BY <1>2, <2>1, <2>2, <2>3, CallFlat
<1>4. CASE In(fn, 0) /\ Become("parse_postfix")
  BY <1>2, <1>4, BecomeSpan DEF In
<1>5. CASE In(fn, 2) /\ Return(idx, mk_unary_expr(vals[1], vals[2]))
  <2>1. Top.fn = fn /\ Len(vals) = 2 /\ idx \in Int /\ idx <= idx
    BY <1>2, <1>5 DEF In
  <2> DEFINE n == mk_unary_expr(vals[1], vals[2])
  <2>2. Range(Below(n)) = {vals[2]}
    BY BelowMade
  <2> HIDE DEF n
  <2>3. \A m \in Range(Below(n)) :
          m = Null \/ \E p \in 1..Len(vals) : Wants(Top.fn, p) \in NodeKinds /\ m = vals[p]
    BY <1>1, <2>1, <2>2
  <2> QED BY <1>1, <1>5, <2>1, <2>3, ReturnOver DEF n
<1> QED BY <1>3, <1>4, <1>5 DEF ParseUnaryExpr

LEMMA ParsePostfixSpan == ASSUME NEW U, NEW H, NEW st, Known(U, H, st), ParsePostfix PROVE DepthInv'
<1> DEFINE fn == "parse_postfix"
<1>1. /\ Own(fn, 1) = 0 /\ Own(fn, 2) = 1 /\ Wants(fn, 1) \in NodeKinds /\ Wants(fn, 2) \in NodeKinds
  BY DEF Own, Wants, binary_op, NodeKinds
<1>2. IInv /\ Measured(H, st) /\ Before(U) /\ idx \in Nat /\ st[Len(frames)] \in Nat
  BY Hand DEF Known
<1>3. CASE In(fn, 1) /\ Call(idx + 1, vals, parse_binary_expr)
  <2>1. Len(vals) = 1 /\ Len(vals) + 1 = 2 /\ Top.fn = fn
    BY <1>3 DEF In
  <2>2. idx + Own(Top.fn, Len(vals) + 1) - Own(Top.fn, Len(vals)) <= idx + 1 /\ idx + 1 \in Nat
    BY <1>1, <1>2, <2>1
  <2> QED BY <1>2, <1>3, <2>2, CallOnSpan
<1>4. CASE In(fn, 1) /\ Return(idx, vals[1])
  <2>1. Top.fn = fn /\ 1 \in 1..Len(vals) /\ idx \in Int /\ idx <= idx
    BY <1>2, <1>4 DEF In
  <2> QED BY <1>1, <1>2, <1>4, <2>1, ReturnOld
<1>5. CASE In(fn, 2) /\ Keep(idx + 1, <<mk_index_expr(vals[1], vals[2])>>)
  <2>1. PICK e \in Nat :
          /\ e + 1 = idx - st[Len(frames)]
          /\ \A p \in 1..Len(vals) : Wants(Top.fn, p) \in NodeKinds => vals[p] \in H[e]
    BY <1>1, <1>5, HandOwn DEF In
  <2>2. vals[1] \in H[e] /\ vals[2] \in H[e] /\ Top.fn = fn
    BY <1>1, <1>5, <2>1 DEF In
  <2> DEFINE n == mk_index_expr(vals[1], vals[2])
  <2>3. Range(Below(n)) \subseteq H[e] \cup {Null}
    BY <2>2, BelowMade
  <2>4. (idx + 1) - st[Len(frames)] >= e + 1 /\ idx + 1 \in Int
    BY <1>2, <2>1
  <2> HIDE DEF n
  <2>5. Keep(idx + 1, <<n>>)
    BY <1>5 DEF n
  <2> QED BY <1>1, <1>2, <2>2, <2>3, <2>4, <2>5, KeepNode
<1>6. CASE compile_error
  BY <1>2, <1>6, ErrorSpan
<1> QED BY <1>3, <1>4, <1>5, <1>6 DEF ParsePostfix

\* A call by a function that has nothing in hand.
LEMMA CallBare ==
  ASSUME NEW U, NEW H, NEW st, Known(U, H, st), In(Top.fn, 0), NEW k \in Nat, NEW fn,
         idx + Own(Top.fn, 1) <= k, Call(k, <<>>, fn)
  PROVE  DepthInv'
<1>1. IInv /\ Measured(H, st) /\ idx \in Nat
  BY Hand DEF Known
<1>2. vals = <<>> /\ Len(vals) = 0 /\ Len(vals) + 1 = 1
  BY <1>1, Here DEF In
<1>3. Own(Top.fn, 0) = 0 /\ Own(Top.fn, 1) \in {0, 1}
  BY OwnValues
<1>4. idx + Own(Top.fn, Len(vals) + 1) - Own(Top.fn, Len(vals)) <= k
  BY <1>1, <1>2, <1>3
<1>5. Call(k, vals, fn)
  BY <1>2
<1> QED BY <1>1, <1>4, <1>5, CallOnSpan

LEMMA ParsePrimarySpan == ASSUME NEW U, NEW H, NEW st, Known(U, H, st), ParsePrimary PROVE DepthInv'
<1> DEFINE fn == "parse_primary"
<1>1. Own(fn, 1) = 0 /\ Wants(fn, 1) \in NodeKinds
  BY DEF Own, Wants, binary_op, NodeKinds
<1>2. IInv /\ Measured(H, st) /\ Before(U) /\ idx \in Nat
  BY Hand DEF Known
<1>3. CASE In(fn, 0) /\ (Become("parse_cast_expr") \/ Become("parse_call_expr"))
  BY <1>2, <1>3, BecomeSpan DEF In
<1>4. CASE /\ In(fn, 0) /\ tok = "T_IDENTIFIER"
           /\ Return(idx + 1, parse_identifier_expr(idx).nodes[1])
  <2> DEFINE n == mk_identifer_expr(tokens[idx + 1].name)
  <2>1. parse_identifier_expr(idx).nodes = <<n>>
    BY <1>4 DEF parse_identifier_expr, Parsed, tok
  <2>2. Range(Below(n)) = {}
    BY BelowMade
  <2> HIDE DEF n
  <2>3. <<n>>[1] = n
    OBVIOUS
  <2>4. Return(idx + 1, n) /\ Top.fn # "parse_program" /\ idx + 1 \in Int /\ idx + 1 <= idx + 1
    BY <1>2, <1>4, <2>1, <2>3 DEF In
  <2> QED BY <2>2, <2>4, ReturnLeaf
<1>5. CASE In(fn, 0) /\ Return(idx + 1, mk_literal_expr(tokens[idx + 1].num))
  <2>1. Range(Below(mk_literal_expr(tokens[idx + 1].num))) = {}
    BY BelowMade
  <2>2. Top.fn # "parse_program" /\ idx + 1 \in Int /\ idx + 1 <= idx + 1
    BY <1>2, <1>5 DEF In
  <2> QED BY <1>5, <2>1, <2>2, ReturnLeaf
<1>6. CASE In(fn, 0) /\ Return(idx + 1, mk_string_literal)
  <2>1. Range(Below(mk_string_literal)) = {}
    BY BelowMade
  <2>2. Top.fn # "parse_program" /\ idx + 1 \in Int /\ idx + 1 <= idx + 1
    BY <1>2, <1>6 DEF In
  <2> QED BY <1>6, <2>1, <2>2, ReturnLeaf
<1>7. CASE In(fn, 0) /\ Call(idx + 1, <<>>, "parse_assign_expr")
  <2>1. Top.fn = fn /\ In(Top.fn, 0) /\ idx + 1 \in Nat /\ idx + Own(Top.fn, 1) <= idx + 1
    BY <1>1, <1>2, <1>7 DEF In
  <2> QED BY <1>7, <2>1, CallBare
<1>8. CASE In(fn, 1) /\ Return(idx + 1, vals[1])
  <2>1. Top.fn = fn /\ 1 \in 1..Len(vals) /\ idx + 1 \in Int /\ idx <= idx + 1
    BY <1>2, <1>8 DEF In
  <2> QED BY <1>1, <1>2, <1>8, <2>1, ReturnOld
<1>9. CASE compile_error
  BY <1>2, <1>9, ErrorSpan
<1> QED BY <1>3, <1>4, <1>5, <1>6, <1>7, <1>8, <1>9 DEF ParsePrimary

LEMMA ParseCastExprSpan == ASSUME NEW U, NEW H, NEW st, Known(U, H, st), ParseCastExpr PROVE DepthInv'
<1> DEFINE fn == "parse_cast_expr"
           type == parse_var_type(idx + 1)
<1>1. Own(fn, 2) = 1 /\ Wants(fn, 1) \notin NodeKinds /\ Wants(fn, 2) \in NodeKinds
  BY DEF Own, Wants, binary_op, NodeKinds
<1>2. IInv /\ Measured(H, st) /\ Before(U) /\ idx \in Nat
  BY Hand DEF Known
<1>3. CASE In(fn, 0) /\ type.nodes # <<>> /\ Call(type.idx + 1, type.nodes, "parse_primary")
  <2>1. InTokens(idx + 1) /\ tokens \in Inputs
    <3>1. fn \in DOMAIN FirstToken /\ FirstToken[fn] = "T_LEFT_PAREN"
      BY DEF FirstToken
    <3> QED BY <1>2, <1>3, <3>1, Here DEF In
  <2>2. type.idx \in Int /\ type.idx >= idx + 1
    <3>1. InTokens(type.idx)
      BY <2>1, VarType
    <3> QED BY <1>2, <2>1, <3>1, TypeOnwards, Lists DEF InTokens
  <2>3. PICK t : type.nodes = <<t>>
    BY <1>3, VarTypeNodes
  <2> DEFINE vs == <<t>>
  <2>4. IsSeq(vs) /\ \A p \in 1..Len(vs) : p = 1
    BY Singles
  <2> HIDE DEF vs, type
  <2>5. \A p \in 1..Len(vs) : Wants(Top.fn, p) \notin NodeKinds
    BY <1>1, <1>3, <2>4 DEF In
  <2>6. type.idx + 1 \in Nat /\ idx + 1 <= type.idx + 1 /\ Call(type.idx + 1, vs, "parse_primary")
    BY <1>2, <1>3, <2>2, <2>3 DEF vs
  <2> QED BY <1>2, <2>4, <2>5, <2>6, CallFlat
<1>4. CASE In(fn, 2) /\ Return(idx, mk_cast_expr(vals[1], vals[2]))
  <2>1. Top.fn = fn /\ Len(vals) = 2 /\ idx \in Int /\ idx <= idx
    BY <1>2, <1>4 DEF In
  <2> DEFINE n == mk_cast_expr(vals[1], vals[2])
  <2>2. Range(Below(n)) = {vals[2]}
    BY BelowMade
  <2> HIDE DEF n
  <2>3. \A m \in Range(Below(n)) :
          m = Null \/ \E p \in 1..Len(vals) : Wants(Top.fn, p) \in NodeKinds /\ m = vals[p]
    BY <1>1, <2>1, <2>2
  <2> QED BY <1>1, <1>4, <2>1, <2>3, ReturnOver DEF n
<1>5. CASE compile_error \/ assert_failed
  BY <1>2, <1>5, ErrorSpan
<1> QED BY <1>3, <1>4, <1>5 DEF ParseCastExpr

LEMMA NextArgSpan ==
  ASSUME NEW U, NEW H, NEW st, Known(U, H, st), Top.fn = "parse_call_expr",
         NEW vs, IsSeq(vs), Len(vs) > 0, NEW e \in Nat,
         \A p \in 1..Len(vs) : p # 1 => vs[p] \in H[e],
         NEW k \in Nat, idx <= k, k - st[Len(frames)] >= e + 1, NextArg(k, vs)
  PROVE  DepthInv'
<1> DEFINE fn == "parse_call_expr"
<1>1. /\ Wants(fn, 1) \notin NodeKinds
      /\ \A i : i >= 2 => Own(fn, i) = 1
  BY DEF Own, Wants, binary_op, NodeKinds
<1>2. IInv /\ Measured(H, st) /\ Before(U) /\ idx \in Nat /\ Heights(H) /\ st[Len(frames)] \in Nat
  BY Hand DEF Known
<1>3. Len(vs) \in Nat /\ vs # <<>>
  BY LenNat
<1>4. CASE Return(k + 1, CallOn(vs))
  <2> DEFINE args == Tail(vs)
             n == mk_call_expr(vs[1], args)
  <2>1. PICK S : vs \in Seq(S)
    BY DEF IsSeq
  <2>2. args \in Seq(S) /\ Len(args) = Len(vs) - 1 /\ \A i \in 1..Len(args) : args[i] = vs[i + 1]
    BY <1>3, <2>1
  <2>3. IsSeq(args)
    BY <2>2 DEF IsSeq
  <2>4. Range(Below(n)) = Range(args)
    BY BelowMade
  <2>5. n = CallOn(vs)
    BY DEF CallOn
  <2> HIDE DEF args, n
  <2>6. ASSUME NEW i \in 1..Len(args) PROVE args[i] \in H[e]
    <3>1. i + 1 \in 1..Len(vs) /\ i + 1 # 1
      BY <1>3, <2>2
    <3> QED BY <2>2, <3>1
  <2>7. args \in Seq(H[e])
    BY <2>3, <2>6, SeqInto
  <2>8. Range(Below(n)) \subseteq H[e] \cup {Null}
    BY <2>4, <2>7, RangeIn
  <2>9. k + 1 \in Int /\ idx <= k + 1 /\ (k + 1) - st[Len(frames)] >= e + 1 /\ Return(k + 1, n)
    BY <1>2, <1>4, <2>5
  <2> QED BY <1>2, <2>8, <2>9, ReturnNew
<1>5. CASE Call(k, vs, parse_binary_expr)
  <2>1. Frame(fn, vs).fn = fn /\ Frame(fn, vs).vals = vs
    BY DEF Frame
  <2>2. Own(fn, Len(vs) + 1) = 1
    BY <1>1, <1>3
  <2>3. PICK d : d = k - st[Len(frames)]
    OBVIOUS
  <2>4. 1 <= d /\ d - 1 \in Nat /\ e <= d - 1
    BY <1>2, <2>3
  <2>5. H[e] \subseteq H[d - 1]
    BY <1>2, <2>4, Rises
  <2>6. ASSUME NEW p \in 1..Len(vs), Wants(fn, p) \in NodeKinds PROVE vs[p] \in H[d - 1]
    BY <1>1, <2>5, <2>6
  <2>7. Spent(H, Frame(fn, vs), Len(vs) + 1, d)
    BY <2>1, <2>2, <2>4, <2>6 DEF Spent
  <2> QED BY <1>2, <1>5, <2>3, <2>7, CallSpan
<1> QED BY <1>4, <1>5 DEF NextArg

LEMMA ParseCallExprSpan == ASSUME NEW U, NEW H, NEW st, Known(U, H, st), ParseCallExpr PROVE DepthInv'
<1> DEFINE fn == "parse_call_expr"
           ident == parse_identifier_expr(idx + 1)
<1>1. (\A i : i >= 2 => Own(fn, i) = 1) /\ (\A i : i # 1 => Wants(fn, i) \in NodeKinds)
  BY DEF Own, Wants, binary_op, NodeKinds
<1>2. /\ IInv /\ Measured(H, st) /\ Before(U) /\ idx \in Nat /\ Heights(H)
      /\ st[Len(frames)] \in Nat /\ Since(st) \in Nat
  BY Hand DEF Known
<1>3. CASE In(fn, 0) /\ ident.nodes # <<>> /\ NextArg(ident.idx + 1, ident.nodes)
  <2>1. InTokens(idx + 1) /\ tokens \in Inputs
    <3>1. fn \in DOMAIN FirstToken /\ FirstToken[fn] = "T_CALL"
      BY DEF FirstToken
    <3> QED BY <1>2, <1>3, <3>1, Here DEF In
  <2>2. ident.nodes = <<ident.nodes[1]>>
    BY <1>3, <2>1, IdentifierExpr
  <2>3. ident.idx = idx + 1 + 1
    BY <1>2, <1>3, IdentOnwards
  <2> HIDE DEF ident
  <2>4. PICK a : ident.nodes = <<a>>
    BY <2>2
  <2> DEFINE vs == <<a>>
  <2>5. IsSeq(vs) /\ Len(vs) > 0 /\ \A p \in 1..Len(vs) : p = 1
    BY Singles
  <2> HIDE DEF vs
  <2>6. \A p \in 1..Len(vs) : p # 1 => vs[p] \in H[0]
    BY <2>5
  <2>7. PICK k \in Nat : k = ident.idx + 1
    BY <1>2, <2>3
  <2>8. idx <= k /\ k - st[Len(frames)] >= 0 + 1
    BY <1>2, <2>3, <2>7 DEF Since
  <2>9. NextArg(k, vs) /\ Top.fn = fn
    BY <1>3, <2>4, <2>7 DEF vs, In
  <2> QED BY <2>5, <2>6, <2>8, <2>9, NextArgSpan
<1>4. CASE Top.fn = fn /\ Len(vals) > 1 /\ (NextArg(idx + 1, vals) \/ Return(idx + 1, CallOn(vals)))
  <2>1. IsSeq(vals) /\ Len(vals) > 0 /\ Len(vals) >= 2 /\ Len(vals) \in Nat
    BY <1>2, <1>4, Here
  <2>2. PICK e \in Nat :
          /\ e + 1 = idx - st[Len(frames)]
          /\ \A p \in 1..Len(vals) : Wants(Top.fn, p) \in NodeKinds => vals[p] \in H[e]
    BY <1>1, <1>4, <2>1, HandOwn
  <2>3. \A p \in 1..Len(vals) : p # 1 => vals[p] \in H[e]
    BY <1>1, <1>4, <2>2
  <2>4. CASE NextArg(idx + 1, vals)
    <3>1. idx + 1 \in Nat /\ idx <= idx + 1 /\ (idx + 1) - st[Len(frames)] >= e + 1
      BY <1>2, <2>2
    <3> QED BY <1>4, <2>1, <2>3, <2>4, <3>1, NextArgSpan
  <2>5. CASE Return(idx + 1, CallOn(vals))
    <3> DEFINE args == Tail(vals)
               n == mk_call_expr(vals[1], args)
    <3>1. PICK S : vals \in Seq(S)
      BY <2>1 DEF IsSeq
    <3>2. args \in Seq(S) /\ Len(args) = Len(vals) - 1 /\ \A i \in 1..Len(args) : args[i] = vals[i + 1]
      BY <2>1, <3>1
    <3>3. IsSeq(args)
      BY <3>2 DEF IsSeq
    <3>4. Range(Below(n)) = Range(args)
      BY BelowMade
    <3>5. n = CallOn(vals)
      BY DEF CallOn
    <3> HIDE DEF args, n
    <3>6. ASSUME NEW i \in 1..Len(args) PROVE args[i] \in H[e]
      <4>1. i + 1 \in 1..Len(vals) /\ i + 1 # 1
        BY <2>1, <3>2
      <4> QED BY <2>3, <3>2, <4>1
    <3>7. args \in Seq(H[e])
      BY <3>3, <3>6, SeqInto
    <3>8. Range(Below(n)) \subseteq H[e] \cup {Null}
      BY <3>4, <3>7, RangeIn
    <3>9. idx + 1 \in Int /\ idx <= idx + 1 /\ (idx + 1) - st[Len(frames)] >= e + 1 /\ Return(idx + 1, n)
      BY <1>2, <2>2, <2>5, <3>5
    <3> QED BY <1>2, <1>4, <3>8, <3>9, ReturnNew
  <2> QED BY <1>4, <2>4, <2>5
<1>5. CASE compile_error
  BY <1>2, <1>5, ErrorSpan
<1> QED BY <1>3, <1>4, <1>5 DEF ParseCallExpr

\* A call with all that is in hand, for whose sake a token may have been consumed.
LEMMA CallHeld ==
  ASSUME NEW U, NEW H, NEW st, Known(U, H, st), NEW k \in Nat, idx <= k, NEW fn,
         Own(Top.fn, Len(vals) + 1) = Own(Top.fn, Len(vals)) \/ idx + 1 <= k, Call(k, vals, fn)
  PROVE  DepthInv'
<1>1. /\ IInv /\ Measured(H, st) /\ idx \in Nat
  BY Hand DEF Known
<1>2. Own(Top.fn, Len(vals)) \in {0, 1} /\ Own(Top.fn, Len(vals) + 1) \in {0, 1}
  BY OwnValues
<1>3. idx + Own(Top.fn, Len(vals) + 1) - Own(Top.fn, Len(vals)) <= k
  BY <1>1, <1>2
<1> QED BY <1>1, <1>3, CallOnSpan

LEMMA BlockSpan ==
  ASSUME NEW U, NEW H, NEW st, Known(U, H, st), NEW k \in Nat, idx <= k, parse_block_stmt(k, vals)
  PROVE  DepthInv'
<1>1. IInv /\ Measured(H, st) /\ idx \in Nat
  BY Hand DEF Known
<1>2. CASE Call(k + 1, vals, "parse_block_stmt")
  <2>1. k + 1 \in Nat /\ idx <= k + 1 /\ idx + 1 <= k + 1
    BY <1>1
  <2> QED BY <1>2, <2>1, CallHeld
<1>3. CASE assert_failed
  BY <1>1, <1>3, ErrorSpan
<1> QED BY <1>2, <1>3 DEF parse_block_stmt

LEMMA ParseBlockStmtSpan == ASSUME NEW U, NEW H, NEW st, Known(U, H, st), ParseBlockStmt PROVE DepthInv'
<1> DEFINE fn == "parse_block_stmt"
<1>1. \A i : Own(fn, i) = 0 /\ Wants(fn, i) \in NodeKinds
  BY DEF Own, Wants, binary_op, NodeKinds
<1>2. /\ IInv /\ Measured(H, st) /\ Before(U) /\ idx \in Nat /\ Since(st) \in Nat
      /\ st[Len(frames)] \in Nat /\ Top.fn = fn
  BY Hand DEF Known, ParseBlockStmt
<1>3. CASE Return(idx + 1, mk_block_stmt(vals))
  <2> DEFINE n == mk_block_stmt(vals)
  <2>1. PICK d \in Nat : d = Since(st) /\ Since(st) - 0 = d
    BY <1>2
  <2>2. \A p \in 1..Len(vals) : vals[p] \in H[d]
    BY <1>1, <1>2, <2>1, Hand
  <2>3. vals \in Seq(H[d])
    BY <1>2, <2>2, Here, SeqInto
  <2>4. Range(Below(n)) \subseteq H[d] \cup {Null}
    BY <2>3, BelowMade, RangeIn
  <2>5. idx + 1 \in Int /\ idx <= idx + 1 /\ (idx + 1) - st[Len(frames)] >= d + 1
    BY <1>2, <2>1 DEF Since
  <2> HIDE DEF n
  <2>6. Return(idx + 1, n)
    BY <1>3 DEF n
  <2> QED BY <1>2, <2>4, <2>5, <2>6, ReturnNew
<1>4. CASE Call(idx, vals, "parse_var_decl") \/ Call(idx, vals, "parse_statment")
  <2>1. idx <= idx
    BY <1>2
  <2> QED BY <1>1, <1>2, <1>4, <2>1, CallHeld
<1>5. CASE Keep(idx + 1, Append(vals, mk_comment_stmt))
  BY <1>1, <1>2, <1>5, BelowMade, KeepMore
<1> QED BY <1>3, <1>4, <1>5 DEF ParseBlockStmt

LEMMA ParseStatmentSpan == ASSUME NEW U, NEW H, NEW st, Known(U, H, st), ParseStatment PROVE DepthInv'
<1> DEFINE fn == "parse_statment"
<1>1. Own(fn, 1) = 0 /\ Wants(fn, 1) \in NodeKinds
  BY DEF Own, Wants, binary_op, NodeKinds
<1>2. IInv /\ Measured(H, st) /\ Before(U) /\ idx \in Nat
  BY Hand DEF Known
<1>3. CASE In(fn, 0) /\ Become("parse_if_stmt")
  BY <1>2, <1>3, BecomeSpan DEF In
<1>4. CASE In(fn, 0) /\ (Call(idx, <<>>, "parse_return_stmt") \/ ParseExpr)
  <2>1. PICK k, g : Call(k, <<>>, g) /\ (k = idx \/ k = idx + 1)
    BY <1>4 DEF ParseExpr
  <2>2. Top.fn = fn /\ In(Top.fn, 0)
    BY <1>4 DEF In
  <2>3. k \in Nat /\ idx + Own(Top.fn, 1) <= k
    BY <1>1, <1>2, <2>1, <2>2
  <2> QED BY <2>1, <2>2, <2>3, CallBare
<1>5. CASE In(fn, 1) /\ EndStatment
  <2>1. CASE Return(idx + 1, vals[1])
    <3>1. Top.fn = fn /\ 1 \in 1..Len(vals) /\ idx + 1 \in Int /\ idx <= idx + 1
      BY <1>2, <1>5 DEF In
    <3> QED BY <1>1, <1>2, <2>1, <3>1, ReturnOld
  <2>2. CASE compile_error
    BY <1>2, <2>2, ErrorSpan
  <2> QED BY <1>5, <2>1, <2>2 DEF EndStatment
<1> QED BY <1>3, <1>4, <1>5 DEF ParseStatment

LEMMA ParseReturnStmtSpan ==
  ASSUME NEW U, NEW H, NEW st, Known(U, H, st), ParseReturnStmt
  PROVE  DepthInv'
<1> DEFINE fn == "parse_return_stmt"
<1>1. Own(fn, 1) = 1 /\ Wants(fn, 1) \in NodeKinds
  BY DEF Own, Wants, binary_op, NodeKinds
<1>2. IInv /\ Measured(H, st) /\ Before(U) /\ idx \in Nat
  BY Hand DEF Known
<1>3. CASE In(fn, 0) /\ Call(idx + 1, <<>>, "parse_assign_expr")
  <2>1. Top.fn = fn /\ In(Top.fn, 0) /\ idx + 1 \in Nat /\ idx + Own(Top.fn, 1) <= idx + 1
    BY <1>1, <1>2, <1>3 DEF In
  <2> QED BY <1>3, <2>1, CallBare
<1>4. CASE In(fn, 1) /\ Return(idx, mk_return_stmt(vals[1]))
  <2>1. Top.fn = fn /\ Len(vals) = 1 /\ idx \in Int /\ idx <= idx
    BY <1>2, <1>4 DEF In
  <2> DEFINE n == mk_return_stmt(vals[1])
  <2>2. Range(Below(n)) = {vals[1]}
    BY BelowMade
  <2> HIDE DEF n
  <2>3. \A m \in Range(Below(n)) :
          m = Null \/ \E p \in 1..Len(vals) : Wants(Top.fn, p) \in NodeKinds /\ m = vals[p]
    BY <1>1, <2>1, <2>2
  <2> QED BY <1>1, <1>4, <2>1, <2>3, ReturnOver DEF n
<1> QED BY <1>3, <1>4 DEF ParseReturnStmt

LEMMA ParseIfStmtSpan == ASSUME NEW U, NEW H, NEW st, Known(U, H, st), ParseIfStmt PROVE DepthInv'
<1> DEFINE fn == "parse_if_stmt"
<1>1. (\A i : i >= 1 => Own(fn, i) = 1) /\ \A i : Wants(fn, i) \in NodeKinds
  BY DEF Own, Wants, binary_op, NodeKinds
<1>2. IInv /\ Measured(H, st) /\ Before(U) /\ idx \in Nat
  BY Hand DEF Known
<1>3. CASE In(fn, 0) /\ Call(idx + 2, <<>>, parse_binary_expr)
  <2>1. Top.fn = fn /\ In(Top.fn, 0) /\ idx + 2 \in Nat /\ idx + Own(Top.fn, 1) <= idx + 2
    BY <1>1, <1>2, <1>3 DEF In
  <2> QED BY <1>3, <2>1, CallBare
<1>4. CASE parse_block_stmt(idx + 1, vals)
  <2>1. idx + 1 \in Nat /\ idx <= idx + 1
    BY <1>2
  <2> QED BY <1>4, <2>1, BlockSpan
<1>5. ASSUME NEW e, (In(fn, 2) /\ e = Null) \/ (In(fn, 3) /\ e = vals[3]),
             Return(idx, mk_if_stmt(vals[1], vals[2], e))
      PROVE  DepthInv'
  <2>1. /\ Top.fn = fn
        /\ (Len(vals) = 2 /\ e = Null) \/ (Len(vals) = 3 /\ e = vals[3])
        /\ idx \in Int /\ idx <= idx /\ Own(Top.fn, Len(vals)) = 1
    BY <1>1, <1>2, <1>5 DEF In
  <2> DEFINE n == mk_if_stmt(vals[1], vals[2], e)
  <2>2. Range(Below(n)) = {vals[1], vals[2], e}
    BY BelowMade
  <2> HIDE DEF n
  <2>3. \A m \in Range(Below(n)) :
          m = Null \/ \E p \in 1..Len(vals) : Wants(Top.fn, p) \in NodeKinds /\ m = vals[p]
    BY <1>1, <2>1, <2>2
  <2>4. Return(idx, n)
    BY <1>5 DEF n
  <2> QED BY <2>1, <2>3, <2>4, ReturnOver
<1>6. CASE compile_error
  BY <1>2, <1>6, ErrorSpan
<1>7. CASE In(fn, 2) /\ Return(idx, mk_if_stmt(vals[1], vals[2], Null))
  <2>1. PICK e : e = Null
    OBVIOUS
  <2> QED BY <1>5, <1>7, <2>1
<1>8. CASE In(fn, 3) /\ Return(idx, mk_if_stmt(vals[1], vals[2], vals[3]))
  <2>1. PICK e : e = vals[3]
    OBVIOUS
  <2> QED BY <1>5, <1>8, <2>1
<1> QED BY <1>3, <1>4, <1>6, <1>7, <1>8 DEF ParseIfStmt
\* A type and an identifier are no nodes of the tree.
LEMMA TypedSpan ==
  ASSUME NEW U, NEW H, NEW st, Known(U, H, st), In(Top.fn, 0), Top.fn \in DOMAIN FirstToken,
         FirstToken[Top.fn] # "T_EOF"
  PROVE  /\ TypedIdent(idx + 1).idx \in Int /\ TypedIdent(idx + 1).idx >= idx + 1
         /\ TypedIdent(idx + 1).nodes # <<>> => \E t, a : TypedIdent(idx + 1).nodes = <<t, a>>
<1>1. IInv /\ idx \in Int /\ tokens \in Inputs
  BY Here DEF Known
<1>2. InTokens(idx + 1)
  BY <1>1, Here DEF In
<1>3. TypedIdent(idx + 1).idx >= idx + 1
  BY <1>1, <1>2, TypedOnwards
<1>4. InTokens(TypedIdent(idx + 1).idx)
  BY <1>1, <1>2, TypedIdents
<1>5. TypedIdent(idx + 1).idx \in Int
  BY <1>1, <1>4, Lists DEF InTokens
<1>6. TypedIdent(idx + 1).nodes # <<>> => \E t, a : TypedIdent(idx + 1).nodes = <<t, a>>
  BY <1>1, <1>2, TypedNodes
<1> QED BY <1>3, <1>5, <1>6

LEMMA TypedCall ==
  ASSUME NEW U, NEW H, NEW st, Known(U, H, st), NEW t, NEW a, NEW k \in Int, k >= idx + 1, NEW fn,
         Wants(Top.fn, 1) \notin NodeKinds, Wants(Top.fn, 2) \notin NodeKinds, Call(k, <<t, a>>, fn)
  PROVE  DepthInv'
<1>1. IInv /\ Measured(H, st) /\ idx \in Nat
  BY Hand DEF Known
<1> DEFINE vs == <<t, a>>
<1>2. IsSeq(vs) /\ \A p \in 1..Len(vs) : p = 1 \/ p = 2
  BY Singles
<1> HIDE DEF vs
<1>3. \A p \in 1..Len(vs) : Wants(Top.fn, p) \notin NodeKinds
  BY <1>2
<1>4. k \in Nat /\ idx + 1 <= k /\ Call(k, vs, fn)
  BY <1>1 DEF vs
<1> QED BY <1>1, <1>2, <1>3, <1>4, CallFlat

LEMMA ParseVarDeclSpan == ASSUME NEW U, NEW H, NEW st, Known(U, H, st), ParseVarDecl PROVE DepthInv'
<1> DEFINE fn == "parse_var_decl"
           decl == TypedIdent(idx + 1)
<1>1. /\ Own(fn, 3) = 1 /\ Wants(fn, 3) \in NodeKinds
      /\ Wants(fn, 1) \notin NodeKinds /\ Wants(fn, 2) \notin NodeKinds
      /\ fn \in DOMAIN FirstToken /\ FirstToken[fn] # "T_EOF"
  BY DEF Own, Wants, binary_op, NodeKinds, FirstToken
<1>2. IInv /\ Measured(H, st) /\ Before(U) /\ idx \in Nat
  BY Hand DEF Known
<1>3. ASSUME In(fn, 0)
      PROVE  /\ decl.idx \in Int /\ decl.idx >= idx + 1
             /\ decl.nodes # <<>> => \E t, a : decl.nodes = <<t, a>>
  <2>1. Top.fn = fn /\ In(Top.fn, 0)
    BY <1>3 DEF In
  <2> QED BY <1>1, <2>1, TypedSpan
<1>4. CASE In(fn, 0) /\ decl.nodes # <<>> /\ Call(decl.idx + 1, decl.nodes, parse_binary_expr)
  <2>1. PICK t, a : decl.nodes = <<t, a>>
    BY <1>3, <1>4
  <2> HIDE DEF decl
  <2>2. decl.idx + 1 \in Int /\ decl.idx + 1 >= idx + 1 /\ Call(decl.idx + 1, <<t, a>>, parse_binary_expr)
    BY <1>2, <1>3, <1>4, <2>1
  <2> QED BY <1>1, <1>4, <2>2, TypedCall DEF In
<1>5. CASE In(fn, 0) /\ Return(decl.idx + 1, mk_var_decl(decl.nodes[2], decl.nodes[1], Null))
  <2> DEFINE n == mk_var_decl(decl.nodes[2], decl.nodes[1], Null)
  <2>1. Range(Below(n)) = {Null}
    BY BelowMade
  <2> HIDE DEF n, decl
  <2>2. decl.idx + 1 \in Int /\ idx + 1 <= decl.idx + 1 /\ Return(decl.idx + 1, n)
    BY <1>2, <1>3, <1>5 DEF n
  <2> QED BY <1>5, <2>1, <2>2, ReturnLeaf DEF In
<1>6. CASE In(fn, 3) /\ Return(idx + 1, mk_var_decl(vals[2], vals[1], vals[3]))
  <2>1. Top.fn = fn /\ Len(vals) = 3 /\ idx + 1 \in Int /\ idx <= idx + 1
    BY <1>2, <1>6 DEF In
  <2> DEFINE n == mk_var_decl(vals[2], vals[1], vals[3])
  <2>2. Range(Below(n)) = {vals[3]}
    BY BelowMade
  <2> HIDE DEF n
  <2>3. \A m \in Range(Below(n)) :
          m = Null \/ \E p \in 1..Len(vals) : Wants(Top.fn, p) \in NodeKinds /\ m = vals[p]
    BY <1>1, <2>1, <2>2
  <2> QED BY <1>1, <1>6, <2>1, <2>3, ReturnOver DEF n
<1>7. CASE compile_error
  BY <1>2, <1>7, ErrorSpan
<1> QED BY <1>4, <1>5, <1>6, <1>7 DEF ParseVarDecl

LEMMA ParseAllFuncParamsSpan ==
  ASSUME NEW U, NEW H, NEW st, Known(U, H, st), ParseAllFuncParams
  PROVE  DepthInv'
<1> DEFINE fn == "parse_all_func_params"
           param == TypedIdent(idx)
           added == Append(vals, mk_func_param(param.nodes[2], param.nodes[1]))
<1>1. \A i : Own(fn, i) = 0 /\ Wants(fn, i) \notin NodeKinds /\ Gives(fn) \notin NodeKinds
  BY DEF Own, Wants, Gives, binary_op, NodeKinds
<1>2. IInv /\ Measured(H, st) /\ Before(U) /\ idx \in Nat /\ Top.fn = fn
  BY Hand DEF Known, ParseAllFuncParams
<1>3. param.idx \in Int /\ param.idx >= idx
  <2>1. tokens \in Inputs /\ InTokens(idx)
    BY <1>2, Here
  <2>2. InTokens(param.idx)
    BY <2>1, TypedIdents
  <2> QED BY <2>1, <2>2, TypedOnwards, Lists DEF InTokens
<1>4. CASE Return(idx + 1, vals)
  <2>1. idx + 1 \in Int /\ idx <= idx + 1
    BY <1>2
  <2> QED BY <1>1, <1>2, <1>4, <2>1, ReturnFlat
<1>5. CASE Keep(param.idx + 1, added) \/ Keep(param.idx, added)
  <2> HIDE DEF param, added
  <2>1. PICK k \in Int : idx <= k /\ Keep(k, added)
    BY <1>2, <1>3, <1>5
  <2> QED BY <1>1, <1>2, <2>1, KeepFlat
<1>6. CASE compile_error
  BY <1>2, <1>6, ErrorSpan
<1> QED BY <1>4, <1>5, <1>6 DEF ParseAllFuncParams

LEMMA ParseFuncDeclSpan == ASSUME NEW U, NEW H, NEW st, Known(U, H, st), ParseFuncDecl PROVE DepthInv'
<1> DEFINE fn == "parse_func_decl"
           decl == TypedIdent(idx + 1)
<1>1. /\ Own(fn, 4) = 1 /\ Wants(fn, 4) \in NodeKinds
      /\ Wants(fn, 1) \notin NodeKinds /\ Wants(fn, 2) \notin NodeKinds
      /\ fn \in DOMAIN FirstToken /\ FirstToken[fn] # "T_EOF"
  BY DEF Own, Wants, binary_op, NodeKinds, FirstToken
<1>2. IInv /\ Measured(H, st) /\ Before(U) /\ idx \in Nat
  BY Hand DEF Known
<1>3. CASE In(fn, 0) /\ decl.nodes # <<>> /\ Call(decl.idx + 1, decl.nodes, "parse_all_func_params")
  <2>1. Top.fn = fn /\ In(Top.fn, 0)
    BY <1>3 DEF In
  <2>2. decl.idx \in Int /\ decl.idx >= idx + 1 /\ \E t, a : decl.nodes = <<t, a>>
    BY <1>1, <1>3, <2>1, TypedSpan
  <2> HIDE DEF decl
  <2>3. PICK t, a : decl.nodes = <<t, a>>
    BY <2>2
  <2>4. decl.idx + 1 \in Int /\ decl.idx + 1 >= idx + 1 /\ Call(decl.idx + 1, <<t, a>>, "parse_all_func_params")
    BY <1>2, <1>3, <2>2, <2>3
  <2> QED BY <1>1, <2>1, <2>4, TypedCall
<1>4. CASE parse_block_stmt(idx, vals)
  <2>1. idx <= idx
    BY <1>2
  <2> QED BY <1>2, <1>4, <2>1, BlockSpan
<1>5. CASE In(fn, 4) /\ Return(idx, mk_func_decl(mk_func_t(vals[1], vals[3], vals[2]), vals[4]))
  <2>1. Top.fn = fn /\ Len(vals) = 4 /\ idx \in Int /\ idx <= idx
    BY <1>2, <1>5 DEF In
  <2> DEFINE n == mk_func_decl(mk_func_t(vals[1], vals[3], vals[2]), vals[4])
  <2>2. Range(Below(n)) = {vals[4]}
    BY BelowMade
  <2> HIDE DEF n
  <2>3. \A m \in Range(Below(n)) :
          m = Null \/ \E p \in 1..Len(vals) : Wants(Top.fn, p) \in NodeKinds /\ m = vals[p]
    BY <1>1, <2>1, <2>2
  <2> QED BY <1>1, <1>5, <2>1, <2>3, ReturnOver DEF n
<1>6. CASE compile_error
  BY <1>2, <1>6, ErrorSpan
<1> QED BY <1>3, <1>4, <1>5, <1>6 DEF ParseFuncDecl

LEMMA ParseProgramSpan == ASSUME NEW U, NEW H, NEW st, Known(U, H, st), ParseProgram PROVE DepthInv'
<1> DEFINE fn == "parse_program"
<1>1. \A i : Own(fn, i) = 0
  BY DEF Own, binary_op
<1>2. IInv /\ Measured(H, st) /\ Before(U) /\ idx \in Nat /\ Top.fn = fn /\ DepthInv
  BY Hand DEF Known, ParseProgram, DepthInv
<1>3. CASE Stop("done")
  BY <1>2, <1>3, StopSpan
<1>4. CASE Call(idx, vals, "parse_func_decl") \/ Call(idx, vals, "parse_var_decl")
  <2>1. idx <= idx
    BY <1>2
  <2> QED BY <1>1, <1>2, <1>4, <2>1, CallHeld
<1>5. CASE Keep(idx + 1, Append(vals, mk_comment_stmt))
  BY <1>1, <1>2, <1>5, BelowMade, KeepMore
<1>6. CASE compile_error
  BY <1>2, <1>6, ErrorSpan
<1> QED BY <1>3, <1>4, <1>5, <1>6 DEF ParseProgram

LEMMA DepthStarts == Init => DepthInv
<1> SUFFICES ASSUME Init PROVE DepthInv
  OBVIOUS
<1> DEFINE H == [d \in Nat |-> {}]
           st == [j \in Nat |-> 0]
<1>1. Heights(H)
  <2>1. H[0] = {} /\ \A d \in Nat : H[d] = {} /\ H[d + 1] = {}
    OBVIOUS
  <2> HIDE DEF H
  <2> QED BY <2>1 DEF Heights
<1>2. st \in [Nat -> Nat] /\ st[1] = 0
  OBVIOUS
<1> HIDE DEF H, st
<1>3. frames = <<Frame("parse_program", <<>>)>> /\ idx = 0
  BY DEF Init
<1>4. /\ Len(frames) = 1 /\ frames[1].vals = <<>> /\ frames[1].fn = "parse_program"
      /\ 1..Len(frames) - 1 = {}
  BY <1>3 DEF Frame
<1>5. Own("parse_program", 0) = 0 /\ Len(<<>>) = 0 /\ idx - st[1] = 0 /\ 1..0 = {}
  BY <1>2, <1>3, OwnValues
<1>6. Spans(H, st, frames, idx)
  BY <1>4, <1>5 DEF Spans, Spent
<1> QED BY <1>1, <1>2, <1>6 DEF DepthInv, Measured

LEMMA DepthInductive == IInv /\ TreeInv /\ DepthInv /\ [Next]_vars => DepthInv'
<1> SUFFICES ASSUME IInv, TreeInv, DepthInv, [Next]_vars PROVE DepthInv'
  OBVIOUS
<1> PICK U : Before(U)
  BY DEF TreeInv, Before
<1> PICK H, st : Known(U, H, st)
  BY DEF DepthInv, Known
<1>1. CASE ParseExpression
  BY <1>1, FirstOperandSpan, ParseLevelSpan, ParseAssignExprSpan, ParseUnaryExprSpan, ParsePostfixSpan,
     ParsePrimarySpan, ParseCastExprSpan, ParseCallExprSpan DEF ParseExpression
<1>2. CASE ParseStmt
  BY <1>2, ParseBlockStmtSpan, ParseStatmentSpan, ParseReturnStmtSpan, ParseIfStmtSpan, ParseVarDeclSpan
     DEF ParseStmt
<1>3. CASE ParseAllFuncParams \/ ParseFuncDecl \/ ParseProgram
  BY <1>3, ParseAllFuncParamsSpan, ParseFuncDeclSpan, ParseProgramSpan
<1>4. CASE UNCHANGED vars
  BY <1>4, SameSpan DEF vars
<1> QED BY <1>1, <1>2, <1>3, <1>4 DEF Next, Parse, Terminated

\* The nodes d steps below the program nest less deeply, by d.
LEMMA Bounded == IInv /\ TreeInv /\ DepthInv => NestingBounded
<1> SUFFICES ASSUME IInv, TreeInv, DepthInv, phase = "done" PROVE Level[Len(tokens) - 1] = {}
  BY DEF NestingBounded
<1> PICK U : Before(U)
  BY DEF TreeInv, Before
<1> PICK H, st : Measured(H, st)
  BY DEF DepthInv
<1>1. PICK L \in Nat : L = Len(tokens) - 1 /\ tokens \in Inputs
  <2>1. tokens \in Inputs /\ Len(tokens) - 1 \in Nat
    BY Lists DEF IInv
  <2> QED BY <2>1
<1>2. Len(frames) = 1 /\ tok = "T_EOF"
  BY DEF IInv
<1>3. Top.fn = "parse_program"
  BY <1>2, Here DEF IsStack
<1>4. idx = L
  BY <1>1, <1>2, Here, Lists DEF InTokens, tok
<1>5. Since(st) = L /\ Heights(H)
  BY <1>1, <1>2, <1>4 DEF Since, Measured
<1>6. /\ Own("parse_program", Len(vals)) = 0 /\ L - 0 = L
      /\ \A p : Wants("parse_program", p) = "top" /\ "top" \in NodeKinds
  BY <1>1 DEF Own, Wants, binary_op, NodeKinds
<1>7. \A p \in 1..Len(vals) : vals[p] \in H[L]
  BY <1>3, <1>5, <1>6, Hand
<1>8. Range(program) \subseteq H[L]
  <2>1. vals \in Seq(H[L])
    BY <1>7, Here, SeqInto
  <2> QED BY <2>1, RangeIn DEF program
<1>9. Range(program) \subseteq U
  <2>1. \A p \in 1..Len(vals) : Fits(U, Names, "top", vals[p])
    BY <1>3, <1>6, HandHolds
  <2>2. vals \in Seq(U)
    BY <2>1, Here, SeqInto DEF Fits
  <2> QED BY <2>2, RangeIn DEF program
<1>10. \A d \in 0..L : Level[d] = IF d = 0 THEN Range(program) ELSE Step(Level[d - 1])
  <2>1. \A d \in 0..L : d \in 0..Len(tokens) + 2
    BY <1>1, Lists
  <2> QED BY <1>1, <1>9, <2>1, LevelIn DEF Before
<1> DEFINE Bad == {d \in 0..L : ~(Level[d] \subseteq H[L - d])}
<1>11. Bad = {}
  <2> SUFFICES ASSUME Bad # {} PROVE FALSE
    OBVIOUS
  <2>1. Bad \subseteq Nat
    OBVIOUS
  <2>2. PICK d \in Bad : \A e \in Bad : d <= e
    BY <2>1, Least
  <2>3. d \in 0..L /\ ~(Level[d] \subseteq H[L - d])
    OBVIOUS
  <2>4. d # 0
    BY <1>8, <1>10, <2>3
  <2>5. PICK e \in Nat : e = L - d /\ e + 1 = L - (d - 1)
    BY <2>3
  <2>6. d - 1 \in 0..L /\ ~(d <= d - 1)
    BY <2>3, <2>4
  <2>7. Level[d - 1] \subseteq H[e + 1]
    BY <2>2, <2>5, <2>6
  <2>8. Step(Level[d - 1]) \subseteq H[e]
    BY <1>5, <2>7 DEF Step, Heights
  <2> QED BY <1>10, <2>3, <2>4, <2>5, <2>8
<1>12. L \in 0..L /\ L - L = 0
  BY <1>1
<1>13. Level[L] \subseteq H[0]
  BY <1>11, <1>12
<1> QED BY <1>1, <1>5, <1>13 DEF Heights

(***************************************************************************)
(* However a source is nested, no node is deeper below the program than    *)
(* there are tokens: each construct takes a token of its own before it     *)
(* recurses, so that the recursion over the tree, in the generator, in the *)
(* printer and in free, comes to an end.                                   *)
(***************************************************************************)
THEOREM NodesOwnTokens == Spec => []NestingBounded
<1> QED BY Starts, Inductive, TreeStarts, TreeInductive, DepthStarts, DepthInductive, Bounded, PTL DEF Spec

-----------------------------------------------------------------------------
(* What is demanded of a function                                          *)
(*                                                                         *)
(* The check is a recursion over the statements of a block.  What follows  *)
(* says of it, in terms of the sets it comes to, that it answers as it     *)
(* should; the length of the list of tokens, L, is as deep as it goes.     *)

Deeper(W) == UNION {{n} \cup Inner(n) : n \in W}

NestedTo(L, block) ==
  CHOOSE within : within = [d \in 0..L |-> IF d = 0 THEN {block} ELSE Deeper(within[d - 1])]
ReachedTo(L, block) == NestedTo(L, block)[L]

Returned(stmts, W) == {n \in stmts : stmt_has_ret(n, W)}

ReturningTo(L, stmts) ==
  CHOOSE returning :
    returning = [d \in 0..L |-> IF d = 0 THEN {}
                                ELSE UNION {{n \in stmts : stmt_has_ret(n, known)} :
                                              known \in {returning[d - 1]}}]
HasRet(L, block) == block \in ReturningTo(L, ReachedTo(L, block))[L]
Falls(L, block) == \E S \in SUBSET ReachedTo(L, block) : Passes(block, S)

LEMMA AsDefined ==
  /\ \A b : block_has_ret(b) <=> HasRet(Len(tokens), b)
  /\ \A b : FallsThrough(b) <=> Falls(Len(tokens), b)
  /\ \A b : block_has_ret(b)' <=> HasRet(Len(tokens'), b)
<1> USE DEF HasRet, ReturningTo, Returning, ReachedTo, Reached, NestedTo, Nested, Deeper
<1>1. ASSUME NEW b PROVE block_has_ret(b) <=> HasRet(Len(tokens), b)
  BY DEF block_has_ret
<1>2. ASSUME NEW b PROVE FallsThrough(b) <=> Falls(Len(tokens), b)
  BY DEF FallsThrough, Falls
<1>3. ASSUME NEW b PROVE block_has_ret(b)' <=> HasRet(Len(tokens'), b)
  BY DEF block_has_ret
<1> QED BY <1>1, <1>2, <1>3

LEMMA InnerIn ==
  ASSUME NEW U, Universe(U, Names), NEW n \in U
  PROVE  Inner(n) \subseteq U /\ Inner(n) \subseteq Range(Below(n)) \ {Null}
<1>1. Shape(U, Names)!WellFormed(n)
  BY DEF Universe
<1>2. CASE n.type = "AST_BLOCK"
  <2>1. Inner(n) = Range(n.nodes) /\ Below(n) = n.nodes
    BY <1>2 DEF Inner, Below
  <2>2. Shape(U, Names)!Subs(n) = n.nodes
    BY <1>2 DEF Shape!Subs
  <2>3. n.nodes \in Seq(U)
    BY <1>1, <2>2 DEF Shape!WellFormed
  <2>4. Range(n.nodes) \subseteq U
    BY <2>3, RangeIn
  <2> QED BY <2>1, <2>4, NotNull
<1>3. CASE n.type = "AST_IF"
  <2>1. Inner(n) = {n.then_branch, n.else_branch} \ {Null} /\ Below(n) = <<n.cond, n.then_branch, n.else_branch>>
    BY <1>3 DEF Inner, Below
  <2>2. n.then_branch \in U /\ (n.else_branch \in U \/ n.else_branch = Null)
    BY <1>1, <1>3, Types DEF Shape!WellFormed, Shape!IsBlock
  <2>3. Range(Below(n)) = {n.cond, n.then_branch, n.else_branch}
    BY <2>1, RangeOf
  <2> QED BY <2>1, <2>2, <2>3
<1>4. CASE n.type \notin {"AST_BLOCK", "AST_IF"}
  BY <1>4 DEF Inner
<1> QED BY <1>2, <1>3, <1>4

LEMMA DeeperIn ==
  ASSUME NEW U, Universe(U, Names), NEW W, W \subseteq U
  PROVE  Deeper(W) \subseteq U /\ W \subseteq Deeper(W)
BY InnerIn DEF Deeper

LEMMA NestedIn ==
  ASSUME NEW U, Universe(U, Names), NEW L \in Nat, NEW b \in U
  PROVE  \A d \in 0..L :
           /\ NestedTo(L, b)[d] = IF d = 0 THEN {b} ELSE Deeper(NestedTo(L, b)[d - 1])
           /\ NestedTo(L, b)[d] \subseteq U
<1> DEFINE S == SUBSET U
           F == [k \in 1..L |-> [W \in S |-> Deeper(W)]]
<1>1. F \in [1..L -> [S -> S]] /\ {b} \in S
  BY DeeperIn
<1>2. \A k \in 1..L : \A W \in S : F[k][W] = Deeper(W)
  OBVIOUS
<1> HIDE DEF S, F
<1>3. PICK f \in [0..L -> S] : f[0] = {b} /\ \A k \in 1..L : f[k] = F[k][f[k - 1]]
  <2>1. Iterates(S, L, F, {b})
    BY <1>1, Iteration
  <2> QED
    BY <2>1 DEF Iterates
<1>4. ASSUME NEW d \in 0..L PROVE f[d] = IF d = 0 THEN {b} ELSE Deeper(f[d - 1])
  <2>1. CASE d = 0
    BY <1>3, <2>1
  <2>2. CASE d # 0
    <3>1. d \in 1..L /\ d - 1 \in 0..L
      BY <2>2
    <3>2. f[d - 1] \in S
      BY <1>3, <3>1
    <3> QED BY <1>2, <1>3, <2>2, <3>1, <3>2
  <2> QED BY <2>1, <2>2
<1> DEFINE G(w) == [d \in 0..L |-> IF d = 0 THEN {b} ELSE Deeper(w[d - 1])]
<1>5. f = G(f)
  BY <1>3, <1>4
<1>6. NestedTo(L, b) = CHOOSE w : w = G(w)
  BY DEF NestedTo
<1>7. NestedTo(L, b) = G(NestedTo(L, b))
  <2> HIDE DEF G
  <2> QED BY <1>5, <1>6
<1> DEFINE w == NestedTo(L, b)
<1> HIDE DEF w
<1>8. w = G(w)
  BY <1>7 DEF w
<1>9. \A d \in 0..L : w[d] = IF d = 0 THEN {b} ELSE Deeper(w[d - 1])
  BY <1>8
<1> DEFINE Bad == {d \in 0..L : ~(w[d] \subseteq U)}
<1>10. Bad = {}
  <2> HIDE DEF G
  <2> SUFFICES ASSUME Bad # {} PROVE FALSE
    OBVIOUS
  <2>1. Bad \subseteq Nat
    OBVIOUS
  <2>2. PICK d \in Bad : \A e \in Bad : d <= e
    BY <2>1, Least
  <2>3. d \in 0..L /\ ~(w[d] \subseteq U)
    OBVIOUS
  <2>4. d # 0
    BY <1>9, <2>3
  <2>5. d - 1 \in 0..L /\ ~(d <= d - 1)
    BY <2>3, <2>4
  <2>6. w[d - 1] \subseteq U
    BY <2>2, <2>5
  <2> QED BY <1>9, <2>3, <2>4, <2>6, DeeperIn
<1> QED BY <1>9, <1>10 DEF w

LEMMA ReturningIn ==
  ASSUME NEW L \in Nat, NEW R
  PROVE  /\ ReturningTo(L, R)[0] = {}
         /\ \A d \in 1..L : ReturningTo(L, R)[d] = Returned(R, ReturningTo(L, R)[d - 1])
<1> DEFINE S == SUBSET R
           F == [k \in 1..L |-> [W \in S |-> Returned(R, W)]]
<1>1. F \in [1..L -> [S -> S]] /\ {} \in S
  BY DEF Returned
<1>2. \A k \in 1..L : \A W \in S : F[k][W] = Returned(R, W)
  OBVIOUS
<1> HIDE DEF S, F
<1>3. PICK f \in [0..L -> S] : f[0] = {} /\ \A k \in 1..L : f[k] = F[k][f[k - 1]]
  <2>1. Iterates(S, L, F, {})
    BY <1>1, Iteration
  <2> QED
    BY <2>1 DEF Iterates
<1>4. ASSUME NEW d \in 0..L PROVE f[d] = IF d = 0 THEN {} ELSE Returned(R, f[d - 1])
  <2>1. CASE d = 0
    BY <1>3, <2>1
  <2>2. CASE d # 0
    <3>1. d \in 1..L /\ d - 1 \in 0..L
      BY <2>2
    <3>2. f[d - 1] \in S
      BY <1>3, <3>1
    <3> QED BY <1>2, <1>3, <2>2, <3>1, <3>2
  <2> QED BY <2>1, <2>2
<1>5. ASSUME NEW W PROVE UNION {{n \in R : stmt_has_ret(n, known)} : known \in {W}} = Returned(R, W)
  BY DEF Returned
<1> DEFINE G(w) == [d \in 0..L |-> IF d = 0 THEN {}
                                   ELSE UNION {{n \in R : stmt_has_ret(n, known)} : known \in {w[d - 1]}}]
<1>6. f = G(f)
  BY <1>3, <1>4, <1>5
<1>7. ReturningTo(L, R) = CHOOSE w : w = G(w)
  BY DEF ReturningTo
<1>8. ReturningTo(L, R) = G(ReturningTo(L, R))
  <2> HIDE DEF G
  <2> QED BY <1>6, <1>7
<1> DEFINE w == ReturningTo(L, R)
<1> HIDE DEF w
<1>9. w = G(w)
  BY <1>8 DEF w
<1>10. \A d \in 0..L : w[d] = IF d = 0 THEN {} ELSE Returned(R, w[d - 1])
  BY <1>5, <1>9
<1>11. 0 \in 0..L /\ \A d \in 1..L : d \in 0..L /\ d # 0
  OBVIOUS
<1> HIDE DEF G
<1> QED BY <1>10, <1>11 DEF w

\* What is found in the depth of a block that nests at most L deep.
LEMMA ReachedClosed ==
  ASSUME NEW U, Universe(U, Names), NEW H, Heights(H), NEW L \in Nat, NEW b \in U, b \in H[L]
  PROVE  /\ b \in ReachedTo(L, b) /\ ReachedTo(L, b) \subseteq U \cap H[L]
         /\ \A n \in ReachedTo(L, b) : Inner(n) \subseteq ReachedTo(L, b)
<1> DEFINE w == NestedTo(L, b)
<1>0. \A d \in 0..L : /\ w[d] = IF d = 0 THEN {b} ELSE Deeper(w[d - 1])
                     /\ w[d] \subseteq U
  BY NestedIn, Zenon
<1> HIDE DEF w
<1>1. \A d \in 0..L : w[d] \subseteq U /\ w[d] = IF d = 0 THEN {b} ELSE Deeper(w[d - 1])
  BY <1>0, Zenon
<1>2. w[0] = {b} /\ \A d \in 1..L : d - 1 \in 0..L /\ w[d] = Deeper(w[d - 1]) /\ w[d - 1] \subseteq w[d]
  <2>1. \A d \in 1..L : d \in 0..L /\ d - 1 \in 0..L /\ d # 0
    OBVIOUS
  <2>2. 0 \in 0..L
    OBVIOUS
  <2> QED BY <1>1, <2>1, <2>2, DeeperIn
<1>3. L # 0
  BY DEF Heights
<1>4. ASSUME NEW n \in U, NEW d \in Nat, n \in H[d + 1] PROVE Inner(n) \subseteq H[d]
  BY <1>4, InnerIn DEF Heights
<1> DEFINE New(d, n) == (d # 0 /\ n \in w[d - 1]) \/ n \in H[L - d]
           Bad == {d \in 0..L : \E n \in w[d] : ~New(d, n)}
<1>5. Bad = {}
  <2> SUFFICES ASSUME Bad # {} PROVE FALSE
    OBVIOUS
  <2>1. Bad \subseteq Nat
    OBVIOUS
  <2>2. PICK d \in Bad : \A e \in Bad : d <= e
    BY <2>1, Least
  <2>3. PICK n \in w[d] : ~New(d, n)
    OBVIOUS
  <2>4. d \in 0..L
    OBVIOUS
  <2>5. d # 0
    <3>1. d = 0 => n = b /\ L - d = L
      BY <1>2, <2>3, <2>4
    <3> QED BY <2>3, <3>1
  <2>6. d \in 1..L /\ d - 1 \in 0..L /\ ~(d <= d - 1)
    BY <2>4, <2>5
  <2>7. d - 1 \notin Bad
    BY <2>2, <2>6
  <2>8. PICK m \in w[d - 1] : n \in {m} \cup Inner(m)
    BY <1>2, <2>6 DEF Deeper
  <2>9. New(d - 1, m)
    BY <2>6, <2>7
  <2>10. n # m
    BY <2>3, <2>5, <2>8
  <2>11. CASE d - 1 # 0 /\ m \in w[d - 1 - 1]
    <3>1. d - 1 \in 1..L
      BY <2>6, <2>11
    <3>2. n \in Deeper(w[d - 1 - 1])
      BY <2>8, <2>11 DEF Deeper
    <3>3. n \in w[d - 1]
      BY <1>2, <3>1, <3>2
    <3> QED BY <2>3, <2>5, <3>3
  <2>12. CASE m \in H[L - (d - 1)]
    <3>1. PICK e \in Nat : e = L - d /\ e + 1 = L - (d - 1)
      BY <2>4
    <3>2. m \in U /\ m \in H[e + 1]
      BY <1>1, <2>6, <2>12, <3>1
    <3>3. n \in H[e]
      BY <1>4, <2>8, <2>10, <3>2
    <3> QED BY <2>3, <3>1, <3>3
  <2> QED BY <2>9, <2>11, <2>12
<1>6. L \in 0..L /\ L - L = 0 /\ H[0] = {} /\ L \in 1..L
  BY <1>3 DEF Heights
<1>7. w[L] \subseteq w[L - 1]
  <2> SUFFICES ASSUME NEW n \in w[L] PROVE n \in w[L - 1]
    OBVIOUS
  <2>1. New(L, n)
    BY <1>5, <1>6
  <2> QED BY <1>6, <2>1
<1>8. \A n \in w[L] : Inner(n) \subseteq w[L]
  <2>1. w[L] = Deeper(w[L - 1])
    BY <1>2, <1>6
  <2> QED BY <1>7, <2>1 DEF Deeper
<1> DEFINE Out == {d \in 0..L : ~(b \in w[d] /\ w[d] \subseteq H[L])}
<1>9. Out = {}
  <2> SUFFICES ASSUME Out # {} PROVE FALSE
    OBVIOUS
  <2>1. Out \subseteq Nat
    OBVIOUS
  <2>2. PICK d \in Out : \A e \in Out : d <= e
    BY <2>1, Least
  <2>3. d \in 0..L /\ ~(b \in w[d] /\ w[d] \subseteq H[L])
    OBVIOUS
  <2>4. d # 0
    BY <1>2, <2>3
  <2>5. d \in 1..L /\ d - 1 \in 0..L /\ ~(d <= d - 1)
    BY <2>3, <2>4
  <2>6. b \in w[d - 1] /\ w[d - 1] \subseteq H[L] /\ w[d - 1] \subseteq U
    BY <1>1, <2>2, <2>5
  <2>7. \A n \in w[d - 1] : Inner(n) \subseteq H[L]
    <3>1. PICK e \in Nat : e + 1 = L /\ e <= L
      BY <1>3
    <3>2. H[e] \subseteq H[L]
      BY <3>1, Rises
    <3> QED BY <1>4, <2>6, <3>1, <3>2
  <2>8. w[d] \subseteq H[L] /\ b \in w[d]
    BY <1>2, <2>5, <2>6, <2>7 DEF Deeper
  <2> QED BY <2>3, <2>8
<1>10. b \in w[L] /\ w[L] \subseteq H[L] /\ w[L] \subseteq U
  BY <1>1, <1>6, <1>9
<1> QED BY <1>8, <1>10 DEF ReachedTo, w

\* A block that returns is not passed through,
LEMMA NoWayThrough ==
  ASSUME NEW L \in Nat, NEW b, HasRet(L, b)
  PROVE  ~Falls(L, b)
<1> SUFFICES ASSUME NEW S, Passes(b, S) PROVE FALSE
  BY DEF Falls
<1> DEFINE R == ReachedTo(L, b)
           r == ReturningTo(L, R)
<1>1. r[0] = {} /\ \A d \in 1..L : r[d] = Returned(R, r[d - 1])
  BY ReturningIn
<1>2. b \in r[L]
  BY DEF HasRet
<1> HIDE DEF r, R
<1> DEFINE Bad == {d \in 0..L : r[d] \cap S # {}}
<1>3. L \in Bad
  BY <1>2 DEF Passes
<1>4. PICK d \in Bad : \A e \in Bad : d <= e
  <2>1. Bad \subseteq Nat /\ Bad # {}
    BY <1>3
  <2> HIDE DEF Bad
  <2> QED BY <2>1, Least
<1>5. PICK n \in r[d] : n \in S
  OBVIOUS
<1>6. d \in 1..L /\ d - 1 \in 0..L /\ ~(d <= d - 1)
  BY <1>1
<1>7. r[d - 1] \cap S = {}
  BY <1>4, <1>6
<1>8. stmt_has_ret(n, r[d - 1])
  BY <1>1, <1>5, <1>6 DEF Returned
<1> HIDE DEF Bad
<1> QED BY <1>5, <1>7, <1>8 DEF Passes, stmt_has_ret

\* and one that does not is, by the statements found that do not return.
LEMMA WayThrough ==
  ASSUME NEW U, Universe(U, Names), NEW H, Heights(H), NEW L \in Nat, NEW b \in U, b \in H[L],
         ~HasRet(L, b)
  PROVE  Falls(L, b)
<1> DEFINE R == ReachedTo(L, b)
           r == ReturningTo(L, R)
<1>1. r[0] = {} /\ \A d \in 1..L : r[d] = Returned(R, r[d - 1])
  BY ReturningIn
<1>2. b \in R /\ R \subseteq U \cap H[L] /\ \A n \in R : Inner(n) \subseteq R
  BY ReachedClosed
<1>3. b \notin r[L]
  BY DEF HasRet
<1> HIDE DEF r, R
<1>4. PICK k \in Nat : k + 1 = L /\ L - 1 = k
  BY <1>2 DEF Heights
<1>5. ASSUME NEW n \in U, NEW d \in Nat, n \in H[d + 1] PROVE Inner(n) \subseteq H[d]
  BY <1>5, InnerIn DEF Heights
<1>6. ASSUME NEW n, NEW V, NEW W, stmt_has_ret(n, V), Inner(n) \cap V \subseteq W PROVE stmt_has_ret(n, W)
  BY <1>6 DEF stmt_has_ret
<1> DEFINE Late(j) == \E d \in 0..L : \E n \in r[d] : n \in H[j] /\ n \notin r[j]
           Bad == {j \in 0..L : Late(j)}
<1>7. Bad = {}
  <2> SUFFICES ASSUME Bad # {} PROVE FALSE
    OBVIOUS
  <2>1. Bad \subseteq Nat
    OBVIOUS
  <2>2. PICK j \in Bad : \A e \in Bad : j <= e
    BY <2>1, Least
  <2>12. PICK d \in 0..L : \E n \in r[d] : n \in H[j] /\ n \notin r[j]
    OBVIOUS
  <2>3. PICK n \in r[d] : n \in H[j] /\ n \notin r[j]
    BY <2>12
  <2>4. j \in 1..L /\ j - 1 \in 0..L /\ ~(j <= j - 1) /\ d \in 1..L /\ d - 1 \in 0..L
    <3>1. j # 0 /\ d # 0
      BY <1>1, <2>3 DEF Heights
    <3> QED BY <2>3, <3>1
  <2>5. n \in R /\ stmt_has_ret(n, r[d - 1])
    BY <1>1, <2>3, <2>4 DEF Returned
  <2>6. PICK i \in Nat : i = j - 1 /\ j = i + 1
    BY <2>4
  <2>7. Inner(n) \subseteq H[j - 1]
    BY <1>2, <1>5, <2>3, <2>5, <2>6
  <2>8. ~Late(j - 1)
    BY <2>2, <2>4
  <2>9. Inner(n) \cap r[d - 1] \subseteq r[j - 1]
    BY <2>4, <2>7, <2>8
  <2>10. stmt_has_ret(n, r[j - 1])
    BY <1>6, <2>5, <2>9
  <2>11. n \in r[j]
    BY <1>1, <2>4, <2>5, <2>10 DEF Returned
  <2> QED BY <2>3, <2>11
<1>8. ASSUME NEW n \in R, stmt_has_ret(n, r[L]) PROVE n \in r[L]
  <2>1. Inner(n) \subseteq H[k]
    BY <1>2, <1>4, <1>5
  <2>2. k \in 0..L /\ L \in 0..L /\ L \in 1..L
    BY <1>4
  <2>3. ~Late(k)
    BY <1>7, <2>2
  <2>4. Inner(n) \cap r[L] \subseteq r[k]
    BY <2>1, <2>2, <2>3
  <2>5. stmt_has_ret(n, r[k])
    BY <1>6, <1>8, <2>4
  <2> QED BY <1>1, <1>4, <2>2, <2>5 DEF Returned
<1> DEFINE S == R \ r[L]
<1>9. b \in S
  BY <1>2, <1>3
<1>10. ASSUME NEW n \in S
       PROVE  /\ n.type # "AST_RETURN"
              /\ n.type = "AST_BLOCK" => Inner(n) \subseteq S
              /\ n.type = "AST_IF" => Inner(n) \cap S # {}
  <2>1. ~stmt_has_ret(n, r[L])
    BY <1>8
  <2>2. Inner(n) \subseteq R
    BY <1>2
  <2> QED BY <2>1, <2>2 DEF stmt_has_ret
<1> HIDE DEF S
<1>11. Passes(b, S)
  BY <1>9, <1>10 DEF Passes
<1>12. S \subseteq R
  BY DEF S
<1> QED BY <1>11, <1>12 DEF Falls, R

-----------------------------------------------------------------------------
(* What the parser demands *)

\* The functions read so far return, and the one refused does not.
AllReturn ==
  \A i \in 1..Len(frames[1].vals) :
    frames[1].vals[i].type = "AST_FUNC_DECL" => HasRet(Len(tokens), frames[1].vals[i].block)
Refused ==
  phase = "error" /\ Top.fn = "parse_func_decl" /\ Len(vals) = 4 => ~HasRet(Len(tokens), vals[4])

\* How any step ends.
Moves ==
  \/ \E k, vs : Keep(k, vs)
  \/ \E k, vs, fn : Call(k, vs, fn)
  \/ \E fn : Become(fn)
  \/ \E k, val : Return(k, val)
  \/ \E end : Stop(end)

LEMMA EachMoves == ASSUME Parse PROVE Moves /\ tokens' = tokens
<1> USE DEF Moves
<1>1. Parse => Moves
  <2>1. FirstOperand \/ ParseLevel => Moves
    BY DEF FirstOperand, ParseLevel
  <2>2. ParseAssignExpr \/ ParseUnaryExpr \/ ParsePostfix => Moves
    BY DEF ParseAssignExpr, ParseUnaryExpr, ParsePostfix, compile_error
  <2>3. ParsePrimary \/ ParseCastExpr => Moves
    BY DEF ParsePrimary, ParseCastExpr, compile_error, assert_failed
  <2>4. ParseCallExpr => Moves
    BY DEF ParseCallExpr, NextArg, compile_error
  <2>5. ParseBlockStmt \/ ParseStatment \/ ParseReturnStmt => Moves
    BY DEF ParseBlockStmt, ParseStatment, ParseExpr, EndStatment, ParseReturnStmt, compile_error
  <2>6. ParseIfStmt \/ ParseVarDecl => Moves
    BY DEF ParseIfStmt, ParseVarDecl, parse_block_stmt, compile_error, assert_failed
  <2>7. ParseAllFuncParams \/ ParseFuncDecl \/ ParseProgram => Moves
    BY DEF ParseAllFuncParams, ParseFuncDecl, ParseProgram, parse_block_stmt, compile_error, assert_failed
  <2> QED BY <2>1, <2>2, <2>3, <2>4, <2>5, <2>6, <2>7 DEF Parse, ParseExpression, ParseStmt
<1>2. Moves => tokens' = tokens
  BY DEF Keep, Call, Become, Return, Stop
<1> QED BY <1>1, <1>2

\* Whose step it is.
LEMMA WhoMoves ==
  ASSUME Parse
  PROVE  /\ phase = "parse"
         /\ Top.fn = "parse_program" => ParseProgram
         /\ Top.fn = "parse_func_decl" => ParseFuncDecl
         /\ Top.fn = "parse_var_decl" => ParseVarDecl
<1> DEFINE fns == {"parse_program", "parse_func_decl", "parse_var_decl"}
<1> USE DEF In
<1>1. FirstOperand \/ ParseLevel => phase = "parse" /\ Top.fn \notin fns
  BY DEF FirstOperand, ParseLevel, operand, binary_op
<1>2. ParseAssignExpr \/ ParseUnaryExpr \/ ParsePostfix => phase = "parse" /\ Top.fn \notin fns
  BY DEF ParseAssignExpr, ParseUnaryExpr, ParsePostfix
<1>3. ParsePrimary \/ ParseCastExpr \/ ParseCallExpr => phase = "parse" /\ Top.fn \notin fns
  BY DEF ParsePrimary, ParseCastExpr, ParseCallExpr
<1>4. ParseBlockStmt \/ ParseStatment \/ ParseReturnStmt => phase = "parse" /\ Top.fn \notin fns
  BY DEF ParseBlockStmt, ParseStatment, ParseReturnStmt
<1>5. ParseIfStmt \/ ParseAllFuncParams => phase = "parse" /\ Top.fn \notin fns
  BY DEF ParseIfStmt, ParseAllFuncParams
<1>6. /\ ParseProgram => phase = "parse" /\ Top.fn = "parse_program"
      /\ ParseFuncDecl => phase = "parse" /\ Top.fn = "parse_func_decl"
      /\ ParseVarDecl => phase = "parse" /\ Top.fn = "parse_var_decl"
  BY DEF ParseProgram, ParseFuncDecl, ParseVarDecl
<1> QED BY <1>1, <1>2, <1>3, <1>4, <1>5, <1>6 DEF Parse, ParseExpression, ParseStmt

\* The frames below the top one, of two or more.
LEMMA PopSome ==
  ASSUME NEW fs, IsStack(fs), Len(fs) > 1
  PROVE  IsStack(Front(fs)) /\ Len(Front(fs)) = Len(fs) - 1 /\ Front(fs)[1] = fs[1]
<1>1. IsSeq(fs) /\ Len(fs) \in Nat /\ Len(fs) > 0
  BY LenNat DEF IsStack
<1>2. fs[Len(fs)].fn # "parse_program"
  <2>1. Len(fs) \in 1..Len(fs) /\ Len(fs) # 1
    BY <1>1
  <2> QED BY <2>1 DEF IsStack
<1>3. 1 \in 1..Len(fs) - 1
  BY <1>1
<1> QED BY <1>1, <1>2, <1>3, PopFrame, Fronts

\* The frame at the bottom is left alone, but by what returns to it.
LEMMA BottomStays ==
  ASSUME IInv, Len(frames) > 1, Moves
  PROVE  frames'[1] = frames[1] \/ (Len(frames) = 2 /\ \E k, val : Return(k, val))
<1>1. IsStack(frames) /\ IsSeq(frames) /\ Len(frames) \in Nat
  BY Here, LenNat DEF IsStack
<1>2. 1 \in 1..Len(frames) - 1
  BY <1>1
<1>3. ASSUME NEW vs
      PROVE  LET gs == [frames EXCEPT ![Len(frames)].vals = vs]
             IN IsSeq(gs) /\ Len(gs) = Len(frames) /\ gs[1] = frames[1]
  <2>1. Len(frames) \in 1..Len(frames)
    BY <1>1
  <2> DEFINE gs == [frames EXCEPT ![Len(frames)].vals = vs]
  <2>2. Len(gs) = Len(frames) /\ \A j \in 1..Len(frames) - 1 : gs[j] = frames[j]
    BY <1>1, SetBelow
  <2>3. IsSeq(gs)
    <3>1. PICK S : frames \in Seq(S)
      BY <1>1 DEF IsSeq
    <3> DEFINE v == [frames[Len(frames)] EXCEPT !.vals = vs]
    <3>2. gs = [frames EXCEPT ![Len(frames)] = v]
      OBVIOUS
    <3> HIDE DEF v
    <3>3. gs \in Seq(S \cup {v})
      BY <2>1, <3>1, <3>2
    <3> QED BY <3>3 DEF IsSeq
  <2> QED BY <1>2, <2>2, <2>3
<1>4. ASSUME NEW hs, IsSeq(hs), Len(hs) >= 1, NEW fr PROVE Append(hs, fr)[1] = hs[1]
  <2>1. 1 \in 1..Len(hs)
    BY <1>4, LenNat
  <2> QED BY <1>4, <2>1, Appending
<1>5. CASE \E k, vs : Keep(k, vs)
  BY <1>3, <1>5 DEF Keep
<1>6. CASE \E k, vs, fn : Call(k, vs, fn)
  <2>1. PICK vs, fn : frames' = Append([frames EXCEPT ![Len(frames)].vals = vs], Frame(fn, <<>>))
    BY <1>6 DEF Call
  <2> DEFINE gs == [frames EXCEPT ![Len(frames)].vals = vs]
  <2>2. IsSeq(gs) /\ Len(gs) = Len(frames) /\ gs[1] = frames[1]
    BY <1>3
  <2>3. frames' = Append(gs, Frame(fn, <<>>))
    BY <2>1
  <2> HIDE DEF gs
  <2> QED BY <1>1, <1>4, <2>2, <2>3
<1> DEFINE hs == Front(frames)
<1>7. /\ IsStack(hs) /\ IsSeq(hs) /\ Len(hs) = Len(frames) - 1
      /\ hs[1] = frames[1]
  BY <1>1, PopSome DEF IsStack
<1> HIDE DEF hs
<1>8. CASE \E fn : Become(fn)
  <2>1. PICK fn : frames' = Append(hs, Frame(fn, <<>>))
    BY <1>8 DEF Become, hs
  <2>2. Len(hs) >= 1
    BY <1>1, <1>7
  <2> QED BY <1>4, <1>7, <2>1, <2>2
<1>9. CASE (\E k, val : Return(k, val)) /\ Len(frames) # 2
  <2>1. PICK k, val : Return(k, val)
    BY <1>9
  <2>2. frames' = [hs EXCEPT ![Len(hs)].vals = Append(hs[Len(hs)].vals, val)]
    BY <1>7, <2>1 DEF Return, hs
  <2>3. 1 \in 1..Len(hs) - 1
    BY <1>1, <1>7, <1>9
  <2>4. PICK vs : vs = Append(hs[Len(hs)].vals, val)
    OBVIOUS
  <2> QED BY <1>7, <2>2, <2>3, <2>4, SetBelow
<1>10. CASE \E end : Stop(end)
  BY <1>10 DEF Stop
<1> QED BY <1>5, <1>6, <1>8, <1>9, <1>10 DEF Moves

\* A step that leaves the bottom frame alone is no return to it.
LEMMA StepEnds ==
  ASSUME IInv, Len(frames) = 2, frames'[1] # frames[1]
  PROVE  ~(\E end : Stop(end)) /\ ~(\E k, vs, fn : Call(k, vs, fn))
<1>1. ASSUME NEW end, Stop(end) PROVE FALSE
  BY <1>1 DEF Stop
<1>2. ASSUME NEW k, NEW vs, NEW fn, Call(k, vs, fn) PROVE FALSE
  <2> DEFINE gs == [frames EXCEPT ![Len(frames)].vals = vs]
  <2>1. IsStack(frames)
    BY Here
  <2>2. Len(gs) = 2 /\ gs[1] = frames[1]
    <3>1. 1 \in 1..Len(frames) - 1
      OBVIOUS
    <3> QED BY <2>1, <3>1, SetBelow
  <2>3. IsSeq(gs)
    <3>1. PICK S : frames \in Seq(S)
      BY <2>1 DEF IsStack, IsSeq
    <3> DEFINE v == [frames[2] EXCEPT !.vals = vs]
    <3>2. gs = [frames EXCEPT ![2] = v] /\ 2 \in 1..Len(frames)
      OBVIOUS
    <3> HIDE DEF v
    <3>3. gs \in Seq(S \cup {v})
      BY <3>1, <3>2
    <3> QED BY <3>3 DEF IsSeq
  <2>4. frames' = Append(gs, Frame(fn, <<>>))
    BY <1>2 DEF Call
  <2> HIDE DEF gs
  <2>5. 1 \in 1..Len(gs)
    BY <2>2
  <2>6. frames'[1] = gs[1]
    BY <2>3, <2>4, <2>5, Appending
  <2> QED BY <2>2, <2>6
<1> QED BY <1>1, <1>2

LEMMA BottomGrows ==
  ASSUME IInv, Len(frames) = 2, NEW k, NEW val, Return(k, val)
  PROVE  frames'[1].vals = Append(frames[1].vals, val)
<1>1. IsStack(frames) /\ IsSeq(frames) /\ Len(frames) \in Nat /\ 1 \in 1..Len(frames) - 1
  BY Here, LenNat DEF IsStack
<1> DEFINE hs == Front(frames)
<1>2. IsStack(hs) /\ Len(hs) = Len(frames) - 1 /\ hs[1] = frames[1]
  <2>1. Len(frames) > 1
    OBVIOUS
  <2> QED BY <1>1, <2>1, PopSome
<1>3. frames' = [hs EXCEPT ![Len(hs)].vals = Append(hs[Len(hs)].vals, val)]
  BY <1>2 DEF Return
<1> HIDE DEF hs
<1>6. Len(hs) = 1
  BY <1>2
<1>4. PICK vs : vs = Append(frames[1].vals, val)
  OBVIOUS
<1>7. frames' = [hs EXCEPT ![Len(hs)].vals = vs]
  BY <1>2, <1>3, <1>4, <1>6
<1>5. frames'[1] = Frame(hs[1].fn, vs)
  <2>1. [hs EXCEPT ![Len(hs)].vals = vs][Len(hs)] = Frame(hs[Len(hs)].fn, vs)
    BY <1>2, SetBelow
  <2> QED BY <1>6, <1>7, <2>1
<1> QED BY <1>4, <1>5 DEF Frame

LEMMA MoreReturn ==
  ASSUME IInv, AllReturn, tokens' = tokens, NEW val, frames'[1].vals = Append(frames[1].vals, val),
         val.type = "AST_FUNC_DECL" => HasRet(Len(tokens), val.block)
  PROVE  AllReturn'
<1>1. IsSeq(frames[1].vals)
  <2>1. 1 \in 1..Len(frames)
    BY Here, LenNat DEF IsStack
  <2> QED BY <2>1, Here DEF IsStack, IsFrame
<1> DEFINE vs == frames[1].vals
           ws == Append(vs, val)
<1>2. /\ Len(vs) \in Nat /\ Len(ws) = Len(vs) + 1 /\ ws[Len(vs) + 1] = val
      /\ \A i \in 1..Len(vs) : ws[i] = vs[i]
  BY <1>1, LenNat, Appending
<1> HIDE DEF vs, ws
<1>3. ASSUME NEW i \in 1..Len(ws), ws[i].type = "AST_FUNC_DECL" PROVE HasRet(Len(tokens), ws[i].block)
  <2>1. CASE i = Len(vs) + 1
    BY <1>2, <1>3, <2>1
  <2>2. CASE i # Len(vs) + 1
    <3>1. i \in 1..Len(vs)
      BY <1>2, <2>2
    <3> QED BY <1>2, <1>3, <3>1 DEF AllReturn, vs
  <2> QED BY <2>1, <2>2
<1> QED BY <1>3 DEF AllReturn, vs, ws

LEMMA AllReturnKept == ASSUME IInv, TreeInv, AllReturn, Parse PROVE AllReturn'
<1> PICK U : Before(U)
  BY DEF TreeInv, Before
<1>1. Moves /\ tokens' = tokens
  BY EachMoves
<1>2. CASE frames'[1] = frames[1]
  BY <1>1, <1>2 DEF AllReturn
<1>3. IsStack(frames) /\ Len(frames) \in Nat /\ Len(frames) > 0 /\ Top = frames[Len(frames)]
  BY Here, LenNat DEF IsStack
<1>4. CASE Len(frames) = 1
  <2>1. Top.fn = "parse_program" /\ vals = frames[1].vals
    BY <1>3, <1>4 DEF IsStack, vals
  <2>2. ParseProgram
    BY <2>1, WhoMoves
  <2>3. CASE Keep(idx + 1, Append(vals, mk_comment_stmt))
    <3> DEFINE vs == Append(vals, mk_comment_stmt)
    <3>1. frames' = [frames EXCEPT ![Len(frames)].vals = vs]
      BY <2>3 DEF Keep
    <3> HIDE DEF vs
    <3>2. frames'[1] = Frame(frames[1].fn, vs)
      <4>1. [frames EXCEPT ![Len(frames)].vals = vs][Len(frames)] = Frame(frames[Len(frames)].fn, vs)
        BY <1>3, SetBelow
      <4> QED BY <1>4, <3>1, <4>1
    <3>3. frames'[1].vals = Append(frames[1].vals, mk_comment_stmt)
      BY <2>1, <3>2 DEF Frame, vs
    <3>4. mk_comment_stmt.type # "AST_FUNC_DECL"
      BY DEF mk_comment_stmt
    <3> QED BY <1>1, <3>3, <3>4, MoreReturn
  <2>4. CASE \E fn : Call(idx, vals, fn)
    <3>1. PICK fn : frames' = Append([frames EXCEPT ![Len(frames)].vals = vals], Frame(fn, <<>>))
      BY <2>4 DEF Call
    <3> DEFINE gs == [frames EXCEPT ![Len(frames)].vals = vals]
    <3>2. IsStack(gs) /\ Len(gs) = 1 /\ gs[1] = Frame(frames[1].fn, vals)
      <4>1. IsSeq(vals)
        BY Here
      <4>2. IsStack(gs) /\ Len(gs) = Len(frames) /\ gs[Len(frames)] = Frame(frames[Len(frames)].fn, vals)
        BY <1>3, <4>1, SetTop
      <4> HIDE DEF gs
      <4> QED BY <1>4, <4>2
    <3> HIDE DEF gs
    <3>3. frames' = Append(gs, Frame(fn, <<>>))
      BY <3>1 DEF gs
    <3>4. frames'[1] = gs[1]
      <4>1. IsSeq(gs) /\ 1 \in 1..Len(gs)
        BY <3>2 DEF IsStack
      <4> QED BY <3>3, <4>1, Appending
    <3>5. frames'[1].vals = frames[1].vals
      BY <2>1, <3>2, <3>4 DEF Frame
    <3> QED BY <1>1, <3>5 DEF AllReturn
  <2>5. CASE frames' = frames
    BY <1>2, <2>5
  <2> QED BY <2>2, <2>3, <2>4, <2>5 DEF ParseProgram, compile_error, Stop
<1>5. CASE Len(frames) = 2 /\ frames'[1] # frames[1]
  <2>1. PICK k, val : Return(k, val)
    BY <1>1, <1>3, <1>5, BottomStays
  <2>2. /\ Front(frames)[1].fn = "parse_program"
        /\ Goes(Gives(Top.fn), Wants(Front(frames)[1].fn, Len(Front(frames)[1].vals) + 1))
    <3>1. Len(Front(frames)) = 1 /\ IsStack(Front(frames))
      <4>1. Len(frames) > 1 /\ Len(frames) - 1 = 1
        BY <1>5
      <4> QED BY <1>3, <4>1, PopSome
    <3>2. Stacked(U, Names, frames) /\ Len(frames) > 1
      BY <1>3, <1>5 DEF Before
    <3> QED BY <1>3, <3>1, <3>2, StackedPop DEF IsStack
  <2>3. Goes(Gives(Top.fn), "top")
    <3>1. \A i : Wants("parse_program", i) = "top"
      BY DEF Wants, binary_op
    <3> QED BY <2>2, <3>1
  <2>4. Top.fn \in {"parse_func_decl", "parse_var_decl"}
    BY <2>3 DEF Goes, Gives
  <2>5. ASSUME NEW j, NEW v, Return(j, v), v.type = "AST_FUNC_DECL" => HasRet(Len(tokens), v.block)
        PROVE  AllReturn'
    BY <1>1, <1>5, <2>5, BottomGrows, MoreReturn
  <2>6. ~(\E end : Stop(end)) /\ ~(\E j, vs, fn : Call(j, vs, fn))
    BY <1>3, <1>5, StepEnds
  <2>7. CASE ParseFuncDecl
    <3> DEFINE n == mk_func_decl(mk_func_t(vals[1], vals[3], vals[2]), vals[4])
    <3>1. block_has_ret(vals[4]) /\ Return(idx, n)
      BY <2>6, <2>7 DEF ParseFuncDecl, parse_block_stmt, compile_error, assert_failed
    <3>2. n.block = vals[4]
      BY DEF mk_func_decl
    <3>3. HasRet(Len(tokens), n.block)
      BY <3>1, <3>2, AsDefined
    <3> HIDE DEF n
    <3> QED BY <2>5, <3>1, <3>3
  <2>8. CASE ParseVarDecl
    <3>1. PICK j, d, t, a : Return(j, mk_var_decl(d, t, a))
      BY <2>6, <2>8 DEF ParseVarDecl, compile_error
    <3> DEFINE n == mk_var_decl(d, t, a)
    <3>2. n.type # "AST_FUNC_DECL"
      BY DEF mk_var_decl
    <3> HIDE DEF n
    <3>3. Return(j, n)
      BY <3>1 DEF n
    <3> QED BY <2>5, <3>2, <3>3
  <2> QED BY <2>4, <2>7, <2>8, WhoMoves
<1>6. CASE Len(frames) > 2 /\ frames'[1] # frames[1]
  BY <1>1, <1>3, <1>6, BottomStays
<1>7. Len(frames) = 1 \/ Len(frames) = 2 \/ Len(frames) > 2
  <2>1. \A n \in Nat : n > 0 => n = 1 \/ n = 2 \/ n > 2
    OBVIOUS
  <2> QED BY <1>3, <2>1
<1> QED BY <1>2, <1>4, <1>5, <1>6, <1>7

LEMMA RefusedKept == ASSUME Parse PROVE Refused'
<1> SUFFICES ASSUME phase' = "error", (Top.fn = "parse_func_decl")', (Len(vals) = 4)'
             PROVE  ~HasRet(Len(tokens'), vals'[4])
  BY DEF Refused
<1>1. phase = "parse" /\ Moves /\ tokens' = tokens
  BY EachMoves, WhoMoves
<1>2. frames' = frames
  BY <1>1 DEF Moves, Keep, Call, Become, Return, Stop
<1>3. Top' = Top /\ vals' = vals
  BY <1>2 DEF Top, vals
<1>4. ParseFuncDecl /\ Len(vals) = 4
  BY <1>3, WhoMoves
<1>5. ~block_has_ret(vals[4])
  <2>1. ~In("parse_func_decl", 0) /\ ~In("parse_func_decl", 3)
    BY <1>4 DEF In
  <2>2. ~(\E val : Return(idx, val))
    BY <1>1 DEF Return
  <2> QED BY <1>4, <2>1, <2>2 DEF ParseFuncDecl
<1> QED BY <1>1, <1>3, <1>5, AsDefined

LEMMA ReturnStarts == Init => AllReturn /\ Refused
<1> SUFFICES ASSUME Init PROVE AllReturn /\ Refused
  OBVIOUS
<1>1. frames[1].vals = <<>> /\ phase = "parse"
  BY DEF Init, Frame
<1> QED BY <1>1 DEF AllReturn, Refused

LEMMA ReturnInductive ==
  IInv /\ TreeInv /\ AllReturn /\ Refused /\ [Next]_vars => (AllReturn /\ Refused)'
<1> SUFFICES ASSUME IInv, TreeInv, AllReturn, Refused, [Next]_vars PROVE AllReturn' /\ Refused'
  OBVIOUS
<1>1. CASE Parse
  BY <1>1, AllReturnKept, RefusedKept
<1>2. CASE UNCHANGED vars
  BY <1>2 DEF vars, AllReturn, Refused, Top, vals
<1> QED BY <1>1, <1>2 DEF Next, Terminated

LEMMA Accepts == IInv /\ TreeInv /\ DepthInv /\ AllReturn /\ Refused => AcceptedReturns
<1> SUFFICES ASSUME IInv, TreeInv, DepthInv, AllReturn, Refused PROVE AcceptedReturns
  OBVIOUS
<1> PICK U : Before(U)
  BY DEF TreeInv, Before
<1> PICK H, st : Known(U, H, st)
  BY DEF DepthInv, Known
<1>1. PICK L \in Nat : L = Len(tokens)
  BY Lists DEF IInv
<1>2. ASSUME phase = "done", NEW k \in DOMAIN program, program[k].type = "AST_FUNC_DECL"
      PROVE  ~FallsThrough(program[k].block)
  <2>1. program = frames[1].vals
    BY <1>2, Here DEF IInv, program, vals
  <2>2. k \in 1..Len(program)
    <3>1. PICK S : vals \in Seq(S)
      BY Here DEF IsSeq
    <3> QED BY <1>2, <3>1, LenProperties DEF program
  <2>3. HasRet(L, program[k].block)
    BY <1>1, <1>2, <2>1, <2>2 DEF AllReturn
  <2>4. ~Falls(L, program[k].block)
    BY <2>3, NoWayThrough
  <2> QED BY <1>1, <2>4, AsDefined
<1>3. ASSUME phase = "error", Top.fn = "parse_func_decl", Len(vals) = 4
      PROVE  FallsThrough(vals[4])
  <2>1. ~HasRet(L, vals[4])
    BY <1>1, <1>3 DEF Refused
  <2>2. Own(Top.fn, Len(vals)) = 1 /\ Wants(Top.fn, 4) = "block" /\ Wants(Top.fn, 4) \in NodeKinds
    BY <1>3 DEF Own, Wants, binary_op, NodeKinds
  <2>3. vals[4] \in U
    BY <1>3, <2>2, HeldBlock DEF Known, IsBlockOf
  <2>4. PICK e \in Nat : e + 1 = Since(st) /\ vals[4] \in H[e]
    BY <1>3, <2>2, HandOwn
  <2>5. Heights(H) /\ e <= L
    <3>1. idx \in 0..L - 1 /\ st[Len(frames)] \in Nat /\ Heights(H)
      BY <1>1, Here, Hand DEF Known, InTokens
    <3> QED BY <2>4, <3>1 DEF Since
  <2>6. vals[4] \in H[L]
    BY <2>4, <2>5, Rises
  <2>7. Falls(L, vals[4])
    BY <2>1, <2>3, <2>5, <2>6, WayThrough DEF Before
  <2> QED BY <1>1, <2>7, AsDefined
<1> QED BY <1>2, <1>3 DEF AcceptedReturns

(***************************************************************************)
(* A function is accepted exactly when no execution that enters every if   *)
(* without an else gets past its end: for every list of tokens, and        *)
(* however its blocks and ifs are nested.                                  *)
(***************************************************************************)
THEOREM ReturnsDemanded == Spec => []AcceptedReturns
<1> QED BY Starts, Inductive, TreeStarts, TreeInductive, DepthStarts, DepthInductive, ReturnStarts,
           ReturnInductive, Accepts, PTL DEF Spec

-----------------------------------------------------------------------------
(* Words put together *)

LEMMA CommonSet ==
  ASSUME NEW a, NEW b, NEW c, IsSeq(a), IsSeq(b), IsSeq(c)
  PROVE  \E S : a \in Seq(S) /\ b \in Seq(S) /\ c \in Seq(S)
<1>1. PICK A, B, D : a \in Seq(A) /\ b \in Seq(B) /\ c \in Seq(D)
  BY DEF IsSeq
<1>2. a \in Seq(A \cup B \cup D) /\ b \in Seq(A \cup B \cup D) /\ c \in Seq(A \cup B \cup D)
  BY <1>1
<1> QED BY <1>2

LEMMA Joined == ASSUME NEW a, NEW b, IsSeq(a), IsSeq(b) PROVE IsSeq(a \o b)
<1>1. PICK S : a \in Seq(S) /\ b \in Seq(S)
  BY CommonSet
<1>2. a \o b \in Seq(S)
  BY <1>1
<1> QED BY <1>2 DEF IsSeq

LEMMA Assoc ==
  ASSUME NEW a, NEW b, NEW c, IsSeq(a), IsSeq(b), IsSeq(c)
  PROVE  (a \o b) \o c = a \o (b \o c)
<1>1. PICK S : a \in Seq(S) /\ b \in Seq(S) /\ c \in Seq(S)
  BY CommonSet
<1> QED BY <1>1, ConcatAssociative

Associates(a, b, c) == (a \o b) \o c = a \o (b \o c)

LEMMA AssocNamed ==
  ASSUME NEW a, NEW b, NEW c, IsSeq(a), IsSeq(b), IsSeq(c)
  PROVE  Associates(a, b, c)
<1>1. PICK S : a \in Seq(S) /\ b \in Seq(S) /\ c \in Seq(S)
  BY CommonSet
<1> QED BY <1>1, ConcatAssociative DEF Associates

LEMMA JoinNone == ASSUME NEW a, IsSeq(a) PROVE <<>> \o a = a /\ a \o <<>> = a
<1>1. PICK S : a \in Seq(S)
  BY DEF IsSeq
<1> QED BY <1>1, ConcatEmptySeq

\* A sequence of sequences.
IsSeqs(s) == IsSeq(s) /\ \A k \in 1..Len(s) : IsSeq(s[k])

LEMMA SeqsOver == ASSUME NEW s, IsSeqs(s) PROVE \E T : s \in Seq(Seq(T))
<1>1. PICK S : s \in Seq(S)
  BY DEF IsSeqs, IsSeq
<1>2. DOMAIN s = 1..Len(s) /\ Len(s) \in Nat
  BY <1>1
<1> DEFINE T == UNION {Range(s[k]) : k \in 1..Len(s)}
<1>3. ASSUME NEW k \in 1..Len(s) PROVE s[k] \in Seq(T)
  <2>1. PICK R : s[k] \in Seq(R)
    BY DEF IsSeqs, IsSeq
  <2>2. Range(s[k]) \subseteq T
    OBVIOUS
  <2>3. s[k] \in Seq(Range(s[k]))
    BY <2>1, SeqOfRange DEF Range
  <2> QED BY <2>2, <2>3
<1> HIDE DEF T
<1>4. s \in Seq(Seq(T))
  BY <1>2, <1>3, SeqInto DEF IsSeqs
<1> QED BY <1>4

LEMMA FlatNone == FlattenSeq(<<>>) = <<>>
BY DEF FlattenSeq

\* FlattenSeq from left to right.
LEMMA FlatSteps ==
  ASSUME NEW s, IsSeqs(s), Len(s) > 0
  PROVE  \E f : /\ FlattenSeq(s) = f[Len(s)] /\ f[1] = s[1]
                /\ \A i \in 1..Len(s) : IsSeq(f[i])
                /\ \A i \in 2..Len(s) : f[i] = f[i - 1] \o s[i]
<1>1. PICK T : s \in Seq(Seq(T))
  BY SeqsOver
<1>2. PICK n \in Nat : Len(s) = n + 1
  <2>1. Len(s) \in Nat
    BY <1>1
  <2>2. Len(s) - 1 \in Nat /\ Len(s) = (Len(s) - 1) + 1
    BY <2>1
  <2> QED BY <2>2
<1>3. \A k \in 1..n + 1 : s[k] \in Seq(T)
  BY <1>1, <1>2
<1> DEFINE S == Seq(T)
           F == [k \in 1..n |-> [x \in S |-> x \o s[k + 1]]]
<1>4. F \in [1..n -> [S -> S]]
  <2>1. ASSUME NEW k \in 1..n, NEW x \in S PROVE x \o s[k + 1] \in S
    <3>1. s[k + 1] \in S
      BY <1>3
    <3> QED BY <3>1
  <2> QED BY <2>1
<1>5. s[1] \in S
  BY <1>2, <1>3
<1>6. \A k \in 1..n : \A x \in S : F[k][x] = x \o s[k + 1]
  OBVIOUS
<1> HIDE DEF S, F
<1>7. Iterates(S, n, F, s[1])
  BY <1>4, <1>5, Iteration
<1>8. PICK g \in [0..n -> S] : g[0] = s[1] /\ \A k \in 1..n : g[k] = F[k][g[k - 1]]
  BY <1>7 DEF Iterates
<1> DEFINE f == [i \in 1..n + 1 |-> g[i - 1]]
           G(w) == [i \in 1..n + 1 |-> IF i = 1 THEN s[i] ELSE w[i - 1] \o s[i]]
<1>9. \A i \in 1..n + 1 : f[i] = g[i - 1] /\ f[i] \in S
  BY <1>8
<1>10. ASSUME NEW i \in 1..n + 1 PROVE f[i] = IF i = 1 THEN s[i] ELSE f[i - 1] \o s[i]
  <2>1. CASE i = 1
    BY <1>8, <1>9, <2>1
  <2>2. CASE i # 1
    <3>1. PICK k \in 1..n : i = k + 1
      <4>1. i - 1 \in 1..n /\ i = (i - 1) + 1
        BY <2>2
      <4> QED BY <4>1
    <3>2. k \in 1..n + 1 /\ k - 1 \in 0..n /\ i - 1 = k
      BY <3>1
    <3>3. f[i] = g[k] /\ f[k] = g[k - 1] /\ g[k - 1] \in S
      BY <1>9, <3>2, <1>8
    <3>4. f[i] = f[k] \o s[k + 1]
      BY <1>6, <1>8, <3>1, <3>3
    <3> QED BY <2>2, <3>1, <3>2, <3>4
  <2> QED BY <2>1, <2>2
<1> HIDE DEF f
<1>11. f = G(f)
  BY <1>10 DEF f
<1> DEFINE h == CHOOSE w : w = G(w)
<1>12. FlattenSeq(s) = h[n + 1]
  BY <1>2 DEF FlattenSeq
<1>13. h = G(h)
  <2> HIDE DEF G
  <2> QED BY <1>11
<1> HIDE DEF h
<1>14. \A i \in 1..n + 1 : h[i] = IF i = 1 THEN s[i] ELSE h[i - 1] \o s[i]
  BY <1>13
<1> DEFINE Bad == {i \in 1..n + 1 : h[i] \notin S}
<1>15. Bad = {}
  <2> HIDE DEF G
  <2> SUFFICES ASSUME Bad # {} PROVE FALSE
    OBVIOUS
  <2>0. Bad \subseteq Nat
    OBVIOUS
  <2>1. PICK i \in Bad : \A e \in Bad : i <= e
    BY <2>0, Least
  <2>2. i \in 1..n + 1 /\ h[i] \notin S
    OBVIOUS
  <2>3. i # 1
    BY <1>14, <1>5, <2>2
  <2>4. i - 1 \in 1..n + 1 /\ ~(i <= i - 1)
    BY <2>2, <2>3
  <2>5. h[i - 1] \in S /\ s[i] \in S
    BY <1>3, <2>1, <2>2, <2>4 DEF S
  <2>6. h[i - 1] \o s[i] \in S
    BY <2>5 DEF S
  <2> QED BY <1>14, <2>2, <2>3, <2>6
<1>16. \A i \in 1..n + 1 : IsSeq(h[i])
  BY <1>15 DEF S, IsSeq
<1>17. 1 \in 1..n + 1 /\ \A i \in 2..n + 1 : i \in 1..n + 1 /\ i # 1
  OBVIOUS
<1>18. h[1] = s[1] /\ \A i \in 2..n + 1 : h[i] = h[i - 1] \o s[i]
  BY <1>14, <1>17
<1> QED BY <1>2, <1>12, <1>16, <1>18

LEMMA FlatAppend ==
  ASSUME NEW s, IsSeqs(s), NEW x, IsSeq(x)
  PROVE  /\ IsSeq(FlattenSeq(s)) /\ IsSeqs(Append(s, x))
         /\ FlattenSeq(Append(s, x)) = FlattenSeq(s) \o x
<1> DEFINE t == Append(s, x)
<1>1. IsSeq(s) /\ Len(s) \in Nat
  BY LenNat DEF IsSeqs
<1>2. /\ IsSeq(t) /\ Len(t) = Len(s) + 1 /\ t[Len(s) + 1] = x
      /\ \A k \in 1..Len(s) : t[k] = s[k]
  BY <1>1, Appending
<1> HIDE DEF t
<1>3. IsSeqs(t)
  <2> SUFFICES ASSUME NEW k \in 1..Len(t) PROVE IsSeq(t[k])
    BY <1>2 DEF IsSeqs
  <2>1. k = Len(s) + 1 \/ k \in 1..Len(s)
    BY <1>1, <1>2
  <2> QED BY <1>2, <2>1 DEF IsSeqs
<1>4. PICK h : /\ FlattenSeq(t) = h[Len(t)] /\ h[1] = t[1]
               /\ \A i \in 1..Len(t) : IsSeq(h[i])
               /\ \A i \in 2..Len(t) : h[i] = h[i - 1] \o t[i]
  <2>1. Len(t) > 0
    BY <1>1, <1>2
  <2> QED BY <1>3, <2>1, FlatSteps
<1>5. CASE Len(s) = 0
  <2>1. s = <<>>
    BY <1>1, <1>5, LenNat
  <2>2. FlattenSeq(t) = x
    BY <1>2, <1>4, <1>5
  <2>3. FlattenSeq(s) = <<>> /\ IsSeq(<<>>)
    BY <2>1, FlatNone, Singles
  <2>4. <<>> \o x = x
    BY JoinNone
  <2> QED BY <1>3, <2>2, <2>3, <2>4 DEF t
<1>6. CASE Len(s) > 0
  <2>1. PICK f : /\ FlattenSeq(s) = f[Len(s)] /\ f[1] = s[1]
                 /\ \A i \in 1..Len(s) : IsSeq(f[i])
                 /\ \A i \in 2..Len(s) : f[i] = f[i - 1] \o s[i]
    BY <1>6, FlatSteps
  <2> DEFINE Bad == {i \in 1..Len(s) : h[i] # f[i]}
  <2>2. Bad = {}
    <3> SUFFICES ASSUME Bad # {} PROVE FALSE
      OBVIOUS
    <3>0. Bad \subseteq Nat
      BY <1>1
    <3>1. PICK i \in Bad : \A e \in Bad : i <= e
      BY <3>0, Least
    <3>2. i \in 1..Len(s) /\ h[i] # f[i]
      OBVIOUS
    <3>3. CASE i = 1
      <4>1. 1 \in 1..Len(s)
        BY <1>1, <1>6
      <4> QED BY <1>2, <1>4, <2>1, <3>2, <3>3, <4>1
    <3>4. CASE i # 1
      <4>1. i \in 2..Len(s) /\ i \in 2..Len(t) /\ i - 1 \in 1..Len(s) /\ ~(i <= i - 1)
        BY <1>1, <1>2, <3>2, <3>4
      <4>2. h[i - 1] = f[i - 1]
        BY <3>1, <4>1
      <4> QED BY <1>2, <1>4, <2>1, <3>2, <4>1, <4>2
    <3> QED BY <3>3, <3>4
  <2>3. Len(s) \in 1..Len(s) /\ Len(t) \in 2..Len(t) /\ Len(t) - 1 = Len(s)
    BY <1>1, <1>2, <1>6
  <2>4. h[Len(t)] = h[Len(s)] \o t[Len(t)] /\ h[Len(s)] = f[Len(s)]
    BY <1>4, <2>2, <2>3
  <2>5. FlattenSeq(t) = FlattenSeq(s) \o x /\ IsSeq(FlattenSeq(s))
    BY <1>2, <1>4, <2>1, <2>3, <2>4
  <2> QED BY <1>3, <2>5 DEF t
<1> QED BY <1>1, <1>5, <1>6

\* Sequences that are given as functions.
LEMMA FunctionSeq ==
  ASSUME NEW n \in Nat, NEW f, f = [k \in 1..n |-> f[k]]
  PROVE  IsSeq(f) /\ Len(f) = n /\ DOMAIN f = 1..n
<1> DEFINE S == {f[k] : k \in 1..n}
<1>1. f \in [1..n -> S]
  <2>1. \A k \in 1..n : f[k] \in S
    OBVIOUS
  <2> HIDE DEF S
  <2> QED BY <2>1
<1>2. f \in Seq(S)
  BY <1>1, SeqDef
<1>3. DOMAIN f = 1..n
  BY <1>1
<1>4. Len(f) = n
  <2>1. DOMAIN f = 1..Len(f) /\ Len(f) \in Nat
    BY <1>2, LenProperties
  <2> QED BY <1>3, <2>1
<1> QED BY <1>2, <1>3, <1>4 DEF IsSeq

LEMMA FunctionAppend ==
  ASSUME NEW s, IsSeq(s), NEW f, f = [k \in 1..Len(s) + 1 |-> f[k]],
         \A k \in 1..Len(s) : f[k] = s[k]
  PROVE  f = Append(s, f[Len(s) + 1])
<1> DEFINE n == Len(s) + 1
           t == Append(s, f[n])
<1>1. Len(s) \in Nat
  BY LenNat
<1>2. /\ IsSeq(t) /\ Len(t) = n /\ t[n] = f[n]
      /\ \A k \in 1..Len(s) : t[k] = s[k]
  BY Appending
<1> HIDE DEF t
<1>3. t = [k \in 1..n |-> t[k]]
  <2>1. PICK S : t \in Seq(S)
    BY <1>2 DEF IsSeq
  <2> QED BY <1>2, <2>1
<1>4. \A k \in 1..n : t[k] = f[k]
  <2> SUFFICES ASSUME NEW k \in 1..n PROVE t[k] = f[k]
    OBVIOUS
  <2>1. k = n \/ k \in 1..Len(s)
    BY <1>1
  <2> QED BY <1>2, <2>1
<1>5. [k \in 1..n |-> t[k]] = [k \in 1..n |-> f[k]]
  BY <1>4
<1> QED BY <1>3, <1>5 DEF t

-----------------------------------------------------------------------------
(* What the tokens say *)

\* The content of the tokens before index k.
Upto(k) == Content(SubSeq(tokens, 1, k))

LEMMA OneWord ==
  /\ \A t : IsSeq(Sign(t)) /\ IsSeq(Meaning(t))
  /\ \A n : IsSeq(Ident(n)) /\ IsSeq(Number(n))
<1>1. \A t : IsSeq(Sign(t))
  BY Singles DEF Sign
<1>2. \A n : IsSeq(Ident(n)) /\ IsSeq(Number(n))
  BY Singles DEF Ident, Number
<1>3. \A t : IsSeq(Meaning(t))
  BY <1>1, <1>2, Singles DEF Meaning
<1> QED BY <1>1, <1>2, <1>3

LEMMA UptoSeqs ==
  ASSUME tokens \in Inputs, NEW k \in 0..Len(tokens)
  PROVE  LET s == SubSeq(tokens, 1, k)
             m == [j \in DOMAIN s |-> Meaning(s[j])]
         IN /\ IsSeq(s) /\ Len(s) = k /\ DOMAIN s = 1..k
            /\ \A j \in 1..k : s[j] = tokens[j]
            /\ IsSeqs(m) /\ Len(m) = k /\ m = [j \in 1..k |-> Meaning(tokens[j])]
            /\ Upto(k) = FlattenSeq(m)
<1> DEFINE s == SubSeq(tokens, 1, k)
           m == [j \in DOMAIN s |-> Meaning(s[j])]
<1>1. PICK S : tokens \in Seq(S)
  BY InputsAssumption
<1>2. k \in Nat /\ Len(tokens) \in Nat
  BY Lists
<1>3. s \in Seq(S) /\ Len(s) = k /\ \A j \in 1..k : s[j] = tokens[j]
  <2>1. \A j \in 1..k : tokens[j] \in S
    BY <1>1, <1>2
  <2>2. /\ s \in Seq(S)
        /\ Len(s) = IF 1 <= k THEN k - 1 + 1 ELSE 0
        /\ \A j \in 1..k - 1 + 1 : s[j] = tokens[1 + j - 1]
    BY <1>1, <1>2, <2>1, SubSeqProperties
  <2>3. Len(s) = k
    BY <1>2, <2>2
  <2>4. \A j \in 1..k : s[j] = tokens[j]
    BY <1>2, <2>2
  <2> QED BY <2>2, <2>3, <2>4
<1>4. DOMAIN s = 1..k
  BY <1>3
<1> HIDE DEF s
<1>5. m = [j \in 1..k |-> Meaning(tokens[j])]
  BY <1>3, <1>4
<1>6. Upto(k) = FlattenSeq(m)
  BY DEF Upto, Content, s
<1> HIDE DEF m
<1>7. m = [j \in 1..k |-> m[j]] /\ \A j \in 1..k : m[j] = Meaning(tokens[j])
  BY <1>5
<1>8. IsSeq(m) /\ Len(m) = k
  BY <1>2, <1>7, FunctionSeq
<1>9. IsSeqs(m)
  BY <1>7, <1>8, OneWord DEF IsSeqs
<1> QED BY <1>3, <1>4, <1>5, <1>6, <1>8, <1>9 DEF s, m, IsSeq

LEMMA UptoNext ==
  ASSUME tokens \in Inputs, NEW k, InTokens(k)
  PROVE  IsSeq(Upto(k)) /\ Upto(k + 1) = Upto(k) \o Meaning(tokens[k + 1])
<1>1. k \in 0..Len(tokens) /\ k + 1 \in 0..Len(tokens) /\ k \in Nat
  BY Lists DEF InTokens
<1>2. PICK m : /\ IsSeqs(m) /\ Len(m) = k /\ m = [j \in 1..k |-> Meaning(tokens[j])]
               /\ Upto(k) = FlattenSeq(m)
  BY <1>1, UptoSeqs
<1>3. PICK h : /\ IsSeqs(h) /\ Len(h) = k + 1 /\ h = [j \in 1..k + 1 |-> Meaning(tokens[j])]
               /\ Upto(k + 1) = FlattenSeq(h)
  BY <1>1, UptoSeqs
<1>4. /\ \A j \in 1..k : m[j] = Meaning(tokens[j])
      /\ \A j \in 1..k + 1 : h[j] = Meaning(tokens[j])
      /\ h = [j \in 1..k + 1 |-> h[j]]
  BY <1>2, <1>3
<1>5. \A j \in 1..k : h[j] = m[j]
  <2>1. \A j \in 1..k : j \in 1..k + 1
    BY <1>1
  <2> QED BY <1>4, <2>1
<1>6. k + 1 \in 1..k + 1
  BY <1>1
<1>7. h = Append(m, h[k + 1])
  <2>1. IsSeq(m) /\ Len(m) = k
    BY <1>2 DEF IsSeqs
  <2>2. h = [j \in 1..Len(m) + 1 |-> h[j]] /\ \A j \in 1..Len(m) : h[j] = m[j]
    BY <1>4, <1>5, <2>1
  <2>3. h = Append(m, h[Len(m) + 1])
    BY <2>1, <2>2, FunctionAppend
  <2> QED BY <2>1, <2>3
<1> DEFINE x == Meaning(tokens[k + 1])
<1>8. h = Append(m, x) /\ IsSeq(x)
  BY <1>4, <1>6, <1>7, OneWord
<1> HIDE DEF x
<1>9. IsSeq(FlattenSeq(m)) /\ FlattenSeq(Append(m, x)) = FlattenSeq(m) \o x
  BY <1>2, <1>8, FlatAppend
<1> QED BY <1>2, <1>3, <1>8, <1>9 DEF x

\* The tokens from k up to j say w.
Says(k, w, j) == InTokens(k) /\ InTokens(j) /\ IsSeq(w) /\ Upto(j) = Upto(k) \o w

LEMMA SaysNone == ASSUME tokens \in Inputs, NEW k, InTokens(k) PROVE Says(k, <<>>, k)
BY UptoNext, JoinNone, Singles DEF Says

LEMMA SaysOne ==
  ASSUME tokens \in Inputs, NEW k, InTokens(k), Kind(k) # "T_EOF"
  PROVE  Says(k, Meaning(tokens[k + 1]), k + 1)
BY UptoNext, NextToken, OneWord DEF Says

LEMMA SaysOn ==
  ASSUME tokens \in Inputs, NEW k, NEW v, NEW j, Says(k, v, j), NEW w, NEW l, Says(j, w, l)
  PROVE  Says(k, v \o w, l)
<1>1. IsSeq(Upto(k)) /\ IsSeq(v) /\ IsSeq(w)
  BY UptoNext DEF Says
<1>2. Upto(l) = (Upto(k) \o v) \o w
  BY DEF Says
<1>3. Upto(l) = Upto(k) \o (v \o w) /\ IsSeq(v \o w)
  BY <1>1, <1>2, Assoc, Joined
<1> QED BY <1>3 DEF Says

\* A token that has its own sign, and one that has none.
LEMMA SaysSign ==
  ASSUME tokens \in Inputs, NEW k, InTokens(k),
         Kind(k) \notin {"T_EOF", "T_LEFT_PAREN", "T_RIGHT_PAREN", "T_COMMA", "T_QWORD",
                         "T_IDENTIFIER", "T_NUMBER_LIT"}
  PROVE  Says(k, Sign(Kind(k)), k + 1)
<1>1. Meaning(tokens[k + 1]) = Sign(Kind(k))
  BY DEF Meaning, Kind
<1> QED BY <1>1, SaysOne

LEMMA SaysNothing ==
  ASSUME tokens \in Inputs, NEW k, InTokens(k),
         Kind(k) \in {"T_LEFT_PAREN", "T_RIGHT_PAREN", "T_COMMA", "T_QWORD"}
  PROVE  Says(k, <<>>, k + 1)
<1>1. Meaning(tokens[k + 1]) = <<>> /\ Kind(k) # "T_EOF"
  BY DEF Meaning, Kind
<1> QED BY <1>1, SaysOne

LEMMA SaysNumber ==
  ASSUME tokens \in Inputs, NEW k, InTokens(k), Kind(k) = "T_NUMBER_LIT"
  PROVE  Says(k, Number(tokens[k + 1].num), k + 1)
<1>1. Meaning(tokens[k + 1]) = Number(tokens[k + 1].num) /\ Kind(k) # "T_EOF"
  BY DEF Meaning, Kind
<1> QED BY <1>1, SaysOne

LEMMA SaysIdent ==
  ASSUME tokens \in Inputs, NEW k, InTokens(k), parse_identifier_expr(k).nodes # <<>>
  PROVE  LET ident == parse_identifier_expr(k)
         IN ident.nodes = <<ident.nodes[1]>> /\ Says(k, Ident(ident.nodes[1]), ident.idx)
<1> DEFINE n == mk_identifer_expr(tokens[k + 1].name)
<1>1. Kind(k) = "T_IDENTIFIER"
  BY DEF parse_identifier_expr, Failed, Parsed
<1>2. parse_identifier_expr(k).nodes = <<n>> /\ parse_identifier_expr(k).idx = k + 1
  BY <1>1 DEF parse_identifier_expr, Parsed
<1>3. Ident(n) = Ident(tokens[k + 1])
  BY DEF Ident, mk_identifer_expr
<1>4. Meaning(tokens[k + 1]) = Ident(n) /\ Kind(k) # "T_EOF"
  BY <1>1, <1>3 DEF Meaning, Kind
<1> HIDE DEF n
<1> QED BY <1>2, <1>4, SaysOne

LEMMA LitWords ==
  ASSUME NEW t \in DOMAIN lit_of
  PROVE  (IF lit_of[t] = "LIT_QWORD" THEN <<>> ELSE Sign(TokenOf(lit_of[t], lit_of)))
           = IF t = "T_QWORD" THEN <<>> ELSE Sign(t)
<1>1. lit_of[t] = "LIT_QWORD" <=> t = "T_QWORD"
  BY DEF lit_of
<1>2. TokenOf(lit_of[t], lit_of) = t
  <2>1. \A u \in DOMAIN lit_of : lit_of[u] = lit_of[t] => u = t
    BY DEF lit_of
  <2> QED BY <2>1 DEF TokenOf
<1> QED BY <1>1, <1>2

LEMMA SaysType ==
  ASSUME tokens \in Inputs, NEW k, InTokens(k), parse_var_type(k).nodes # <<>>
  PROVE  LET type == parse_var_type(k)
         IN type.nodes = <<type.nodes[1]>> /\ Says(k, TypeWords(type.nodes[1]), type.idx)
<1> DEFINE is_adr == Kind(k) = "T_AND"
           at == IF is_adr THEN k + 1 ELSE k
           explicit == Kind(at) \in DOMAIN lit_of
           next == IF explicit THEN at + 1 ELSE at
           lit == IF explicit THEN lit_of[Kind(at)] ELSE "LIT_QWORD"
           num == tokens[next + 2].num
           adr_words == IF is_adr THEN Sign("T_AND") ELSE <<>>
           lit_words == IF lit = "LIT_QWORD" THEN <<>> ELSE Sign(TokenOf(lit, lit_of))
           len_words == (Sign("T_LEFT_BRACKET") \o Number(num)) \o Sign("T_RIGHT_BRACKET")
<1>1. Says(k, adr_words, at)
  <2>1. CASE is_adr
    BY <2>1, SaysSign
  <2>2. CASE ~is_adr
    BY <2>2, SaysNone
  <2> QED BY <2>1, <2>2
<1>2. Says(at, lit_words, next)
  <2>1. InTokens(at)
    BY <1>1 DEF Says
  <2> HIDE DEF at
  <2>2. CASE explicit
    <3>1. lit_words = IF Kind(at) = "T_QWORD" THEN <<>> ELSE Sign(Kind(at))
      BY <2>2, LitWords
    <3>2. Kind(at) \notin {"T_EOF", "T_LEFT_PAREN", "T_RIGHT_PAREN", "T_COMMA", "T_IDENTIFIER", "T_NUMBER_LIT"}
      BY <2>2 DEF lit_of
    <3> HIDE DEF lit_words
    <3> QED BY <2>1, <2>2, <3>1, <3>2, SaysSign, SaysNothing
  <2>3. CASE ~explicit
    BY <2>1, <2>3, SaysNone
  <2> QED BY <2>2, <2>3
<1>3. parse_var_type(k) =
        IF is_adr /\ ~explicit THEN Failed(k)
        ELSE IF Kind(next) # "T_LEFT_BRACKET" THEN Parsed(next, <<mk_var_t(is_adr, lit)>>)
        ELSE IF Kind(next + 1) = "T_NUMBER_LIT" /\ Kind(next + 2) = "T_RIGHT_BRACKET"
        THEN Parsed(next + 3, <<mk_array_t(is_adr, lit, num)>>)
        ELSE Failed(k)
  BY DEF parse_var_type
<1>4. \A j, nodes : Parsed(j, nodes).idx = j /\ Parsed(j, nodes).nodes = nodes
  BY DEF Parsed
<1>5. Failed(k) = Parsed(k, <<>>)
  BY DEF Failed
<1>6. next \in Int /\ InTokens(next)
  <2>1. InTokens(next)
    BY <1>2 DEF Says
  <2> QED BY <2>1, Lists DEF InTokens
<1>7. TypeWords(mk_var_t(is_adr, lit)) = (adr_words \o lit_words) \o <<>>
  BY DEF TypeWords, mk_var_t
<1>8. TypeWords(mk_array_t(is_adr, lit, num)) = (adr_words \o lit_words) \o len_words
  BY DEF TypeWords, mk_array_t
<1> HIDE DEF is_adr, explicit, at, next, lit, num, adr_words, lit_words
<1>9. Says(k, adr_words \o lit_words, next)
  BY <1>1, <1>2, SaysOn
<1>10. CASE Kind(next) # "T_LEFT_BRACKET"
  <2>1. Says(k, (adr_words \o lit_words) \o <<>>, next)
    BY <1>6, <1>9, SaysNone, SaysOn
  <2>2. parse_var_type(k) = Parsed(next, <<mk_var_t(is_adr, lit)>>)
    BY <1>3, <1>4, <1>5, <1>10
  <2> DEFINE t == mk_var_t(is_adr, lit)
  <2>3. Says(k, TypeWords(t), next)
    BY <1>7, <2>1
  <2> HIDE DEF t
  <2>4. parse_var_type(k).nodes = <<t>> /\ parse_var_type(k).idx = next /\ <<t>>[1] = t
    BY <1>4, <2>2 DEF t
  <2> QED BY <2>3, <2>4
<1>11. CASE Kind(next) = "T_LEFT_BRACKET"
  <2>1. /\ Kind(next + 1) = "T_NUMBER_LIT" /\ Kind(next + 2) = "T_RIGHT_BRACKET"
        /\ parse_var_type(k) = Parsed(next + 3, <<mk_array_t(is_adr, lit, num)>>)
    BY <1>3, <1>4, <1>5, <1>11
  <2>2. Says(next, Sign("T_LEFT_BRACKET"), next + 1)
    BY <1>6, <1>11, SaysSign
  <2>3. /\ (next + 1) + 1 = next + 2 /\ (next + 2) + 1 = next + 3
        /\ InTokens(next + 1)
    BY <1>6, <2>2 DEF Says
  <2>4. Says(next + 1, Number(num), next + 2)
    <3>1. Says(next + 1, Number(tokens[(next + 1) + 1].num), (next + 1) + 1)
      BY <2>1, <2>3, SaysNumber
    <3> QED BY <2>3, <3>1 DEF num
  <2>5. Says(next + 2, Sign("T_RIGHT_BRACKET"), next + 3)
    <3>1. InTokens(next + 2)
      BY <2>4 DEF Says
    <3>2. Says(next + 2, Sign(Kind(next + 2)), (next + 2) + 1)
      BY <2>1, <3>1, SaysSign
    <3> QED BY <2>1, <2>3, <3>2
  <2>6. Says(next, len_words, next + 3)
    BY <2>2, <2>4, <2>5, SaysOn
  <2> HIDE DEF len_words
  <2>7. Says(k, (adr_words \o lit_words) \o len_words, next + 3)
    BY <1>9, <2>6, SaysOn
  <2> DEFINE t == mk_array_t(is_adr, lit, num)
  <2>8. Says(k, TypeWords(t), next + 3)
    BY <1>8, <2>7
  <2> HIDE DEF t
  <2>9. parse_var_type(k).nodes = <<t>> /\ parse_var_type(k).idx = next + 3 /\ <<t>>[1] = t
    BY <1>4, <2>1 DEF t
  <2> QED BY <2>8, <2>9
<1> QED BY <1>10, <1>11

LEMMA SaysTyped ==
  ASSUME tokens \in Inputs, NEW k, InTokens(k), TypedIdent(k).nodes # <<>>
  PROVE  LET decl == TypedIdent(k)
         IN /\ decl.nodes = <<decl.nodes[1], decl.nodes[2]>>
            /\ Says(k, TypeWords(decl.nodes[1]) \o Ident(decl.nodes[2]), decl.idx)
<1> DEFINE type == parse_var_type(k)
           ident == parse_identifier_expr(type.idx)
<1>1. TypedIdent(k) = IF type.nodes = <<>> \/ ident.nodes = <<>> THEN Parsed(k, <<>>)
                      ELSE Parsed(ident.idx, type.nodes \o ident.nodes)
  BY DEF TypedIdent, Failed
<1>2. type.nodes # <<>> /\ ident.nodes # <<>> /\ TypedIdent(k) = Parsed(ident.idx, type.nodes \o ident.nodes)
  <2> HIDE DEF type, ident
  <2> QED BY <1>1 DEF Parsed
<1>3. type.nodes = <<type.nodes[1]>> /\ Says(k, TypeWords(type.nodes[1]), type.idx)
  BY <1>2, SaysType
<1>4. ident.nodes = <<ident.nodes[1]>> /\ Says(type.idx, Ident(ident.nodes[1]), ident.idx)
  BY <1>2, <1>3, SaysIdent DEF Says
<1> HIDE DEF type, ident
<1>5. PICK t, n : type.nodes = <<t>> /\ ident.nodes = <<n>>
  BY <1>3, <1>4
<1>6. type.nodes \o ident.nodes = <<t, n>> /\ type.nodes[1] = t /\ ident.nodes[1] = n
  <2>1. <<t>> \o <<n>> = Append(<<t>>, n)
    <3>1. <<t>> \in Seq({t, n})
      OBVIOUS
    <3> QED BY <3>1, AppendIsConcat
  <2>2. <<t, n>> = Append(<<t>>, n)
    OBVIOUS
  <2>3. <<t>>[1] = t /\ <<n>>[1] = n
    OBVIOUS
  <2> QED BY <1>5, <2>1, <2>2, <2>3
<1>7. Says(k, TypeWords(t) \o Ident(n), ident.idx)
  BY <1>3, <1>4, <1>6, SaysOn
<1>8. TypedIdent(k).nodes = <<t, n>> /\ TypedIdent(k).idx = ident.idx
  BY <1>2, <1>6 DEF Parsed
<1>9. <<t, n>>[1] = t /\ <<t, n>>[2] = n
  OBVIOUS
<1> QED BY <1>7, <1>8, <1>9

-----------------------------------------------------------------------------
(* What the nodes say                                                      *)
(*                                                                         *)
(* C gives the words of the nodes that have been made.                     *)

\* The nodes whose words are in those of n.
Parts(n) ==
  CASE n.type = "AST_VAR_DECL" -> {n.assign} \ {Null}
    [] n.type = "AST_IF"       -> {n.cond, n.then_branch} \cup ({n.else_branch} \ {Null})
    [] OTHER                   -> Range(Below(n))

\* What they assign to can be assigned to, and parameters are a list.
Proper(n) ==
  /\ n.type = "AST_ASSIGN" => assignable(n.target)
  /\ n.type = "AST_FUNC_DECL" => IsSeq(n.func_t.params)

\* V are nodes that have been made, C their words.
Spelt(V, C) ==
  /\ Null \notin V
  /\ \A n \in V : /\ Parts(n) \subseteq V
                  /\ IsSeq(C[n]) /\ C[n] = NodeWords(C, n)
                  /\ Proper(n)

\* More nodes.
Longer(V, C, W, D) == Spelt(W, D) /\ V \subseteq W /\ \A n \in V : D[n] = C[n]

\* The tokens of its own that fn reads before the first thing it has in hand,
\* in a loop, and those before the i-th.
Start(fn) == IF fn = "parse_block_stmt" THEN Sign("T_LEFT_BRACE") ELSE <<>>
Lead(fn, i) ==
  CASE fn = "parse_assign_expr" /\ i = 2 -> Sign("T_EQUAL")
    [] fn = "parse_postfix" /\ i = 2     -> Sign("T_LEFT_BRACKET")
    [] fn = "parse_call_expr" /\ i = 1   -> Sign("T_CALL")
    [] fn = "parse_return_stmt" /\ i = 1 -> Sign("T_RETURN")
    [] fn = "parse_if_stmt" /\ i = 1     -> Sign("T_IF")
    [] fn = "parse_if_stmt" /\ i = 3     -> Sign("T_ELSE")
    [] fn = "parse_var_decl" /\ i = 1    -> Sign("T_LET")
    [] fn = "parse_var_decl" /\ i = 3    -> Sign("T_EQUAL")
    [] fn = "parse_func_decl" /\ i = 1   -> Sign("T_FUNC")
    [] OTHER                             -> <<>>

\* The words of a thing of the given kind.
Part(C, kind, v) ==
  CASE kind = "stmt"            -> StatementWords(C, v)
    [] kind \in {"expr", "block", "decl", "func", "plain", "top"} -> C[v]
    [] kind = "unary"           -> Sign(TokenOf(v, unary_op))
    [] kind = "binary"          -> Sign(TokenOf(v, binary_sign))
    [] kind = "type"            -> TypeWords(v)
    [] kind = "ident"           -> Ident(v)
    [] kind = "param"           -> TypeWords(v.var_t) \o Ident(v.ident)
    [] kind = "params"          -> ParamWords(v)
    [] OTHER                    -> <<>>

\* The words of what fn has in hand, with the tokens of its own before them.
ArgWords(C, vs) == [i \in 1..Len(vs) - 1 |-> C[vs[i + 1]]]
HandWords(C, fn, vs) == [i \in 1..Len(vs) |-> Lead(fn, i) \o Part(C, Wants(fn, i), vs[i])]
Said(C, fn, vs) ==
  IF fn = "parse_call_expr" /\ vs # <<>>
  THEN (Sign("T_CALL") \o Ident(vs[1])) \o FlattenSeq(ArgWords(C, vs))
  ELSE Start(fn) \o FlattenSeq(HandWords(C, fn, vs))

Spells(V, C, kind, v) == (kind \in NodeKinds => v \in V) /\ IsSeq(Part(C, kind, v))

Held(V, C, fn, vs) == \A i \in 1..Len(vs) : Spells(V, C, Wants(fn, i), vs[i])

\* What is left of an '=' can be assigned to.
Aimed(fn, vs, i) == fn = "parse_assign_expr" /\ i > 1 => assignable(vs[1])

LEMMA Leads ==
  ASSUME NEW fn, NEW i
  PROVE  IsSeq(Start(fn)) /\ IsSeq(Lead(fn, i))
<1>1. IsSeq(Start(fn))
  BY Singles, OneWord DEF Start
<1>2. IsSeq(Lead(fn, i))
  BY Singles, OneWord DEF Lead
<1> QED BY <1>1, <1>2

\* The same nodes have the same words.
LEMMA NodeWordsSame ==
  ASSUME NEW C, NEW D, NEW n, \A m \in Parts(n) : C[m] = D[m]
  PROVE  NodeWords(C, n) = NodeWords(D, n)
<1>1. CASE n.type = "AST_UNARY"
  <2>1. Parts(n) = {n.expr}
    BY <1>1, RangeOf DEF Parts, Below
  <2> QED BY <1>1, <2>1 DEF NodeWords
<1>2. CASE n.type = "AST_BINARY"
  <2>1. Parts(n) = {n.expr_left, n.expr_right}
    BY <1>2, RangeOf DEF Parts, Below
  <2> QED BY <1>2, <2>1 DEF NodeWords
<1>3. CASE n.type = "AST_ASSIGN"
  <2>1. Parts(n) = {n.target, n.val}
    BY <1>3, RangeOf DEF Parts, Below
  <2> QED BY <1>3, <2>1 DEF NodeWords
<1>4. CASE n.type = "AST_CALL"
  <2>1. Parts(n) = Range(n.args)
    BY <1>4 DEF Parts, Below
  <2>2. \A k \in DOMAIN n.args : C[n.args[k]] = D[n.args[k]]
    BY <2>1 DEF Range
  <2>3. [k \in DOMAIN n.args |-> C[n.args[k]]] = [k \in DOMAIN n.args |-> D[n.args[k]]]
    BY <2>2
  <2> QED BY <1>4, <2>3 DEF NodeWords
<1>5. CASE n.type = "AST_CAST"
  <2>1. Parts(n) = {n.inner}
    BY <1>5, RangeOf DEF Parts, Below
  <2> QED BY <1>5, <2>1 DEF NodeWords
<1>6. CASE n.type = "AST_INDEX"
  <2>1. Parts(n) = {n.target, n.index}
    BY <1>6, RangeOf DEF Parts, Below
  <2> QED BY <1>6, <2>1 DEF NodeWords
<1>7. CASE n.type = "AST_RETURN"
  <2>1. Parts(n) = {n.return_val}
    BY <1>7, RangeOf DEF Parts, Below
  <2> QED BY <1>7, <2>1 DEF NodeWords
<1>8. CASE n.type = "AST_IF"
  <2>1. Parts(n) = {n.cond, n.then_branch} \cup ({n.else_branch} \ {Null})
    BY <1>8 DEF Parts
  <2>2. C[n.cond] = D[n.cond] /\ C[n.then_branch] = D[n.then_branch]
    BY <2>1
  <2>3. n.else_branch # Null => C[n.else_branch] = D[n.else_branch]
    BY <2>1
  <2> QED BY <1>8, <2>2, <2>3 DEF NodeWords
<1>9. CASE n.type = "AST_BLOCK"
  <2>1. Parts(n) = Range(n.nodes)
    BY <1>9 DEF Parts, Below
  <2>2. \A k \in DOMAIN n.nodes : C[n.nodes[k]] = D[n.nodes[k]]
    BY <2>1 DEF Range
  <2>3. \A k \in DOMAIN n.nodes : StatementWords(C, n.nodes[k]) = StatementWords(D, n.nodes[k])
    BY <2>2 DEF StatementWords
  <2>4. [k \in DOMAIN n.nodes |-> StatementWords(C, n.nodes[k])]
          = [k \in DOMAIN n.nodes |-> StatementWords(D, n.nodes[k])]
    BY <2>3
  <2> QED BY <1>9, <2>4 DEF NodeWords
<1>10. CASE n.type = "AST_VAR_DECL"
  <2>1. Parts(n) = {n.assign} \ {Null}
    BY <1>10 DEF Parts
  <2>2. n.assign # Null => C[n.assign] = D[n.assign]
    BY <2>1
  <2> QED BY <1>10, <2>2 DEF NodeWords
<1>11. CASE n.type = "AST_FUNC_DECL"
  <2>1. Parts(n) = {n.block}
    BY <1>11, RangeOf DEF Parts, Below
  <2> QED BY <1>11, <2>1 DEF NodeWords
<1>12. CASE n.type \notin {"AST_UNARY", "AST_BINARY", "AST_ASSIGN", "AST_CALL", "AST_CAST", "AST_INDEX",
                           "AST_RETURN", "AST_IF", "AST_BLOCK", "AST_VAR_DECL", "AST_FUNC_DECL"}
  BY <1>12 DEF NodeWords
<1> QED BY <1>1, <1>2, <1>3, <1>4, <1>5, <1>6, <1>7, <1>8, <1>9, <1>10, <1>11, <1>12

\* A node over nodes that have been made.
LEMMA NewWords ==
  ASSUME NEW V, NEW C, Spelt(V, C), NEW n, n # Null, Parts(n) \subseteq V, IsSeq(NodeWords(C, n)),
         Proper(n)
  PROVE  \E W, D : Longer(V, C, W, D) /\ n \in W /\ D[n] = NodeWords(C, n)
<1>1. CASE n \in V
  BY <1>1 DEF Spelt, Longer
<1>2. CASE n \notin V
  <2> DEFINE W == V \cup {n}
             D == [m \in W |-> IF m = n THEN NodeWords(C, n) ELSE C[m]]
  <2>1. D[n] = NodeWords(C, n) /\ \A m \in V : D[m] = C[m]
    BY <1>2
  <2>2. V \subseteq W /\ n \in W /\ W \subseteq V \cup {n}
    OBVIOUS
  <2> HIDE DEF D, W
  <2>3. ASSUME NEW m \in W
        PROVE  /\ Parts(m) \subseteq W
               /\ IsSeq(D[m]) /\ D[m] = NodeWords(D, m)
               /\ Proper(m)
    <3>1. /\ Parts(m) \subseteq V /\ D[m] = NodeWords(C, m) /\ IsSeq(D[m])
          /\ Proper(m)
      <4>1. CASE m = n
        BY <2>1, <4>1
      <4>2. CASE m # n
        <5>1. m \in V
          BY <2>2, <4>2
        <5> QED BY <2>1, <5>1 DEF Spelt
      <4> QED BY <4>1, <4>2
    <3>2. NodeWords(C, m) = NodeWords(D, m)
      BY <2>1, <3>1, NodeWordsSame
    <3> QED BY <2>2, <3>1, <3>2
  <2>4. Spelt(W, D)
    BY <2>2, <2>3 DEF Spelt
  <2> QED BY <2>1, <2>2, <2>4 DEF Longer
<1> QED BY <1>1, <1>2

LEMMA LongerSelf == ASSUME NEW V, NEW C, Spelt(V, C) PROVE Longer(V, C, V, C)
BY DEF Longer

LEMMA PartSame ==
  ASSUME NEW V, NEW C, NEW W, NEW D, Longer(V, C, W, D), NEW kind, NEW v, Spells(V, C, kind, v)
  PROVE  Part(D, kind, v) = Part(C, kind, v) /\ Spells(W, D, kind, v)
<1>1. kind \in NodeKinds => D[v] = C[v] /\ v \in W
  BY DEF Longer, Spells
<1>2. Part(D, kind, v) = Part(C, kind, v)
  BY <1>1 DEF Part, StatementWords, NodeKinds
<1> QED BY <1>1, <1>2 DEF Spells

LEMMA CallKinds ==
  /\ Wants("parse_call_expr", 1) = "ident"
  /\ \A i : i # 1 => Wants("parse_call_expr", i) = "expr"
BY DEF Wants, binary_op

LEMMA SaidSame ==
  ASSUME NEW V, NEW C, NEW W, NEW D, Longer(V, C, W, D), NEW fn, NEW vs, IsSeq(vs), Held(V, C, fn, vs)
  PROVE  Said(D, fn, vs) = Said(C, fn, vs) /\ Held(W, D, fn, vs)
<1>1. \A i \in 1..Len(vs) : /\ Part(D, Wants(fn, i), vs[i]) = Part(C, Wants(fn, i), vs[i])
                            /\ Spells(W, D, Wants(fn, i), vs[i])
  BY PartSame DEF Held
<1>2. CASE fn = "parse_call_expr" /\ vs # <<>>
  <2>1. ASSUME NEW i \in 1..Len(vs) - 1 PROVE D[vs[i + 1]] = C[vs[i + 1]]
    <3>1. i + 1 \in 1..Len(vs) /\ i + 1 # 1
      BY LenNat
    <3>2. PICK j \in 1..Len(vs) : j = i + 1 /\ j # 1
      BY <3>1
    <3>3. Wants(fn, j) = "expr"
      BY <1>2, <3>2, CallKinds
    <3>4. Part(D, "expr", vs[j]) = Part(C, "expr", vs[j])
      BY <1>1, <3>3
    <3> QED BY <3>2, <3>4 DEF Part
  <2>2. ArgWords(D, vs) = ArgWords(C, vs)
    BY <2>1 DEF ArgWords
  <2> QED BY <1>1, <1>2, <2>2 DEF Said, Held
<1>3. CASE ~(fn = "parse_call_expr" /\ vs # <<>>)
  <2>1. HandWords(D, fn, vs) = HandWords(C, fn, vs)
    BY <1>1 DEF HandWords
  <2> QED BY <1>1, <1>3, <2>1 DEF Said, Held
<1> QED BY <1>2, <1>3

LEMMA SaidNone == ASSUME NEW C, NEW fn PROVE Said(C, fn, <<>>) = Start(fn)
<1>1. HandWords(C, fn, <<>>) = <<>>
  <2>1. 1..Len(<<>>) = {}
    OBVIOUS
  <2> QED BY <2>1 DEF HandWords
<1>2. Said(C, fn, <<>>) = Start(fn) \o FlattenSeq(<<>>)
  BY <1>1 DEF Said
<1> QED BY <1>2, FlatNone, JoinNone, Leads

LEMMA SaidSeq ==
  ASSUME NEW V, NEW C, NEW fn, NEW vs, IsSeq(vs), Held(V, C, fn, vs)
  PROVE  /\ IsSeq(Said(C, fn, vs))
         /\ IsSeqs(HandWords(C, fn, vs)) /\ Len(HandWords(C, fn, vs)) = Len(vs)
         /\ IsSeq(FlattenSeq(HandWords(C, fn, vs)))
         /\ fn = "parse_call_expr" /\ vs # <<>> =>
              /\ IsSeqs(ArgWords(C, vs)) /\ Len(ArgWords(C, vs)) = Len(vs) - 1
              /\ IsSeq(FlattenSeq(ArgWords(C, vs)))
<1>1. Len(vs) \in Nat /\ (vs # <<>> => Len(vs) - 1 \in Nat)
  BY LenNat
<1> DEFINE m == HandWords(C, fn, vs)
           a == ArgWords(C, vs)
<1>2. IsSeqs(m) /\ Len(m) = Len(vs) /\ IsSeq(FlattenSeq(m))
  <2>1. \A i \in 1..Len(vs) : IsSeq(m[i])
    BY Leads, Joined DEF Held, Spells, HandWords
  <2>2. m = [i \in 1..Len(vs) |-> m[i]]
    BY DEF HandWords
  <2> HIDE DEF m
  <2>3. IsSeq(m) /\ Len(m) = Len(vs)
    BY <1>1, <2>2, FunctionSeq
  <2>4. IsSeqs(m)
    BY <2>1, <2>3 DEF IsSeqs
  <2> QED BY <2>3, <2>4, FlatAppend
<1>3. ASSUME fn = "parse_call_expr", vs # <<>>
      PROVE  IsSeqs(a) /\ Len(a) = Len(vs) - 1 /\ IsSeq(FlattenSeq(a))
  <2>1. ASSUME NEW i \in 1..Len(vs) - 1 PROVE IsSeq(a[i])
    <3>1. i + 1 \in 1..Len(vs) /\ i + 1 # 1
      BY <1>1
    <3>2. PICK j \in 1..Len(vs) : j = i + 1 /\ j # 1
      BY <3>1
    <3>3. Wants(fn, j) = "expr"
      BY <1>3, <3>2, CallKinds
    <3>4. IsSeq(Part(C, "expr", vs[j]))
      BY <3>3 DEF Held, Spells
    <3> QED BY <3>2, <3>4 DEF Part, ArgWords
  <2>2. a = [i \in 1..Len(vs) - 1 |-> a[i]]
    BY DEF ArgWords
  <2> HIDE DEF a
  <2>3. IsSeq(a) /\ Len(a) = Len(vs) - 1
    BY <1>1, <1>3, <2>2, FunctionSeq
  <2>4. IsSeqs(a)
    BY <2>1, <2>3 DEF IsSeqs
  <2> QED BY <2>3, <2>4, FlatAppend
<1> HIDE DEF m, a
<1>4. IsSeq(Said(C, fn, vs))
  <2>1. CASE fn = "parse_call_expr" /\ vs # <<>>
    <3>1. Said(C, fn, vs) = (Sign("T_CALL") \o Ident(vs[1])) \o FlattenSeq(a)
      BY <2>1 DEF Said, a
    <3>2. IsSeq(Sign("T_CALL") \o Ident(vs[1]))
      BY OneWord, Joined
    <3> QED BY <1>3, <2>1, <3>1, <3>2, Joined
  <2>2. CASE ~(fn = "parse_call_expr" /\ vs # <<>>)
    <3>1. Said(C, fn, vs) = Start(fn) \o FlattenSeq(m)
      BY <2>2 DEF Said, m
    <3> QED BY <1>2, <3>1, Leads, Joined
  <2> QED BY <2>1, <2>2
<1> QED BY <1>2, <1>3, <1>4 DEF m, a

\* What fn says with one thing more in hand.
LEMMA SaidAppend ==
  ASSUME NEW V, NEW C, NEW fn, NEW vs, IsSeq(vs), Held(V, C, fn, vs),
         NEW v, Spells(V, C, Wants(fn, Len(vs) + 1), v)
  PROVE  /\ Held(V, C, fn, Append(vs, v))
         /\ Said(C, fn, Append(vs, v))
              = (Said(C, fn, vs) \o Lead(fn, Len(vs) + 1)) \o Part(C, Wants(fn, Len(vs) + 1), v)
<1> DEFINE k == Len(vs) + 1
           ws == Append(vs, v)
           l == Lead(fn, k)
           p == Part(C, Wants(fn, k), v)
<1>1. Len(vs) \in Nat /\ k \in 1..k
  BY LenNat
<1>2. IsSeq(ws) /\ ws # <<>> /\ Len(ws) = k /\ ws[k] = v /\ \A i \in 1..Len(vs) : ws[i] = vs[i]
  BY Appending
<1>3. \A i \in 1..k : i = k \/ i \in 1..Len(vs)
  BY <1>1
<1>4. Held(V, C, fn, ws)
  BY <1>2, <1>3 DEF Held
<1>5. IsSeq(l) /\ IsSeq(p)
  BY Leads DEF Spells
<1> HIDE DEF ws, l, p
<1>6. CASE fn = "parse_call_expr" /\ vs # <<>>
  <2> DEFINE f == ArgWords(C, vs)
             g == ArgWords(C, ws)
             c == Sign("T_CALL") \o Ident(vs[1])
  <2>1. IsSeqs(f) /\ Len(f) = Len(vs) - 1 /\ IsSeq(FlattenSeq(f)) /\ Len(vs) > 0
    BY <1>6, SaidSeq, LenNat
  <2>2. k - 1 = Len(f) + 1 /\ Len(vs) = Len(f) + 1 /\ 1 \in 1..Len(vs) /\ Len(f) + 1 + 1 = k
    BY <1>1, <2>1
  <2>3. g = [i \in 1..Len(f) + 1 |-> g[i]]
    BY <1>2, <2>2 DEF ArgWords
  <2>4. \A i \in 1..Len(f) : g[i] = f[i]
    <3> SUFFICES ASSUME NEW i \in 1..Len(f) PROVE g[i] = f[i]
      OBVIOUS
    <3>1. i \in 1..Len(vs) - 1 /\ i \in 1..k - 1 /\ i + 1 \in 1..Len(vs)
      BY <1>1, <2>1
    <3> QED BY <1>2, <3>1 DEF ArgWords
  <2>5. g[Len(f) + 1] = C[v]
    <3>1. Len(f) + 1 \in 1..k - 1
      BY <1>1, <2>1, <2>2
    <3>2. g[Len(f) + 1] = C[ws[Len(f) + 1 + 1]]
      BY <1>2, <3>1 DEF ArgWords
    <3> QED BY <1>2, <2>2, <3>2
  <2>6. Said(C, fn, vs) = c \o FlattenSeq(f)
    BY <1>6 DEF Said
  <2>7. Said(C, fn, ws) = c \o FlattenSeq(g)
    BY <1>2, <1>6, <2>2 DEF Said
  <2> HIDE DEF f, g, c
  <2>8. p = C[v] /\ l = <<>>
    <3>1. k # 1
      BY <1>1, <1>6, LenNat
    <3>2. Wants(fn, k) = "expr"
      BY <1>6, <3>1, CallKinds
    <3>3. Lead(fn, k) = <<>>
      BY <1>6, <3>1 DEF Lead
    <3> QED BY <3>2, <3>3 DEF Part, p, l
  <2>9. g = Append(f, p)
    BY <2>1, <2>3, <2>4, <2>5, <2>8, FunctionAppend DEF IsSeqs
  <2>10. FlattenSeq(g) = FlattenSeq(f) \o p
    BY <1>5, <2>1, <2>9, FlatAppend
  <2>11. IsSeq(c)
    BY OneWord, Joined DEF c
  <2>12. (c \o FlattenSeq(f)) \o p = c \o (FlattenSeq(f) \o p)
    <3> DEFINE t == FlattenSeq(f)
    <3>1. IsSeq(c) /\ IsSeq(t) /\ IsSeq(p)
      BY <1>5, <2>1, <2>11
    <3> HIDE DEF t
    <3>2. (c \o t) \o p = c \o (t \o p)
      BY <3>1, Assoc
    <3> QED BY <3>2 DEF t
  <2>13. (c \o FlattenSeq(f)) \o l = c \o FlattenSeq(f)
    BY <2>1, <2>8, <2>11, Joined, JoinNone
  <2> QED BY <1>4, <2>6, <2>7, <2>10, <2>12, <2>13 DEF ws, l, p
<1>7. CASE ~(fn = "parse_call_expr" /\ vs # <<>>)
  <2> DEFINE f == HandWords(C, fn, vs)
             g == HandWords(C, fn, ws)
  <2>1. IsSeqs(f) /\ Len(f) = Len(vs) /\ IsSeq(FlattenSeq(f))
    BY SaidSeq
  <2>2. g = [i \in 1..Len(f) + 1 |-> g[i]]
    BY <1>2, <2>1 DEF HandWords
  <2>3. \A i \in 1..Len(f) : g[i] = f[i]
    <3>1. \A i \in 1..Len(vs) : i \in 1..Len(ws)
      BY <1>1, <1>2
    <3> QED BY <1>2, <2>1, <3>1 DEF HandWords
  <2>4. g[k] = l \o p
    BY <1>1, <1>2 DEF l, p, HandWords
  <2>5. Said(C, fn, vs) = Start(fn) \o FlattenSeq(f)
    BY <1>7 DEF Said
  <2> HIDE DEF f, g
  <2>6. g = Append(f, l \o p)
    <3>1. IsSeq(f)
      BY <2>1 DEF IsSeqs
    <3>2. g = Append(f, g[Len(f) + 1])
      BY <2>2, <2>3, <3>1, FunctionAppend
    <3> QED BY <2>1, <2>4, <3>2
  <2>7. FlattenSeq(g) = FlattenSeq(f) \o (l \o p)
    BY <1>5, <2>1, <2>6, FlatAppend, Joined
  <2>8. Said(C, fn, ws) = Start(fn) \o FlattenSeq(g)
    <3>1. CASE fn # "parse_call_expr"
      BY <1>2, <3>1 DEF Said, g
    <3>2. CASE fn = "parse_call_expr" /\ vs = <<>>
      <4>1. Len(vs) = 0 /\ k = 1
        BY <3>2
      <4>2. l = Sign("T_CALL") /\ p = Ident(v)
        <5>1. Lead("parse_call_expr", 1) = Sign("T_CALL")
          BY DEF Lead
        <5>2. Part(C, "ident", v) = Ident(v)
          BY DEF Part
        <5> QED BY <3>2, <4>1, <5>1, <5>2, CallKinds DEF l, p
      <4>3. ArgWords(C, ws) = <<>>
        <5>1. 1..k - 1 = {}
          BY <4>1
        <5> QED BY <1>2, <5>1 DEF ArgWords
      <4>4. Said(C, fn, ws) = (l \o p) \o <<>>
        BY <1>2, <3>2, <4>1, <4>2, <4>3, FlatNone DEF Said
      <4>5. FlattenSeq(f) = <<>> /\ Start(fn) = <<>>
        <5>1. f = <<>>
          <6>1. 1..Len(vs) = {}
            BY <4>1
          <6> QED BY <6>1 DEF f, HandWords
        <5> QED BY <3>2, <5>1, FlatNone DEF Start
      <4>6. IsSeq(l \o p)
        BY <1>5, Joined
      <4> QED BY <2>7, <4>4, <4>5, <4>6, JoinNone
    <3> QED BY <1>7, <3>1, <3>2
  <2> DEFINE s == Start(fn)
             t == FlattenSeq(f)
  <2>9. IsSeq(s) /\ IsSeq(t)
    BY <2>1, Leads
  <2> HIDE DEF s, t
  <2>10. s \o (t \o (l \o p)) = ((s \o t) \o l) \o p
    <3> DEFINE q == l \o p
               r == s \o t
    <3>1. IsSeq(q)
      BY <1>5, Joined
    <3>2. IsSeq(r)
      BY <2>9, Joined
    <3> HIDE DEF q, r
    <3>3. Associates(s, t, q)
      BY <2>9, <3>1, AssocNamed
    <3>4. Associates(r, l, p)
      BY <1>5, <3>2, AssocNamed
    <3> QED BY <3>3, <3>4 DEF Associates, q, r
  <2> QED BY <1>4, <2>5, <2>7, <2>8, <2>10 DEF ws, l, p, s, t
<1> QED BY <1>6, <1>7

-----------------------------------------------------------------------------
(* What the frames say *)

\* fn, with vs in hand, has read the tokens from a up to b; when it waits for
\* one thing more, also the tokens of its own before that.
Runs(V, C, fn, vs, a, b) ==
  Held(V, C, fn, vs) /\ Aimed(fn, vs, Len(vs)) /\ Says(a, Said(C, fn, vs), b)
Waits(V, C, fn, vs, a, b) ==
  /\ Held(V, C, fn, vs) /\ Aimed(fn, vs, Len(vs) + 1)
  /\ Says(a, Said(C, fn, vs) \o Lead(fn, Len(vs) + 1), b)

\* Frame j has read the tokens from st[j] on, up to those that are for the
\* frame above it.
Told(V, C, st, fs, k) ==
  /\ \A j \in 1..Len(fs) - 1 : Waits(V, C, fs[j].fn, fs[j].vals, st[j], st[j + 1])
  /\ Runs(V, C, fs[Len(fs)].fn, fs[Len(fs)].vals, st[Len(fs)], k)

WordsInv == \E V, C, st : Spelt(V, C) /\ st[1] = 0 /\ Told(V, C, st, frames, idx)

\* What is known before a step.
Read(U, V, C, st) ==
  IInv /\ Before(U) /\ Spelt(V, C) /\ st[1] = 0 /\ Told(V, C, st, frames, idx)

LEMMA LongerFrame ==
  ASSUME NEW V, NEW C, NEW W, NEW D, Longer(V, C, W, D), NEW fn, NEW vs, IsSeq(vs), NEW a, NEW b
  PROVE  /\ Runs(V, C, fn, vs, a, b) => Runs(W, D, fn, vs, a, b)
         /\ Waits(V, C, fn, vs, a, b) => Waits(W, D, fn, vs, a, b)
<1>1. Held(V, C, fn, vs) => Said(D, fn, vs) = Said(C, fn, vs) /\ Held(W, D, fn, vs)
  BY SaidSame
<1> QED BY <1>1 DEF Runs, Waits

LEMMA LongerBelow ==
  ASSUME NEW V, NEW C, NEW W, NEW D, Longer(V, C, W, D), NEW fs, IsStack(fs), NEW st, NEW k,
         Told(V, C, st, fs, k)
  PROVE  Told(W, D, st, fs, k)
<1>1. Len(fs) \in Nat /\ Len(fs) > 0
  BY LenNat DEF IsStack
<1>2. \A j \in 1..Len(fs) : IsSeq(fs[j].vals)
  BY DEF IsStack, IsFrame
<1>3. Len(fs) \in 1..Len(fs) /\ \A j \in 1..Len(fs) - 1 : j \in 1..Len(fs)
  BY <1>1
<1>4. \A j \in 1..Len(fs) - 1 : Waits(W, D, fs[j].fn, fs[j].vals, st[j], st[j + 1])
  BY <1>2, <1>3, LongerFrame DEF Told
<1>5. Runs(W, D, fs[Len(fs)].fn, fs[Len(fs)].vals, st[Len(fs)], k)
  BY <1>2, <1>3, LongerFrame DEF Told
<1> QED BY <1>4, <1>5 DEF Told

LEMMA SameSays ==
  ASSUME tokens' = tokens
  PROVE  \A k, w, j : Says(k, w, j)' = Says(k, w, j)
BY DEF Says, InTokens, Upto, Content

\* The next state, from what the frames will say.
LEMMA ToldNext ==
  ASSUME tokens' = tokens, NEW V, NEW C, Spelt(V, C), NEW st, st[1] = 0, NEW fs, NEW k,
         Told(V, C, st, fs, k), frames' = fs, idx' = k
  PROVE  WordsInv'
<1>1. \A fn, vs, a, b : /\ Runs(V, C, fn, vs, a, b)' = Runs(V, C, fn, vs, a, b)
                        /\ Waits(V, C, fn, vs, a, b)' = Waits(V, C, fn, vs, a, b)
  BY SameSays DEF Runs, Waits
<1>2. Told(V, C, st, frames, idx)'
  BY <1>1 DEF Told
<1> QED BY <1>2 DEF WordsInv

\* What the frame at the top has read.
LEMMA Reading ==
  ASSUME NEW U, NEW V, NEW C, NEW st, Read(U, V, C, st)
  PROVE  /\ IInv /\ Before(U) /\ Spelt(V, C) /\ tokens \in Inputs
         /\ IsStack(frames) /\ Top = frames[Len(frames)] /\ IsSeq(vals) /\ Len(vals) \in Nat
         /\ Held(V, C, Top.fn, vals) /\ Aimed(Top.fn, vals, Len(vals))
         /\ Says(st[Len(frames)], Said(C, Top.fn, vals), idx)
BY Here DEF Read, Told, Runs, vals

LEMMA KeepWords ==
  ASSUME NEW U, NEW V, NEW C, NEW st, Read(U, V, C, st), NEW W, NEW D, Longer(V, C, W, D),
         NEW k, NEW vs, Runs(W, D, Top.fn, vs, st[Len(frames)], k), Keep(k, vs)
  PROVE  WordsInv'
<1>1. IsStack(frames) /\ Top = frames[Len(frames)]
  BY Reading
<1>2. Told(W, D, st, frames, idx)
  BY <1>1, LongerBelow DEF Read
<1> DEFINE gs == [frames EXCEPT ![Len(frames)].vals = vs]
<1>3. /\ Len(gs) = Len(frames) /\ gs[Len(frames)] = Frame(Top.fn, vs)
      /\ \A j \in 1..Len(frames) - 1 : gs[j] = frames[j]
  BY <1>1, SetBelow
<1>4. frames' = gs /\ idx' = k /\ tokens' = tokens
  BY DEF Keep
<1>5. Frame(Top.fn, vs).fn = Top.fn /\ Frame(Top.fn, vs).vals = vs
  BY DEF Frame
<1> HIDE DEF gs
<1>6. Told(W, D, st, gs, k)
  BY <1>2, <1>3, <1>5 DEF Told
<1> QED BY <1>4, <1>6, ToldNext DEF Read, Longer

\* One more frame, with nothing in hand.
LEMMA ToldPush ==
  ASSUME NEW V, NEW C, NEW st, NEW fs, IsStack(fs), NEW b, NEW k, NEW fn, Says(b, Start(fn), k),
         \A j \in 1..Len(fs) - 1 : Waits(V, C, fs[j].fn, fs[j].vals, st[j], st[j + 1]),
         Waits(V, C, fs[Len(fs)].fn, fs[Len(fs)].vals, st[Len(fs)], b)
  PROVE  \E t : t[1] = st[1] /\ Told(V, C, t, Append(fs, Frame(fn, <<>>)), k)
<1> DEFINE n == Len(fs)
           t == [j \in 1..n + 1 |-> IF j = n + 1 THEN b ELSE st[j]]
           gs == Append(fs, Frame(fn, <<>>))
<1>1. n \in Nat /\ n > 0 /\ IsSeq(fs)
  BY LenNat DEF IsStack
<1>2. Len(gs) = n + 1 /\ gs[n + 1] = Frame(fn, <<>>) /\ \A j \in 1..n : gs[j] = fs[j]
  BY <1>1, Appending
<1> HIDE DEF n, gs
<1>3. t[n + 1] = b /\ \A j \in 1..n : t[j] = st[j]
  BY <1>1
<1> HIDE DEF t
<1>4. ASSUME NEW j \in 1..(n + 1) - 1
      PROVE  Waits(V, C, gs[j].fn, gs[j].vals, t[j], t[j + 1])
  <2>0. j \in 1..n
    BY <1>1
  <2>1. gs[j] = fs[j] /\ t[j] = st[j]
    BY <1>2, <1>3, <2>0
  <2>2. CASE j = n
    BY <1>3, <2>1, <2>2 DEF n
  <2>3. CASE j # n
    <3>1. j \in 1..n - 1 /\ j + 1 \in 1..n
      BY <1>1, <2>0, <2>3
    <3>2. t[j + 1] = st[j + 1]
      BY <1>3, <3>1
    <3> QED BY <2>1, <3>1, <3>2 DEF n
  <2> QED BY <2>2, <2>3
<1>5. Runs(V, C, fn, <<>>, b, k)
  <2>1. Len(<<>>) = 0 /\ 1..Len(<<>>) = {}
    OBVIOUS
  <2>2. Said(C, fn, <<>>) = Start(fn)
    BY SaidNone
  <2>3. Held(V, C, fn, <<>>)
    BY <2>1 DEF Held
  <2>4. Aimed(fn, <<>>, Len(<<>>))
    <3>1. ~(0 > 1)
      OBVIOUS
    <3> QED BY <2>1, <3>1 DEF Aimed
  <2> QED BY <2>2, <2>3, <2>4 DEF Runs
<1>6. Frame(fn, <<>>).fn = fn /\ Frame(fn, <<>>).vals = <<>>
  BY DEF Frame
<1>7. Told(V, C, t, gs, k)
  BY <1>2, <1>3, <1>4, <1>5, <1>6 DEF Told
<1>8. t[1] = st[1]
  <2>1. 1 \in 1..n
    BY <1>1
  <2> QED BY <1>3, <2>1
<1> QED BY <1>7, <1>8 DEF gs

LEMMA CallWords ==
  ASSUME NEW U, NEW V, NEW C, NEW st, Read(U, V, C, st), NEW vs, IsSeq(vs), NEW b, NEW k, NEW fn,
         Waits(V, C, Top.fn, vs, st[Len(frames)], b), Says(b, Start(fn), k), Call(k, vs, fn)
  PROVE  WordsInv'
<1> DEFINE hs == [frames EXCEPT ![Len(frames)].vals = vs]
<1>1. IsStack(frames) /\ Top = frames[Len(frames)]
  BY Reading
<1>2. Spelt(V, C) /\ st[1] = 0 /\ Told(V, C, st, frames, idx)
  BY DEF Read
<1>3. /\ Len(hs) = Len(frames) /\ hs[Len(frames)] = Frame(Top.fn, vs)
      /\ \A j \in 1..Len(frames) - 1 : hs[j] = frames[j]
  BY <1>1, SetBelow
<1>4. IsStack(hs)
  BY <1>1, SetTop
<1>5. frames' = Append(hs, Frame(fn, <<>>)) /\ idx' = k /\ tokens' = tokens
  BY DEF Call
<1> HIDE DEF hs
<1>6. Frame(Top.fn, vs).vals = vs /\ Frame(Top.fn, vs).fn = Top.fn
  BY DEF Frame
<1>7. PICK t : t[1] = st[1] /\ Told(V, C, t, Append(hs, Frame(fn, <<>>)), k)
  <2>1. Waits(V, C, hs[Len(hs)].fn, hs[Len(hs)].vals, st[Len(hs)], b)
    BY <1>3, <1>6
  <2>2. \A j \in 1..Len(hs) - 1 : Waits(V, C, hs[j].fn, hs[j].vals, st[j], st[j + 1])
    BY <1>2, <1>3 DEF Told
  <2> QED BY <1>4, <2>1, <2>2, ToldPush
<1> QED BY <1>2, <1>5, <1>7, ToldNext

LEMMA ToldPop ==
  ASSUME NEW V, NEW C, NEW st, NEW fs, IsStack(fs), NEW k, Told(V, C, st, fs, k), Len(fs) > 1
  PROVE  LET hs == Front(fs)
             n == Len(hs)
         IN /\ n = Len(fs) - 1 /\ n \in Nat /\ n > 0
            /\ \A j \in 1..n : Waits(V, C, hs[j].fn, hs[j].vals, st[j], st[j + 1])
<1> DEFINE hs == Front(fs)
<1>1. Len(fs) \in Nat /\ IsSeq(fs) /\ Len(fs) > 0
  BY LenNat DEF IsStack
<1>2. Len(hs) = Len(fs) - 1 /\ \A j \in 1..Len(fs) - 1 : hs[j] = fs[j]
  BY <1>1, Fronts
<1> HIDE DEF hs
<1>3. \A j \in 1..Len(fs) - 1 : Waits(V, C, hs[j].fn, hs[j].vals, st[j], st[j + 1])
  BY <1>2 DEF Told
<1>4. Len(fs) - 1 \in Nat /\ Len(fs) - 1 > 0
  BY <1>1
<1> QED BY <1>2, <1>3, <1>4 DEF hs

LEMMA BecomeWords ==
  ASSUME NEW U, NEW V, NEW C, NEW st, Read(U, V, C, st), Top.fn # "parse_program", Len(vals) = 0,
         NEW fn, Start(fn) = Start(Top.fn), Become(fn)
  PROVE  WordsInv'
<1> DEFINE hs == Front(frames)
           n == Len(hs)
<1>1. IsStack(frames) /\ Top = frames[Len(frames)] /\ vals = <<>>
  BY Reading, LenNat
<1>2. IsStack(hs) /\ Len(frames) > 1
  BY <1>1, PopFrame
<1>3. Spelt(V, C) /\ st[1] = 0 /\ Told(V, C, st, frames, idx)
  BY DEF Read
<1>4. /\ n = Len(frames) - 1 /\ n \in Nat /\ n > 0
      /\ \A j \in 1..n : Waits(V, C, hs[j].fn, hs[j].vals, st[j], st[j + 1])
  BY <1>1, <1>2, <1>3, ToldPop
<1>5. frames' = Append(hs, Frame(fn, <<>>)) /\ idx' = idx /\ tokens' = tokens
  BY DEF Become
<1>6. Says(st[n + 1], Start(fn), idx)
  <2>1. Says(st[Len(frames)], Said(C, Top.fn, <<>>), idx)
    BY <1>1, Reading
  <2>2. Len(frames) = n + 1
    BY <1>4
  <2> QED BY <2>1, <2>2, SaidNone
<1>7. \A j \in 1..n - 1 : j \in 1..n
  BY <1>4
<1>8. n \in 1..n
  BY <1>4
<1> HIDE DEF hs
<1>9. PICK t : t[1] = st[1] /\ Told(V, C, t, Append(hs, Frame(fn, <<>>)), idx)
  BY <1>2, <1>4, <1>6, <1>7, <1>8, ToldPush
<1> QED BY <1>3, <1>5, <1>9, ToldNext

LEMMA PartGoes ==
  ASSUME NEW V, NEW C, NEW kind, NEW want, Goes(kind, want), NEW v, Spells(V, C, kind, v),
         kind = "decl" => v.type = "AST_VAR_DECL"
  PROVE  Spells(V, C, want, v) /\ Part(C, want, v) = Part(C, kind, v)
<1>1. Part(C, want, v) = Part(C, kind, v)
  <2>1. CASE want = "stmt" /\ kind = "decl"
    <3>1. Part(C, want, v) = StatementWords(C, v)
      BY <2>1 DEF Part
    <3>2. Part(C, kind, v) = C[v]
      BY <2>1 DEF Part
    <3>3. StatementWords(C, v) = C[v]
      BY <2>1 DEF StatementWords
    <3> QED BY <3>1, <3>2, <3>3
  <2>2. CASE ~(want = "stmt" /\ kind = "decl")
    BY <2>2 DEF Goes, Part
  <2> QED BY <2>1, <2>2
<1>2. want \in NodeKinds => kind \in NodeKinds
  BY NodeGoes
<1> QED BY <1>1, <1>2 DEF Spells

\* A value whose words are those of the tokens since the frame at the top
\* began.
LEMMA ReturnWords ==
  ASSUME NEW U, NEW V, NEW C, NEW st, Read(U, V, C, st), Top.fn # "parse_program",
         NEW W, NEW D, Longer(V, C, W, D), NEW k, NEW val, Spells(W, D, Gives(Top.fn), val),
         Gives(Top.fn) = "decl" => val.type = "AST_VAR_DECL",
         Says(st[Len(frames)], Part(D, Gives(Top.fn), val), k), Return(k, val)
  PROVE  WordsInv'
<1> DEFINE hs == Front(frames)
           n == Len(hs)
           vs == Append(hs[n].vals, val)
<1>1. IsStack(frames) /\ Top = frames[Len(frames)] /\ tokens \in Inputs
  BY Reading
<1>2. IsStack(hs) /\ Len(frames) > 1
  BY <1>1, PopFrame
<1>3. Spelt(W, D) /\ st[1] = 0 /\ Told(W, D, st, frames, idx)
  BY <1>1, LongerBelow DEF Read, Longer
<1>4. /\ n = Len(frames) - 1 /\ n \in Nat /\ n > 0
      /\ \A j \in 1..n : Waits(W, D, hs[j].fn, hs[j].vals, st[j], st[j + 1])
  BY <1>1, <1>2, <1>3, ToldPop
<1>5. Goes(Gives(Top.fn), Wants(hs[n].fn, Len(hs[n].vals) + 1))
  BY <1>1, <1>2, StackedPop DEF Read, Before
<1>6. frames' = [hs EXCEPT ![n].vals = vs] /\ idx' = k /\ tokens' = tokens
  BY <1>4 DEF Return
<1>7. IsSeq(hs[n].vals) /\ n \in 1..n /\ n + 1 = Len(frames)
  <2>1. n \in 1..n /\ n + 1 = Len(frames)
    BY <1>4, LenNat
  <2> QED BY <1>2, <2>1 DEF IsStack, IsFrame
<1> HIDE DEF hs
<1> DEFINE fn == hs[n].fn
           us == hs[n].vals
           want == Wants(fn, Len(us) + 1)
<1>8. Waits(W, D, fn, us, st[n], st[Len(frames)])
  BY <1>4, <1>7
<1>9. Spells(W, D, want, val) /\ Part(D, want, val) = Part(D, Gives(Top.fn), val)
  BY <1>5, PartGoes
<1>10. IsSeq(us)
  BY <1>7
<1> HIDE DEF n, fn, us
<1>11. Held(W, D, fn, us) /\ Aimed(fn, us, Len(us) + 1)
  BY <1>8 DEF Waits
<1>12. /\ Held(W, D, fn, Append(us, val))
       /\ Said(D, fn, Append(us, val)) = (Said(D, fn, us) \o Lead(fn, Len(us) + 1)) \o Part(D, want, val)
  BY <1>9, <1>10, <1>11, SaidAppend
<1>13. Says(st[n], Said(D, fn, Append(us, val)), k)
  <2>1. Says(st[n], Said(D, fn, us) \o Lead(fn, Len(us) + 1), st[Len(frames)])
    BY <1>8 DEF Waits
  <2> QED BY <1>1, <1>9, <1>12, <2>1, SaysOn
<1>14. Aimed(fn, Append(us, val), Len(Append(us, val)))
  <2>1. Len(Append(us, val)) = Len(us) + 1 /\ \A i \in 1..Len(us) : Append(us, val)[i] = us[i]
    BY <1>10, Appending
  <2>2. Len(us) + 1 > 1 => 1 \in 1..Len(us)
    BY <1>10, LenNat
  <2> QED BY <1>11, <2>1, <2>2 DEF Aimed
<1>15. Runs(W, D, fn, vs, st[n], k)
  BY <1>12, <1>13, <1>14 DEF Runs, us
<1> HIDE DEF vs
<1> DEFINE gs == [hs EXCEPT ![n].vals = vs]
<1>16. /\ Len(gs) = n /\ gs[n] = Frame(fn, vs)
       /\ \A j \in 1..n - 1 : gs[j] = hs[j]
  BY <1>2, SetBelow DEF n, fn
<1>17. Frame(fn, vs).vals = vs /\ Frame(fn, vs).fn = fn
  BY DEF Frame
<1> HIDE DEF gs
<1>18. \A j \in 1..n - 1 : j \in 1..n
  BY <1>4
<1>19. Told(W, D, st, gs, k)
  BY <1>4, <1>15, <1>16, <1>17, <1>18 DEF Told
<1> QED BY <1>3, <1>6, <1>19, ToldNext DEF gs

LEMMA SameWords == ASSUME WordsInv, UNCHANGED <<tokens, idx, frames>> PROVE WordsInv'
<1>1. PICK V, C, st : Spelt(V, C) /\ st[1] = 0 /\ Told(V, C, st, frames, idx)
  BY DEF WordsInv
<1> QED BY <1>1, ToldNext

LEMMA StopWords ==
  ASSUME NEW U, NEW V, NEW C, NEW st, Read(U, V, C, st), (\E end : Stop(end)) \/ compile_error \/ assert_failed
  PROVE  WordsInv'
<1>1. WordsInv
  BY DEF Read, WordsInv
<1> QED BY <1>1, SameWords DEF compile_error, assert_failed, Stop

-----------------------------------------------------------------------------
(* What a few things in hand say *)

\* With the last of them apart.
Added(C, fn, us, vs, m) ==
  /\ \A i \in 1..Len(us) : us[i] = vs[i]
  /\ Said(C, fn, vs) = (Said(C, fn, us) \o Lead(fn, m)) \o Part(C, Wants(fn, m), vs[m])

LEMMA SaidLast ==
  ASSUME NEW V, NEW C, NEW fn, NEW vs, IsSeq(vs), Held(V, C, fn, vs), NEW m \in Nat, m > 0, Len(vs) = m
  PROVE  \E us : IsSeq(us) /\ Len(us) = m - 1 /\ Held(V, C, fn, us) /\ Added(C, fn, us, vs, m)
<1> DEFINE us == Front(vs)
           v == vs[m]
<1>1. m \in 1..m /\ m - 1 \in Nat /\ (m - 1) + 1 = m /\ \A i \in 1..m - 1 : i \in 1..m
  OBVIOUS
<1>2. IsSeq(us) /\ Len(us) = m - 1 /\ \A i \in 1..m - 1 : us[i] = vs[i]
  BY <1>1, Fronts
<1> HIDE DEF us
<1>3. vs = Append(us, v)
  <2>1. vs = [i \in 1..m |-> vs[i]]
    <3>1. PICK S : vs \in Seq(S)
      BY DEF IsSeq
    <3> QED BY <3>1
  <2>2. \A i \in 1..Len(us) : vs[i] = us[i]
    BY <1>2
  <2>3. Len(us) + 1 = m
    BY <1>1, <1>2
  <2>4. vs = [i \in 1..Len(us) + 1 |-> vs[i]]
    BY <2>1, <2>3
  <2>5. vs = Append(us, vs[Len(us) + 1])
    BY <1>2, <2>2, <2>4, FunctionAppend
  <2> QED BY <2>3, <2>5
<1>4. Held(V, C, fn, us) /\ Spells(V, C, Wants(fn, m), v)
  BY <1>1, <1>2 DEF Held
<1> HIDE DEF v
<1>5. Len(us) + 1 = m
  BY <1>1, <1>2
<1>6. Said(C, fn, Append(us, v)) = (Said(C, fn, us) \o Lead(fn, m)) \o Part(C, Wants(fn, m), v)
  <2>1. Spells(V, C, Wants(fn, Len(us) + 1), v)
    BY <1>4, <1>5
  <2>2. Said(C, fn, Append(us, v)) = (Said(C, fn, us) \o Lead(fn, Len(us) + 1))
                                       \o Part(C, Wants(fn, Len(us) + 1), v)
    <3>1. IsSeq(us) /\ Held(V, C, fn, us)
      BY <1>2, <1>4
    <3> QED BY <3>1, <2>1, SaidAppend
  <2> QED BY <1>5, <2>2
<1>7. Added(C, fn, us, vs, m)
  BY <1>2, <1>3, <1>6 DEF Added, v
<1> QED BY <1>2, <1>4, <1>7

\* The words of the first thing in hand, and those with one thing more.
First(C, fn, vs) == Lead(fn, 1) \o Part(C, Wants(fn, 1), vs[1])
Upon(C, fn, w, vs, m) == (w \o Lead(fn, m)) \o Part(C, Wants(fn, m), vs[m])

LEMMA SaidOne ==
  ASSUME NEW V, NEW C, NEW fn, Start(fn) = <<>>, NEW vs, IsSeq(vs), Held(V, C, fn, vs), Len(vs) = 1
  PROVE  Said(C, fn, vs) = First(C, fn, vs)
<1>1. 1 \in Nat /\ 1 > 0 /\ 1 - 1 = 0
  OBVIOUS
<1>2. PICK us : IsSeq(us) /\ Len(us) = 0 /\ Added(C, fn, us, vs, 1)
  BY <1>1, SaidLast
<1>3. us = <<>>
  BY <1>2, LenNat
<1>4. Said(C, fn, us) \o Lead(fn, 1) = Lead(fn, 1)
  <2>1. Said(C, fn, us) = <<>>
    BY <1>3, SaidNone
  <2> QED BY <2>1, JoinNone, Leads
<1> QED BY <1>2, <1>4 DEF Added, First

LEMMA SaidTwo ==
  ASSUME NEW V, NEW C, NEW fn, Start(fn) = <<>>, NEW vs, IsSeq(vs), Held(V, C, fn, vs), Len(vs) = 2
  PROVE  Said(C, fn, vs) = Upon(C, fn, First(C, fn, vs), vs, 2)
<1>1. 2 \in Nat /\ 2 > 0 /\ 2 - 1 = 1 /\ 1 \in 1..1
  OBVIOUS
<1>2. PICK us : IsSeq(us) /\ Len(us) = 1 /\ Held(V, C, fn, us) /\ Added(C, fn, us, vs, 2)
  BY <1>1, SaidLast
<1>3. us[1] = vs[1]
  BY <1>1, <1>2 DEF Added
<1>4. Said(C, fn, us) = First(C, fn, us)
  BY <1>2, SaidOne
<1> QED BY <1>2, <1>3, <1>4 DEF Added, Upon, First

LEMMA SaidThree ==
  ASSUME NEW V, NEW C, NEW fn, Start(fn) = <<>>, NEW vs, IsSeq(vs), Held(V, C, fn, vs), Len(vs) = 3
  PROVE  Said(C, fn, vs)
           = Upon(C, fn, Upon(C, fn, First(C, fn, vs), vs, 2), vs, 3)
<1>1. 3 \in Nat /\ 3 > 0 /\ 3 - 1 = 2 /\ 1 \in 1..2 /\ 2 \in 1..2
  OBVIOUS
<1>2. PICK us : IsSeq(us) /\ Len(us) = 2 /\ Held(V, C, fn, us) /\ Added(C, fn, us, vs, 3)
  BY <1>1, SaidLast
<1>3. us[1] = vs[1] /\ us[2] = vs[2]
  BY <1>1, <1>2 DEF Added
<1>4. Said(C, fn, us) = Upon(C, fn, First(C, fn, us), us, 2)
  BY <1>2, SaidTwo
<1> QED BY <1>2, <1>3, <1>4 DEF Added, Upon, First

LEMMA SaidFour ==
  ASSUME NEW V, NEW C, NEW fn, Start(fn) = <<>>, NEW vs, IsSeq(vs), Held(V, C, fn, vs), Len(vs) = 4
  PROVE  Said(C, fn, vs)
           = Upon(C, fn, Upon(C, fn, Upon(C, fn, First(C, fn, vs), vs, 2),
                              vs, 3), vs, 4)
<1>1. 4 \in Nat /\ 4 > 0 /\ 4 - 1 = 3 /\ 1 \in 1..3 /\ 2 \in 1..3 /\ 3 \in 1..3
  OBVIOUS
<1>2. PICK us : IsSeq(us) /\ Len(us) = 3 /\ Held(V, C, fn, us) /\ Added(C, fn, us, vs, 4)
  BY <1>1, SaidLast
<1>3. us[1] = vs[1] /\ us[2] = vs[2] /\ us[3] = vs[3]
  BY <1>1, <1>2 DEF Added
<1>4. Said(C, fn, us)
        = Upon(C, fn, Upon(C, fn, First(C, fn, us), us, 2), us, 3)
  BY <1>2, SaidThree
<1> QED BY <1>2, <1>3, <1>4 DEF Added, Upon, First

-----------------------------------------------------------------------------
(* How a step can end, for what it does most often *)

\* Returning a node just made from what is in hand.
LEMMA ReturnMade ==
  ASSUME NEW U, NEW V, NEW C, NEW st, Read(U, V, C, st), Top.fn # "parse_program",
         NEW n, n # Null, Parts(n) \subseteq V, Proper(n),
         \/ Gives(Top.fn) \in {"expr", "block", "func", "plain"}
         \/ Gives(Top.fn) = "decl" /\ n.type = "AST_VAR_DECL"
         \/ Gives(Top.fn) = "stmt" /\ n.type = "AST_IF",
         NEW k, Says(st[Len(frames)], NodeWords(C, n), k), Return(k, n)
  PROVE  WordsInv'
<1>1. Spelt(V, C)
  BY DEF Read
<1>2. IsSeq(NodeWords(C, n))
  BY DEF Says
<1>3. PICK W, D : Longer(V, C, W, D) /\ n \in W /\ D[n] = NodeWords(C, n)
  BY <1>1, <1>2, NewWords
<1>4. Part(D, Gives(Top.fn), n) = NodeWords(C, n)
  BY <1>3 DEF Part, StatementWords
<1>5. Spells(W, D, Gives(Top.fn), n)
  BY <1>2, <1>3, <1>4 DEF Spells
<1>6. Gives(Top.fn) = "decl" => n.type = "AST_VAR_DECL"
  OBVIOUS
<1> QED BY <1>3, <1>4, <1>5, <1>6, ReturnWords

\* Keeping it in place of that, as an expression.
LEMMA KeepMade ==
  ASSUME NEW U, NEW V, NEW C, NEW st, Read(U, V, C, st), Start(Top.fn) = <<>>, Lead(Top.fn, 1) = <<>>,
         Wants(Top.fn, 1) = "expr", NEW n, n # Null, Parts(n) \subseteq V, Proper(n),
         NEW k, Says(st[Len(frames)], NodeWords(C, n), k), Keep(k, <<n>>)
  PROVE  WordsInv'
<1>1. Spelt(V, C)
  BY DEF Read
<1>2. IsSeq(NodeWords(C, n))
  BY DEF Says
<1>3. PICK W, D : Longer(V, C, W, D) /\ n \in W /\ D[n] = NodeWords(C, n)
  BY <1>1, <1>2, NewWords
<1>4. Part(D, "expr", n) = NodeWords(C, n)
  BY <1>3 DEF Part
<1> DEFINE vs == <<n>>
<1>5. IsSeq(vs) /\ Len(vs) = 1 /\ vs[1] = n /\ \A i \in 1..Len(vs) : i = 1
  BY Singles
<1> HIDE DEF vs
<1>6. Held(W, D, Top.fn, vs)
  BY <1>2, <1>3, <1>4, <1>5 DEF Held, Spells
<1>7. Said(D, Top.fn, vs) = NodeWords(C, n)
  <2>1. Said(D, Top.fn, vs) = First(D, Top.fn, vs)
    BY <1>5, <1>6, SaidOne
  <2>2. First(D, Top.fn, vs) = <<>> \o NodeWords(C, n)
    BY <1>4, <1>5 DEF First
  <2> QED BY <1>2, <2>1, <2>2, JoinNone
<1>8. Aimed(Top.fn, vs, Len(vs))
  <2>1. ~(1 > 1)
    OBVIOUS
  <2> QED BY <1>5, <2>1 DEF Aimed
<1>9. Runs(W, D, Top.fn, vs, st[Len(frames)], k)
  BY <1>6, <1>7, <1>8 DEF Runs
<1> QED BY <1>3, <1>9, KeepWords DEF vs

\* Returning the one thing that is in hand.
LEMMA ReturnOne ==
  ASSUME NEW U, NEW V, NEW C, NEW st, Read(U, V, C, st), Top.fn # "parse_program", Start(Top.fn) = <<>>,
         Lead(Top.fn, 1) = <<>>, Wants(Top.fn, 1) = "expr", Gives(Top.fn) = "expr", Len(vals) = 1,
         NEW k, Says(idx, <<>>, k), Return(k, vals[1])
  PROVE  WordsInv'
<1>1. /\ Spelt(V, C) /\ tokens \in Inputs /\ IsSeq(vals) /\ Held(V, C, Top.fn, vals)
      /\ Says(st[Len(frames)], Said(C, Top.fn, vals), idx)
  BY Reading
<1>2. Spells(V, C, "expr", vals[1])
  <2>1. 1 \in 1..1
    OBVIOUS
  <2> QED BY <1>1, <2>1 DEF Held
<1>3. Said(C, Top.fn, vals) = Part(C, "expr", vals[1])
  <2>1. Said(C, Top.fn, vals) = First(C, Top.fn, vals)
    BY <1>1, SaidOne
  <2> QED BY <1>2, <2>1, JoinNone DEF Spells, First
<1>4. Says(st[Len(frames)], Said(C, Top.fn, vals) \o <<>>, k)
  BY <1>1, SaysOn
<1>5. Says(st[Len(frames)], Part(C, "expr", vals[1]), k)
  BY <1>2, <1>3, <1>4, JoinNone DEF Spells
<1>6. Longer(V, C, V, C)
  BY <1>1, LongerSelf
<1> QED BY <1>2, <1>5, <1>6, ReturnWords

\* Calling with what is in hand.
LEMMA CallOver ==
  ASSUME NEW U, NEW V, NEW C, NEW st, Read(U, V, C, st), Aimed(Top.fn, vals, Len(vals) + 1),
         NEW b, Says(idx, Lead(Top.fn, Len(vals) + 1), b), NEW fn, NEW k, Says(b, Start(fn), k),
         Call(k, vals, fn)
  PROVE  WordsInv'
<1>1. /\ tokens \in Inputs /\ IsSeq(vals) /\ Held(V, C, Top.fn, vals)
      /\ Says(st[Len(frames)], Said(C, Top.fn, vals), idx)
  BY Reading
<1>2. Says(st[Len(frames)], Said(C, Top.fn, vals) \o Lead(Top.fn, Len(vals) + 1), b)
  BY <1>1, SaysOn
<1>3. Waits(V, C, Top.fn, vals, st[Len(frames)], b)
  BY <1>1, <1>2 DEF Waits
<1> QED BY <1>1, <1>3, CallWords

LEMMA Pairs ==
  ASSUME NEW a, NEW b
  PROVE  Append(<<a>>, b) = <<a, b>>
<1>1. <<a>> \in Seq({a, b}) /\ b \in {a, b} /\ <<a, b>> \in Seq({a, b})
  OBVIOUS
<1> DEFINE s == <<a>>
<1>2. s \in Seq({a, b}) /\ Len(s) = 1 /\ s[1] = a
  OBVIOUS
<1> DEFINE t == Append(s, b)
           u == <<a, b>>
<1>3. u \in Seq({a, b}) /\ Len(u) = 2 /\ u[1] = a /\ u[2] = b
  OBVIOUS
<1> HIDE DEF s, u
<1>4. t \in Seq({a, b}) /\ Len(t) = 2 /\ t[1] = a /\ t[2] = b
  <2>1. t \in Seq({a, b})
    BY <1>1, <1>2
  <2>2. Len(t) = Len(s) + 1 /\ t[Len(s) + 1] = b /\ \A k \in 1..Len(s) : t[k] = s[k]
    <3>1. IsSeq(s)
      BY <1>2 DEF IsSeq
    <3> QED BY ONLY <3>1, Appending DEF t
  <2>3. Len(s) + 1 = 2 /\ 1 \in 1..Len(s)
    BY <1>2
  <2> QED BY <1>2, <2>1, <2>2, <2>3
<1> HIDE DEF t
<1>5. t = u
  BY <1>3, <1>4
<1> QED BY <1>5 DEF t, s, u

\* With one thing more, and waiting for the next.
LEMMA RunsMore ==
  ASSUME tokens \in Inputs, NEW V, NEW C, NEW fn, NEW vs, IsSeq(vs), NEW a, NEW b, Runs(V, C, fn, vs, a, b),
         NEW v, Spells(V, C, Wants(fn, Len(vs) + 1), v), NEW c, Says(b, Lead(fn, Len(vs) + 1), c),
         NEW d, Says(c, Part(C, Wants(fn, Len(vs) + 1), v), d), Aimed(fn, Append(vs, v), Len(vs) + 1)
  PROVE  Runs(V, C, fn, Append(vs, v), a, d) /\ IsSeq(Append(vs, v)) /\ Len(Append(vs, v)) = Len(vs) + 1
<1>1. Held(V, C, fn, vs) /\ Says(a, Said(C, fn, vs), b)
  BY DEF Runs
<1>2. Says(a, Said(C, fn, vs) \o Lead(fn, Len(vs) + 1), c)
  BY <1>1, SaysOn
<1>3. Says(a, (Said(C, fn, vs) \o Lead(fn, Len(vs) + 1)) \o Part(C, Wants(fn, Len(vs) + 1), v), d)
  BY <1>2, SaysOn
<1>4. /\ Held(V, C, fn, Append(vs, v))
      /\ Said(C, fn, Append(vs, v))
           = (Said(C, fn, vs) \o Lead(fn, Len(vs) + 1)) \o Part(C, Wants(fn, Len(vs) + 1), v)
  BY <1>1, SaidAppend
<1>5. IsSeq(Append(vs, v)) /\ Len(Append(vs, v)) = Len(vs) + 1
  BY Appending
<1> QED BY <1>3, <1>4, <1>5 DEF Runs

LEMMA RunsWait ==
  ASSUME tokens \in Inputs, NEW V, NEW C, NEW fn, NEW vs, NEW a, NEW b, Runs(V, C, fn, vs, a, b),
         NEW c, Says(b, Lead(fn, Len(vs) + 1), c), Aimed(fn, vs, Len(vs) + 1)
  PROVE  Waits(V, C, fn, vs, a, c)
BY SaysOn DEF Runs, Waits

\* Calling before there is anything in hand.
LEMMA CallFresh ==
  ASSUME NEW U, NEW V, NEW C, NEW st, Read(U, V, C, st), Len(vals) = 0,
         NEW b, Says(idx, Lead(Top.fn, 1), b), NEW fn, NEW k, Says(b, Start(fn), k), Call(k, <<>>, fn)
  PROVE  WordsInv'
<1>1. IsSeq(vals)
  BY Reading
<1>2. vals = <<>>
  BY <1>1, LenNat
<1>3. Len(vals) + 1 = 1 /\ ~(1 > 1)
  OBVIOUS
<1>4. Aimed(Top.fn, vals, Len(vals) + 1)
  BY <1>3 DEF Aimed
<1> QED BY <1>2, <1>3, <1>4, CallOver

\* Going on calling with nothing read.
LEMMA CallSame ==
  ASSUME NEW U, NEW V, NEW C, NEW st, Read(U, V, C, st), Lead(Top.fn, Len(vals) + 1) = <<>>,
         Top.fn # "parse_assign_expr", NEW fn, Start(fn) = <<>>, Call(idx, vals, fn)
  PROVE  WordsInv'
<1>1. Says(idx, <<>>, idx)
  BY Reading, SaysNone DEF IInv
<1>2. Aimed(Top.fn, vals, Len(vals) + 1)
  BY DEF Aimed
<1> QED BY <1>1, <1>2, CallOver

-----------------------------------------------------------------------------
(* Expressions *)

LEMMA OwnStart ==
  /\ Start("parse_block_stmt") = Sign("T_LEFT_BRACE")
  /\ \A fn : fn # "parse_block_stmt" => Start(fn) = <<>>
BY DEF Start

LEMMA OperandKinds ==
  ASSUME NEW fn \in DOMAIN operand
  PROVE  /\ Start(fn) = <<>> /\ Start(operand[fn]) = <<>>
         /\ Lead(fn, 1) = <<>> /\ Gives(fn) = "expr" /\ Wants(fn, 1) = "expr"
         /\ fn # "parse_program" /\ fn # "parse_block_stmt"
<1>1. fn \in {"parse_assign_expr", "parse_equal", "parse_compare", "parse_term", "parse_factor", "parse_postfix"}
  BY DEF operand
<1>2. fn # "parse_program" /\ fn # "parse_block_stmt" /\ operand[fn] # "parse_block_stmt"
  BY <1>1 DEF operand
<1>3. Lead(fn, 1) = <<>>
  BY <1>1 DEF Lead
<1>4. Gives(fn) = "expr"
  BY <1>1 DEF Gives
<1>5. Wants(fn, 1) = "expr"
  BY <1>1 DEF Wants, binary_op
<1> QED BY <1>2, <1>3, <1>4, <1>5, OwnStart

LEMMA LevelKinds ==
  ASSUME NEW fn \in DOMAIN binary_op
  PROVE  /\ fn \in DOMAIN operand /\ \A i : Lead(fn, i) = <<>>
         /\ Wants(fn, 2) = "binary" /\ Wants(fn, 3) = "expr" /\ fn # "parse_assign_expr"
<1>1. fn \in {"parse_equal", "parse_compare", "parse_term", "parse_factor"}
  BY DEF binary_op
<1>2. fn \in DOMAIN operand /\ fn # "parse_assign_expr"
  BY <1>1 DEF operand
<1>3. \A i : Lead(fn, i) = <<>>
  BY <1>1 DEF Lead
<1>4. Wants(fn, 2) = "binary" /\ Wants(fn, 3) = "expr"
  BY <1>1 DEF Wants, binary_op
<1> QED BY <1>2, <1>3, <1>4

LEMMA FirstOperandWords ==
  ASSUME NEW U, NEW V, NEW C, NEW st, Read(U, V, C, st), FirstOperand
  PROVE  WordsInv'
<1>1. PICK fn \in DOMAIN operand : In(fn, 0) /\ Call(idx, <<>>, operand[fn])
  BY DEF FirstOperand
<1>2. Top.fn = fn /\ Len(vals) = 0
  BY <1>1 DEF In
<1>3. Says(idx, <<>>, idx)
  BY Reading, SaysNone DEF IInv
<1> QED BY <1>1, <1>2, <1>3, OperandKinds, CallFresh

\* The operators are read back from what they are in the tree.
LEMMA BinarySigns ==
  ASSUME NEW fn \in DOMAIN binary_op, NEW t \in DOMAIN binary_op[fn]
  PROVE  /\ TokenOf(binary_op[fn][t], binary_sign) = t
         /\ t \notin {"T_EOF", "T_LEFT_PAREN", "T_RIGHT_PAREN", "T_COMMA", "T_QWORD",
                      "T_IDENTIFIER", "T_NUMBER_LIT"}
<1> DEFINE T == {"T_EQUAL_EQUAL", "T_NOT_EQUAL", "T_GREATER", "T_LESS", "T_GREATER_EQUAL", "T_LESS_EQUAL",
                 "T_PLUS", "T_MINUS", "T_STAR", "T_DIVIDE"}
           F(u) == CHOOSE g \in DOMAIN binary_op : u \in DOMAIN binary_op[g]
<1>1. \A g \in DOMAIN binary_op : DOMAIN binary_op[g] \subseteq T
  BY DEF binary_op
<1>2. \A g, h \in DOMAIN binary_op : \A u : u \in DOMAIN binary_op[g] /\ u \in DOMAIN binary_op[h] => g = h
  BY DEF binary_op
<1>3. \A g \in DOMAIN binary_op : \A u \in DOMAIN binary_op[g] : F(u) = g
  BY <1>2
<1>4. DOMAIN binary_sign = UNION {DOMAIN binary_op[g] : g \in DOMAIN binary_op}
  BY DEF binary_sign
<1>5. \A u \in DOMAIN binary_sign : binary_sign[u] = binary_op[F(u)][u]
  BY DEF binary_sign
<1>6. \A g \in DOMAIN binary_op : \A u \in DOMAIN binary_op[g] :
        u \in DOMAIN binary_sign /\ binary_sign[u] = binary_op[g][u]
  BY <1>3, <1>4, <1>5
<1>7. \A g, h \in DOMAIN binary_op : \A u \in DOMAIN binary_op[g], w \in DOMAIN binary_op[h] :
        binary_op[g][u] = binary_op[h][w] => u = w
  BY DEF binary_op
<1>8. \A u \in DOMAIN binary_sign : binary_sign[u] = binary_op[fn][t] => u = t
  BY <1>4, <1>6, <1>7
<1>9. TokenOf(binary_op[fn][t], binary_sign) = t
  BY <1>6, <1>8 DEF TokenOf
<1> QED BY <1>1, <1>9

LEMMA UnarySigns ==
  ASSUME NEW t \in DOMAIN unary_op
  PROVE  /\ TokenOf(unary_op[t], unary_op) = t
         /\ t \notin {"T_EOF", "T_LEFT_PAREN", "T_RIGHT_PAREN", "T_COMMA", "T_QWORD",
                      "T_IDENTIFIER", "T_NUMBER_LIT"}
<1>1. \A u \in DOMAIN unary_op : unary_op[u] = unary_op[t] => u = t
  BY DEF unary_op
<1>2. TokenOf(unary_op[t], unary_op) = t
  BY <1>1 DEF TokenOf
<1> QED BY <1>2 DEF unary_op

\* How a frame that has nothing in hand, or has gone on to v, has read.
LEMMA RunsNow ==
  ASSUME NEW U, NEW V, NEW C, NEW st, Read(U, V, C, st)
  PROVE  Runs(V, C, Top.fn, vals, st[Len(frames)], idx) /\ IsSeq(vals) /\ tokens \in Inputs /\ InTokens(idx)
BY Reading DEF Runs, IInv

LEMMA ParseLevelWords ==
  ASSUME NEW U, NEW V, NEW C, NEW st, Read(U, V, C, st), ParseLevel
  PROVE  WordsInv'
<1>1. PICK fn \in DOMAIN binary_op :
        \/ /\ In(fn, 1) /\ tok \in DOMAIN binary_op[fn]
           /\ Call(idx + 1, <<vals[1], binary_op[fn][tok]>>, operand[fn])
        \/ In(fn, 1) /\ tok \notin DOMAIN binary_op[fn] /\ Return(idx, vals[1])
        \/ In(fn, 3) /\ Keep(idx, <<mk_binary_expr(vals[2], vals[1], vals[3])>>)
  BY DEF ParseLevel
<1>2. Top.fn = fn
  BY <1>1 DEF In
<1>3. /\ fn \in DOMAIN operand /\ \A i : Lead(fn, i) = <<>>
      /\ Wants(fn, 2) = "binary" /\ Wants(fn, 3) = "expr" /\ fn # "parse_assign_expr"
      /\ Start(fn) = <<>> /\ Start(operand[fn]) = <<>>
      /\ Gives(fn) = "expr" /\ Wants(fn, 1) = "expr" /\ fn # "parse_program"
  BY LevelKinds, OperandKinds
<1>4. /\ Runs(V, C, fn, vals, st[Len(frames)], idx) /\ IsSeq(vals) /\ tokens \in Inputs /\ InTokens(idx)
      /\ Spelt(V, C) /\ Held(V, C, fn, vals) /\ Says(st[Len(frames)], Said(C, fn, vals), idx)
  BY <1>2, RunsNow, Reading
<1>5. Says(idx, <<>>, idx)
  BY <1>4, SaysNone
<1>6. CASE In(fn, 1) /\ tok \in DOMAIN binary_op[fn] /\ Call(idx + 1, <<vals[1], binary_op[fn][tok]>>, operand[fn])
  <2> DEFINE o == binary_op[fn][tok]
             vs == Append(vals, o)
  <2>1. Len(vals) = 1 /\ 1 + 1 = 2 /\ 2 + 1 = 3
    BY <1>6 DEF In
  <2>2. Says(idx, Sign(tok), idx + 1) /\ TokenOf(o, binary_sign) = tok
    BY <1>4, <1>6, BinarySigns, SaysSign DEF tok
  <2> HIDE DEF o
  <2>3. Part(C, "binary", o) = Sign(TokenOf(o, binary_sign))
    BY DEF Part
  <2>4. Spells(V, C, "binary", o)
    BY <2>3, OneWord DEF Spells, NodeKinds
  <2>5. Aimed(fn, vs, 2) /\ Aimed(fn, vs, 3)
    BY <1>3 DEF Aimed
  <2>6. vs = <<vals[1], o>>
    <3>1. PICK S : vals \in Seq(S)
      BY <1>4 DEF IsSeq
    <3>2. vals = <<vals[1]>>
      BY <2>1, <3>1
    <3>3. Append(<<vals[1]>>, o) = <<vals[1], o>>
      BY Pairs
    <3> QED BY <3>2, <3>3
  <2> HIDE DEF vs
  <2>7. Spells(V, C, Wants(fn, Len(vals) + 1), o) /\ Says(idx, Lead(fn, Len(vals) + 1), idx)
    BY <1>3, <1>5, <2>1, <2>4
  <2>8. Says(idx, Part(C, Wants(fn, Len(vals) + 1), o), idx + 1) /\ Aimed(fn, Append(vals, o), Len(vals) + 1)
    BY <1>3, <2>1, <2>2, <2>3, <2>5 DEF vs
  <2>9. Runs(V, C, fn, vs, st[Len(frames)], idx + 1) /\ IsSeq(vs) /\ Len(vs) = 2
    <3>1. /\ Runs(V, C, fn, Append(vals, o), st[Len(frames)], idx + 1)
          /\ IsSeq(Append(vals, o)) /\ Len(Append(vals, o)) = Len(vals) + 1
      BY <1>4, <2>7, <2>8, RunsMore
    <3> QED BY <2>1, <3>1 DEF vs
  <2>10. Says(idx + 1, <<>>, idx + 1)
    BY <1>4, <2>2, SaysNone DEF Says
  <2>11. Says(idx + 1, Lead(fn, Len(vs) + 1), idx + 1) /\ Aimed(fn, vs, Len(vs) + 1)
    BY <1>3, <2>1, <2>5, <2>9, <2>10
  <2>12. Waits(V, C, fn, vs, st[Len(frames)], idx + 1)
    BY <1>4, <2>9, <2>11, RunsWait
  <2>13. Call(idx + 1, vs, operand[fn])
    BY <1>6, <2>6 DEF o
  <2> QED BY <1>2, <1>3, <2>9, <2>10, <2>12, <2>13, CallWords
<1>7. CASE In(fn, 1) /\ tok \notin DOMAIN binary_op[fn] /\ Return(idx, vals[1])
  <2>1. Len(vals) = 1
    BY <1>7 DEF In
  <2> QED BY <1>2, <1>3, <1>5, <1>7, <2>1, ReturnOne
<1>8. CASE In(fn, 3) /\ Keep(idx, <<mk_binary_expr(vals[2], vals[1], vals[3])>>)
  <2> DEFINE n == mk_binary_expr(vals[2], vals[1], vals[3])
             w == Sign(TokenOf(vals[2], binary_sign))
  <2>1. Len(vals) = 3 /\ 1 \in 1..3 /\ 2 \in 1..3 /\ 3 \in 1..3
    BY <1>8 DEF In
  <2>2. Spells(V, C, "expr", vals[1]) /\ Spells(V, C, "binary", vals[2]) /\ Spells(V, C, "expr", vals[3])
    BY <1>3, <1>4, <2>1 DEF Held
  <2>3. /\ vals[1] \in V /\ vals[3] \in V /\ IsSeq(C[vals[1]]) /\ IsSeq(C[vals[3]])
        /\ Part(C, "expr", vals[1]) = C[vals[1]] /\ Part(C, "binary", vals[2]) = w
        /\ Part(C, "expr", vals[3]) = C[vals[3]] /\ IsSeq(w)
    BY <2>2, OneWord DEF Spells, Part, NodeKinds
  <2>4. NodeWords(C, n) = (C[vals[1]] \o w) \o C[vals[3]]
    BY DEF NodeWords, mk_binary_expr
  <2>5. Said(C, fn, vals) = (C[vals[1]] \o w) \o C[vals[3]]
    <3>1. First(C, fn, vals) = C[vals[1]]
      BY <1>3, <2>3, JoinNone DEF First
    <3>2. Upon(C, fn, C[vals[1]], vals, 2) = C[vals[1]] \o w
      BY <1>3, <2>3, JoinNone DEF Upon
    <3>3. IsSeq(C[vals[1]] \o w)
      BY <2>3, Joined
    <3>4. Upon(C, fn, C[vals[1]] \o w, vals, 3) = (C[vals[1]] \o w) \o C[vals[3]]
      BY <1>3, <2>3, <3>3, JoinNone DEF Upon
    <3>5. Said(C, fn, vals) = Upon(C, fn, Upon(C, fn, First(C, fn, vals), vals, 2), vals, 3)
      BY <1>3, <1>4, <2>1, SaidThree
    <3> QED BY <3>1, <3>2, <3>4, <3>5
  <2>6. n.type = "AST_BINARY" /\ n # Null
    BY DEF mk_binary_expr, Null
  <2>7. Parts(n) \subseteq V
    <3>1. Parts(n) = Range(<<vals[1], vals[3]>>)
      BY DEF Parts, Below, mk_binary_expr
    <3> QED BY <2>3, <3>1 DEF Range
  <2>8. Says(st[Len(frames)], NodeWords(C, n), idx)
    BY <1>4, <2>4, <2>5
  <2>9. Keep(idx, <<n>>)
    BY <1>8
  <2> HIDE DEF n
  <2> QED BY <1>2, <1>3, <2>6, <2>7, <2>8, <2>9, KeepMade DEF Proper
<1> QED BY <1>1, <1>6, <1>7, <1>8

LEMMA HeldNode ==
  ASSUME NEW V, NEW C, NEW fn, NEW vs, Held(V, C, fn, vs), NEW i \in 1..Len(vs), NEW kind, Wants(fn, i) = kind,
         kind \in {"expr", "block", "decl", "func", "plain", "top"}
  PROVE  vs[i] \in V /\ IsSeq(C[vs[i]]) /\ Part(C, kind, vs[i]) = C[vs[i]]
<1>1. Spells(V, C, kind, vs[i])
  BY DEF Held
<1> QED BY <1>1 DEF Spells, Part, NodeKinds

LEMMA HeldNodeExpr ==
  ASSUME NEW V, NEW C, NEW fn, NEW vs, Held(V, C, fn, vs), NEW i \in 1..Len(vs), Wants(fn, i) = "expr"
  PROVE  vs[i] \in V /\ IsSeq(C[vs[i]]) /\ Part(C, "expr", vs[i]) = C[vs[i]]
BY HeldNode

\* Calling with the first thing in hand, which has just been read.
LEMMA PushOne ==
  ASSUME NEW U, NEW V, NEW C, NEW st, Read(U, V, C, st), Len(vals) = 0, NEW o, NEW kind,
         Wants(Top.fn, 1) = kind, Spells(V, C, kind, o), Top.fn # "parse_assign_expr",
         NEW b, Says(idx, Lead(Top.fn, 1), b), NEW k, Says(b, Part(C, kind, o), k), Lead(Top.fn, 2) = <<>>
  PROVE  /\ Runs(V, C, Top.fn, <<o>>, st[Len(frames)], k)
         /\ \A fn : Start(fn) = <<>> /\ Call(k, <<o>>, fn) => WordsInv'
<1>1. Runs(V, C, Top.fn, vals, st[Len(frames)], idx) /\ IsSeq(vals) /\ tokens \in Inputs /\ InTokens(idx)
  BY RunsNow
<1>2. vals = <<>> /\ Len(vals) + 1 = 1 /\ 1 + 1 = 2
  BY <1>1, LenNat
<1> DEFINE vs == Append(vals, o)
<1>3. vs = <<o>> /\ Len(<<o>>) = 1
  <2>1. Append(<<>>, o) = <<o>>
    OBVIOUS
  <2> QED BY <1>2, <2>1
<1> HIDE DEF vs
<1>4. Aimed(Top.fn, vs, Len(vals) + 1) /\ Aimed(Top.fn, vs, Len(vs) + 1)
  BY DEF Aimed
<1>5. /\ Spells(V, C, Wants(Top.fn, Len(vals) + 1), o) /\ Says(idx, Lead(Top.fn, Len(vals) + 1), b)
      /\ Says(b, Part(C, Wants(Top.fn, Len(vals) + 1), o), k)
  BY <1>2
<1>6. Runs(V, C, Top.fn, vs, st[Len(frames)], k) /\ IsSeq(vs)
  BY <1>1, <1>4, <1>5, RunsMore DEF vs
<1>7. Says(k, <<>>, k)
  BY <1>1, SaysNone DEF Says
<1>8. Says(k, Lead(Top.fn, Len(vs) + 1), k)
  BY <1>2, <1>3, <1>7
<1>9. Waits(V, C, Top.fn, vs, st[Len(frames)], k)
  BY <1>1, <1>4, <1>6, <1>8, RunsWait
<1>10. ASSUME NEW fn, Start(fn) = <<>>, Call(k, vs, fn) PROVE WordsInv'
  BY <1>6, <1>7, <1>9, <1>10, CallWords
<1> QED BY <1>3, <1>6, <1>10

LEMMA AssignKinds ==
  /\ Lead("parse_assign_expr", 2) = Sign("T_EQUAL") /\ Wants("parse_assign_expr", 2) = "expr"
  /\ Lead("parse_postfix", 2) = Sign("T_LEFT_BRACKET") /\ Wants("parse_postfix", 2) = "expr"
  /\ Wants("parse_unary_expr", 1) = "unary" /\ Wants("parse_unary_expr", 2) = "expr"
  /\ Lead("parse_unary_expr", 1) = <<>> /\ Lead("parse_unary_expr", 2) = <<>>
  /\ Gives("parse_unary_expr") = "expr"
<1>1. /\ Lead("parse_assign_expr", 2) = Sign("T_EQUAL") /\ Lead("parse_postfix", 2) = Sign("T_LEFT_BRACKET")
      /\ Lead("parse_unary_expr", 1) = <<>> /\ Lead("parse_unary_expr", 2) = <<>>
  BY DEF Lead
<1>2. /\ Wants("parse_assign_expr", 2) = "expr" /\ Wants("parse_postfix", 2) = "expr"
      /\ Wants("parse_unary_expr", 1) = "unary" /\ Wants("parse_unary_expr", 2) = "expr"
  BY DEF Wants, binary_op
<1> QED BY <1>1, <1>2 DEF Gives

LEMMA ParseAssignExprWords ==
  ASSUME NEW U, NEW V, NEW C, NEW st, Read(U, V, C, st), ParseAssignExpr
  PROVE  WordsInv'
<1> DEFINE fn == "parse_assign_expr"
<1>1. Top.fn = fn
  BY DEF ParseAssignExpr, In
<1>2. /\ Start(fn) = <<>> /\ Lead(fn, 1) = <<>> /\ Gives(fn) = "expr" /\ Wants(fn, 1) = "expr"
      /\ fn # "parse_program" /\ Lead(fn, 2) = Sign("T_EQUAL") /\ Wants(fn, 2) = "expr"
  <2>1. fn \in DOMAIN operand
    BY DEF operand
  <2> QED BY <2>1, OperandKinds, AssignKinds
<1>3. /\ IsSeq(vals) /\ tokens \in Inputs /\ InTokens(idx) /\ Spelt(V, C)
      /\ Held(V, C, fn, vals) /\ Says(st[Len(frames)], Said(C, fn, vals), idx) /\ Aimed(fn, vals, Len(vals))
  BY <1>1, RunsNow, Reading
<1>4. CASE In(fn, 1) /\ tok = "T_EQUAL" /\ assignable(vals[1]) /\ Call(idx + 1, vals, fn)
  <2>1. Len(vals) = 1 /\ 1 + 1 = 2 /\ 2 > 1
    BY <1>4 DEF In
  <2>2. Says(idx, Sign("T_EQUAL"), idx + 1)
    BY <1>3, <1>4, SaysSign DEF tok
  <2>3. Says(idx + 1, Start(fn), idx + 1)
    BY <1>2, <1>3, <2>2, SaysNone DEF Says
  <2>4. Says(idx, Lead(fn, Len(vals) + 1), idx + 1)
    BY <1>2, <2>1, <2>2
  <2>5. Aimed(fn, vals, Len(vals) + 1)
    BY <1>4 DEF Aimed
  <2> QED BY <1>1, <1>4, <2>3, <2>4, <2>5, CallOver
<1>5. CASE In(fn, 1) /\ Return(idx, vals[1])
  <2>1. Len(vals) = 1 /\ Says(idx, <<>>, idx)
    BY <1>3, <1>5, SaysNone DEF In
  <2> QED BY <1>1, <1>2, <1>5, <2>1, ReturnOne
<1>6. CASE In(fn, 2) /\ Return(idx, mk_assign_expr(vals[1], vals[2]))
  <2> DEFINE n == mk_assign_expr(vals[1], vals[2])
  <2>1. Len(vals) = 2 /\ 1 \in 1..2 /\ 2 \in 1..2 /\ 2 > 1
    BY <1>6 DEF In
  <2>2. /\ vals[1] \in V /\ IsSeq(C[vals[1]]) /\ Part(C, "expr", vals[1]) = C[vals[1]]
        /\ vals[2] \in V /\ Part(C, "expr", vals[2]) = C[vals[2]]
    <3>1. 1 \in 1..Len(vals) /\ 2 \in 1..Len(vals)
      BY <2>1
    <3> QED BY <1>2, <1>3, <3>1, HeldNodeExpr
  <2>3. First(C, fn, vals) = C[vals[1]]
    BY <1>2, <2>2, JoinNone DEF First
  <2>4. Said(C, fn, vals) = (C[vals[1]] \o Sign("T_EQUAL")) \o C[vals[2]]
    <3>1. Upon(C, fn, C[vals[1]], vals, 2) = (C[vals[1]] \o Sign("T_EQUAL")) \o C[vals[2]]
      BY <1>2, <2>2 DEF Upon
    <3>2. Said(C, fn, vals) = Upon(C, fn, First(C, fn, vals), vals, 2)
      BY <1>2, <1>3, <2>1, SaidTwo
    <3> QED BY <2>3, <3>1, <3>2
  <2>5. NodeWords(C, n) = (C[vals[1]] \o Sign("T_EQUAL")) \o C[vals[2]]
    BY DEF NodeWords, mk_assign_expr
  <2>6. assignable(vals[1])
    BY <1>3, <2>1 DEF Aimed
  <2>7. n # Null /\ n.type = "AST_ASSIGN" /\ n.target = vals[1]
    BY DEF mk_assign_expr, Null
  <2>8. Parts(n) \subseteq V
    <3>1. Parts(n) = Range(<<vals[1], vals[2]>>)
      BY DEF Parts, Below, mk_assign_expr
    <3> QED BY <2>2, <3>1 DEF Range
  <2>9. Says(st[Len(frames)], NodeWords(C, n), idx) /\ Return(idx, n)
    BY <1>3, <1>6, <2>4, <2>5
  <2> HIDE DEF n
  <2>10. Proper(n)
    BY <2>6, <2>7 DEF Proper
  <2> QED BY <1>1, <1>2, <2>7, <2>8, <2>9, <2>10, ReturnMade
<1>7. CASE compile_error
  BY <1>7, StopWords
<1> QED BY <1>4, <1>5, <1>6, <1>7 DEF ParseAssignExpr

LEMMA ParseUnaryExprWords ==
  ASSUME NEW U, NEW V, NEW C, NEW st, Read(U, V, C, st), ParseUnaryExpr
  PROVE  WordsInv'
<1> DEFINE fn == "parse_unary_expr"
<1>1. Top.fn = fn
  BY DEF ParseUnaryExpr, In
<1>2. /\ Start(fn) = <<>> /\ Start("parse_postfix") = <<>> /\ Lead(fn, 1) = <<>> /\ Lead(fn, 2) = <<>>
      /\ Gives(fn) = "expr" /\ Wants(fn, 1) = "unary" /\ Wants(fn, 2) = "expr"
      /\ fn # "parse_program" /\ fn # "parse_assign_expr"
  BY AssignKinds, OwnStart
<1>3. /\ IsSeq(vals) /\ tokens \in Inputs /\ InTokens(idx) /\ Spelt(V, C)
      /\ Held(V, C, fn, vals) /\ Says(st[Len(frames)], Said(C, fn, vals), idx)
  BY <1>1, RunsNow, Reading
<1>4. CASE In(fn, 0) /\ tok \in DOMAIN unary_op /\ Call(idx + 1, <<unary_op[tok]>>, fn)
  <2> DEFINE o == unary_op[tok]
  <2>1. Len(vals) = 0
    BY <1>4 DEF In
  <2>2. Says(idx, Sign(tok), idx + 1) /\ TokenOf(o, unary_op) = tok
    BY <1>3, <1>4, UnarySigns, SaysSign DEF tok
  <2> HIDE DEF o
  <2>3. Part(C, "unary", o) = Sign(TokenOf(o, unary_op))
    BY DEF Part
  <2>4. Spells(V, C, "unary", o)
    BY <2>3, OneWord DEF Spells, NodeKinds
  <2>5. Says(idx, <<>>, idx)
    BY <1>3, SaysNone
  <2>6. Says(idx, Lead(fn, 1), idx) /\ Says(idx, Part(C, "unary", o), idx + 1)
    BY <1>2, <2>2, <2>3, <2>5
  <2>7. Call(idx + 1, <<o>>, fn)
    BY <1>4 DEF o
  <2> QED BY <1>1, <1>2, <2>1, <2>4, <2>6, <2>7, PushOne
<1>5. CASE In(fn, 0) /\ Become("parse_postfix")
  <2>1. Len(vals) = 0
    BY <1>5 DEF In
  <2> QED BY <1>1, <1>2, <1>5, <2>1, BecomeWords
<1>6. CASE In(fn, 2) /\ Return(idx, mk_unary_expr(vals[1], vals[2]))
  <2> DEFINE n == mk_unary_expr(vals[1], vals[2])
             w == Sign(TokenOf(vals[1], unary_op))
  <2>1. Len(vals) = 2 /\ 1 \in 1..Len(vals) /\ 2 \in 1..Len(vals)
    BY <1>6 DEF In
  <2>2. vals[2] \in V /\ IsSeq(C[vals[2]]) /\ Part(C, "expr", vals[2]) = C[vals[2]]
    BY <1>2, <1>3, <2>1, HeldNodeExpr
  <2>3. Part(C, "unary", vals[1]) = w /\ IsSeq(w)
    BY OneWord DEF Part
  <2>4. Said(C, fn, vals) = w \o C[vals[2]]
    <3>1. First(C, fn, vals) = w
      BY <1>2, <2>3, JoinNone DEF First
    <3>2. Upon(C, fn, w, vals, 2) = w \o C[vals[2]]
      BY <1>2, <2>2, <2>3, JoinNone DEF Upon
    <3>3. Said(C, fn, vals) = Upon(C, fn, First(C, fn, vals), vals, 2)
      BY <1>2, <1>3, <2>1, SaidTwo
    <3> QED BY <3>1, <3>2, <3>3
  <2>5. NodeWords(C, n) = w \o C[vals[2]]
    BY DEF NodeWords, mk_unary_expr
  <2>6. n # Null /\ Proper(n)
    BY DEF mk_unary_expr, Null, Proper
  <2>7. Parts(n) \subseteq V
    <3>1. Parts(n) = Range(<<vals[2]>>)
      BY DEF Parts, Below, mk_unary_expr
    <3> QED BY <2>2, <3>1 DEF Range
  <2>8. Says(st[Len(frames)], NodeWords(C, n), idx) /\ Return(idx, n)
    BY <1>3, <1>6, <2>4, <2>5
  <2> HIDE DEF n
  <2> QED BY <1>1, <1>2, <2>6, <2>7, <2>8, ReturnMade
<1> QED BY <1>4, <1>5, <1>6 DEF ParseUnaryExpr

LEMMA ParsePostfixWords ==
  ASSUME NEW U, NEW V, NEW C, NEW st, Read(U, V, C, st), ParsePostfix
  PROVE  WordsInv'
<1> DEFINE fn == "parse_postfix"
<1>1. Top.fn = fn
  BY DEF ParsePostfix, In
<1>2. /\ Start(fn) = <<>> /\ Start(parse_binary_expr) = <<>> /\ Lead(fn, 1) = <<>>
      /\ Gives(fn) = "expr" /\ Wants(fn, 1) = "expr"
      /\ fn # "parse_program" /\ Lead(fn, 2) = Sign("T_LEFT_BRACKET") /\ Wants(fn, 2) = "expr"
  <2>1. fn \in DOMAIN operand /\ parse_binary_expr # "parse_block_stmt"
    BY DEF operand, parse_binary_expr
  <2> QED BY <2>1, OperandKinds, AssignKinds, OwnStart
<1>3. /\ IsSeq(vals) /\ tokens \in Inputs /\ InTokens(idx) /\ Spelt(V, C)
      /\ Held(V, C, fn, vals) /\ Says(st[Len(frames)], Said(C, fn, vals), idx) /\ Aimed(fn, vals, Len(vals))
  BY <1>1, RunsNow, Reading
<1>4. CASE In(fn, 1) /\ tok = "T_LEFT_BRACKET" /\ Call(idx + 1, vals, parse_binary_expr)
  <2>1. Len(vals) = 1 /\ 1 + 1 = 2
    BY <1>4 DEF In
  <2>2. Says(idx, Sign("T_LEFT_BRACKET"), idx + 1)
    BY <1>3, <1>4, SaysSign DEF tok
  <2>3. Says(idx + 1, Start(parse_binary_expr), idx + 1)
    BY <1>2, <1>3, <2>2, SaysNone DEF Says
  <2>4. Says(idx, Lead(fn, Len(vals) + 1), idx + 1)
    BY <1>2, <2>1, <2>2
  <2>5. Aimed(fn, vals, Len(vals) + 1)
    BY DEF Aimed
  <2> QED BY <1>1, <1>4, <2>3, <2>4, <2>5, CallOver
<1>5. CASE In(fn, 1) /\ Return(idx, vals[1])
  <2>1. Len(vals) = 1 /\ Says(idx, <<>>, idx)
    BY <1>3, <1>5, SaysNone DEF In
  <2> QED BY <1>1, <1>2, <1>5, <2>1, ReturnOne
<1>6. CASE In(fn, 2) /\ tok = "T_RIGHT_BRACKET" /\ Keep(idx + 1, <<mk_index_expr(vals[1], vals[2])>>)
  <2> DEFINE n == mk_index_expr(vals[1], vals[2])
             w == (C[vals[1]] \o Sign("T_LEFT_BRACKET")) \o C[vals[2]]
  <2>1. Len(vals) = 2 /\ 1 \in 1..Len(vals) /\ 2 \in 1..Len(vals)
    BY <1>6 DEF In
  <2>2. /\ vals[1] \in V /\ IsSeq(C[vals[1]]) /\ Part(C, "expr", vals[1]) = C[vals[1]]
        /\ vals[2] \in V /\ Part(C, "expr", vals[2]) = C[vals[2]]
    BY <1>2, <1>3, <2>1, HeldNodeExpr
  <2>3. First(C, fn, vals) = C[vals[1]]
    BY <1>2, <2>2, JoinNone DEF First
  <2>4. Said(C, fn, vals) = w
    <3>1. Upon(C, fn, C[vals[1]], vals, 2) = w
      BY <1>2, <2>2 DEF Upon
    <3>2. Said(C, fn, vals) = Upon(C, fn, First(C, fn, vals), vals, 2)
      BY <1>2, <1>3, <2>1, SaidTwo
    <3> QED BY <2>3, <3>1, <3>2
  <2>5. NodeWords(C, n) = w \o Sign("T_RIGHT_BRACKET")
    BY DEF NodeWords, mk_index_expr
  <2>6. n # Null /\ Proper(n)
    BY DEF mk_index_expr, Null, Proper
  <2>7. Parts(n) \subseteq V
    <3>1. Parts(n) = Range(<<vals[1], vals[2]>>)
      BY DEF Parts, Below, mk_index_expr
    <3> QED BY <2>2, <3>1 DEF Range
  <2>8. Says(idx, Sign("T_RIGHT_BRACKET"), idx + 1)
    BY <1>3, <1>6, SaysSign DEF tok
  <2> HIDE DEF w
  <2>9. Says(st[Len(frames)], w \o Sign("T_RIGHT_BRACKET"), idx + 1)
    BY <1>3, <2>4, <2>8, SaysOn
  <2>10. Says(st[Len(frames)], NodeWords(C, n), idx + 1) /\ Keep(idx + 1, <<n>>)
    BY <1>6, <2>5, <2>9
  <2> HIDE DEF n
  <2> QED BY <1>1, <1>2, <2>6, <2>7, <2>10, KeepMade
<1>7. CASE compile_error
  BY <1>7, StopWords
<1> QED BY <1>4, <1>5, <1>6, <1>7 DEF ParsePostfix

\* Returning a node with nothing in hand.
LEMMA ReturnFresh ==
  ASSUME NEW U, NEW V, NEW C, NEW st, Read(U, V, C, st), Top.fn # "parse_program",
         Start(Top.fn) = <<>>, Len(vals) = 0,
         NEW n, n # Null, Parts(n) \subseteq V, Proper(n), Gives(Top.fn) = "expr",
         NEW k, Says(idx, NodeWords(C, n), k), Return(k, n)
  PROVE  WordsInv'
<1>1. IsSeq(vals) /\ tokens \in Inputs /\ Says(st[Len(frames)], Said(C, Top.fn, vals), idx)
  BY Reading
<1>2. vals = <<>>
  BY <1>1, LenNat
<1>3. Says(st[Len(frames)], <<>>, idx)
  BY <1>1, <1>2, SaidNone
<1>4. Says(st[Len(frames)], <<>> \o NodeWords(C, n), k)
  BY <1>1, <1>3, SaysOn
<1>5. Says(st[Len(frames)], NodeWords(C, n), k)
  BY <1>4, JoinNone DEF Says
<1> QED BY <1>5, ReturnMade

LEMMA AtFirst ==
  ASSUME IInv, Top.fn \in DOMAIN FirstToken, Len(vals) = 0
  PROVE  tok = FirstToken[Top.fn]
<1>1. Top = frames[Len(frames)] /\ IsSeq(vals)
  BY Here
<1>2. vals = <<>>
  BY <1>1, LenNat
<1> QED BY <1>1, <1>2 DEF IInv, Expects, vals

LEMMA PrimaryKinds ==
  /\ Start("parse_primary") = <<>> /\ Lead("parse_primary", 1) = <<>>
  /\ Gives("parse_primary") = "expr" /\ Wants("parse_primary", 1) = "expr"
  /\ Start("parse_cast_expr") = <<>> /\ Lead("parse_cast_expr", 1) = <<>> /\ Lead("parse_cast_expr", 2) = <<>>
  /\ Gives("parse_cast_expr") = "expr" /\ Wants("parse_cast_expr", 1) = "type"
  /\ Wants("parse_cast_expr", 2) = "expr"
  /\ Start("parse_call_expr") = <<>> /\ Lead("parse_call_expr", 1) = Sign("T_CALL")
  /\ \A i : i # 1 => Lead("parse_call_expr", i) = <<>>
  /\ Gives("parse_call_expr") = "expr"
<1>1. /\ Lead("parse_primary", 1) = <<>> /\ Lead("parse_cast_expr", 1) = <<>> /\ Lead("parse_cast_expr", 2) = <<>>
      /\ Lead("parse_call_expr", 1) = Sign("T_CALL") /\ \A i : i # 1 => Lead("parse_call_expr", i) = <<>>
  BY DEF Lead
<1>2. /\ Wants("parse_primary", 1) = "expr" /\ Wants("parse_cast_expr", 1) = "type"
      /\ Wants("parse_cast_expr", 2) = "expr"
  BY DEF Wants, binary_op
<1>3. /\ Gives("parse_primary") = "expr" /\ Gives("parse_cast_expr") = "expr" /\ Gives("parse_call_expr") = "expr"
  BY DEF Gives
<1> QED BY <1>1, <1>2, <1>3, OwnStart

LEMMA ParsePrimaryWords ==
  ASSUME NEW U, NEW V, NEW C, NEW st, Read(U, V, C, st), ParsePrimary
  PROVE  WordsInv'
<1> DEFINE fn == "parse_primary"
<1>1. Top.fn = fn
  BY DEF ParsePrimary, In
<1>2. /\ Start(fn) = <<>> /\ Lead(fn, 1) = <<>> /\ Gives(fn) = "expr" /\ Wants(fn, 1) = "expr"
      /\ fn # "parse_program" /\ Start("parse_cast_expr") = <<>> /\ Start("parse_call_expr") = <<>>
      /\ Start("parse_assign_expr") = <<>>
  BY PrimaryKinds, OwnStart
<1>3. /\ IsSeq(vals) /\ tokens \in Inputs /\ InTokens(idx) /\ Spelt(V, C)
  BY <1>1, RunsNow, Reading
<1>4. CASE In(fn, 0) /\ (Become("parse_cast_expr") \/ Become("parse_call_expr"))
  <2>1. Len(vals) = 0
    BY <1>4 DEF In
  <2> QED BY <1>1, <1>2, <1>4, <2>1, BecomeWords
<1>5. CASE In(fn, 0) /\ tok = "T_IDENTIFIER" /\ Return(idx + 1, parse_identifier_expr(idx).nodes[1])
  <2> DEFINE n == mk_identifer_expr(tokens[idx + 1].name)
  <2>1. parse_identifier_expr(idx) = Parsed(idx + 1, <<n>>)
    BY <1>5 DEF parse_identifier_expr, tok
  <2>2. n.type = "AST_IDENTIFIER" /\ n # Null /\ Ident(n) = Ident(tokens[idx + 1])
    BY DEF mk_identifer_expr, Null, Ident
  <2> HIDE DEF n
  <2>3. parse_identifier_expr(idx).nodes = <<n>> /\ parse_identifier_expr(idx).idx = idx + 1
    BY <2>1 DEF Parsed
  <2>4. <<n>> # <<>> /\ <<n>>[1] = n
    OBVIOUS
  <2>5. Says(idx, Ident(n), idx + 1)
    BY <1>3, <2>3, <2>4, SaysIdent
  <2>6. NodeWords(C, n) = Ident(n)
    BY <2>2 DEF NodeWords
  <2>7. Parts(n) = {}
    <3>1. Parts(n) = Range(<<>>)
      BY <2>2 DEF Parts, Below
    <3> QED BY <3>1 DEF Range
  <2>8. Len(vals) = 0 /\ Return(idx + 1, n)
    BY <1>5, <2>3, <2>4 DEF In
  <2> QED BY <1>1, <1>2, <2>2, <2>5, <2>6, <2>7, <2>8, ReturnFresh DEF Proper
<1>6. CASE In(fn, 0) /\ tok = "T_NUMBER_LIT" /\ Return(idx + 1, mk_literal_expr(tokens[idx + 1].num))
  <2> DEFINE m == tokens[idx + 1].num
             n == mk_literal_expr(m)
  <2>1. m \in Nat
    BY <1>3, TokenValues
  <2>2. m # INT_MIN
    BY <2>1 DEF INT_MIN
  <2>3. n.type = "AST_LITERAL" /\ n # Null /\ n.num_value = m
    BY DEF mk_literal_expr, Null
  <2>4. Says(idx, Number(m), idx + 1)
    BY <1>3, <1>6, SaysNumber DEF tok
  <2> HIDE DEF m, n
  <2>5. NodeWords(C, n) = Number(m)
    BY <2>2, <2>3 DEF NodeWords
  <2>6. Parts(n) = {}
    <3>1. Parts(n) = Range(<<>>)
      BY <2>3 DEF Parts, Below
    <3> QED BY <3>1 DEF Range
  <2>7. Len(vals) = 0 /\ Return(idx + 1, n)
    BY <1>6 DEF In, m, n
  <2> QED BY <1>1, <1>2, <2>3, <2>4, <2>5, <2>6, <2>7, ReturnFresh DEF Proper
<1>7. CASE In(fn, 0) /\ tok = "T_STRING_LIT" /\ Return(idx + 1, mk_string_literal)
  <2> DEFINE n == mk_string_literal
  <2>1. n.type = "AST_LITERAL" /\ n # Null /\ n.num_value = INT_MIN
    BY DEF mk_string_literal, mk_literal_expr, Null
  <2>2. Says(idx, Sign("T_STRING_LIT"), idx + 1)
    BY <1>3, <1>7, SaysSign DEF tok
  <2>3. NodeWords(C, n) = Sign("T_STRING_LIT")
    BY <2>1 DEF NodeWords
  <2>4. Parts(n) = {}
    <3>1. Parts(n) = Range(<<>>)
      BY <2>1 DEF Parts, Below
    <3> QED BY <3>1 DEF Range
  <2>5. Len(vals) = 0
    BY <1>7 DEF In
  <2> QED BY <1>1, <1>2, <1>7, <2>1, <2>2, <2>3, <2>4, <2>5, ReturnFresh DEF Proper
<1>8. CASE In(fn, 0) /\ tok = "T_LEFT_PAREN" /\ Call(idx + 1, <<>>, "parse_assign_expr")
  <2>1. Len(vals) = 0 /\ Says(idx, <<>>, idx) /\ Says(idx, <<>>, idx + 1)
    BY <1>3, <1>8, SaysNone, SaysNothing DEF In, tok
  <2> QED BY <1>1, <1>2, <1>8, <2>1, CallFresh
<1>9. CASE In(fn, 1) /\ tok = "T_RIGHT_PAREN" /\ Return(idx + 1, vals[1])
  <2>1. Len(vals) = 1 /\ Says(idx, <<>>, idx + 1)
    BY <1>3, <1>9, SaysNothing DEF In, tok
  <2> QED BY <1>1, <1>2, <1>9, <2>1, ReturnOne
<1>10. CASE compile_error
  BY <1>10, StopWords
<1> QED BY <1>4, <1>5, <1>6, <1>7, <1>8, <1>9, <1>10 DEF ParsePrimary

LEMMA ParseCastExprWords ==
  ASSUME NEW U, NEW V, NEW C, NEW st, Read(U, V, C, st), ParseCastExpr
  PROVE  WordsInv'
<1> DEFINE fn == "parse_cast_expr"
           type == parse_var_type(idx + 1)
<1>1. Top.fn = fn
  BY DEF ParseCastExpr, In
<1>2. /\ Start(fn) = <<>> /\ Start("parse_primary") = <<>> /\ Lead(fn, 1) = <<>> /\ Lead(fn, 2) = <<>>
      /\ Gives(fn) = "expr" /\ Wants(fn, 1) = "type" /\ Wants(fn, 2) = "expr"
      /\ fn # "parse_program" /\ fn # "parse_assign_expr"
  BY PrimaryKinds
<1>3. /\ IsSeq(vals) /\ tokens \in Inputs /\ InTokens(idx) /\ Spelt(V, C) /\ IInv
      /\ Held(V, C, fn, vals) /\ Says(st[Len(frames)], Said(C, fn, vals), idx)
  BY <1>1, RunsNow, Reading
<1>4. CASE In(fn, 0) /\ type.nodes # <<>> /\ Kind(type.idx) = "T_RIGHT_PAREN"
           /\ Call(type.idx + 1, type.nodes, "parse_primary")
  <2> DEFINE t == type.nodes[1]
  <2>1. Len(vals) = 0
    BY <1>4 DEF In
  <2>2. tok = "T_LEFT_PAREN"
    BY <1>1, <1>3, <2>1, AtFirst DEF FirstToken
  <2>3. Says(idx, <<>>, idx) /\ Says(idx, <<>>, idx + 1)
    BY <1>3, <2>2, SaysNone, SaysNothing DEF tok
  <2>4. InTokens(idx + 1)
    BY <2>3 DEF Says
  <2>5. type.nodes = <<t>> /\ Says(idx + 1, TypeWords(t), type.idx)
    BY <1>3, <1>4, <2>4, SaysType
  <2>6. Says(type.idx, <<>>, type.idx + 1)
    BY <1>3, <1>4, <2>5, SaysNothing DEF Says
  <2> HIDE DEF t, type
  <2>7. Says(idx, <<>> \o TypeWords(t), type.idx)
    BY <1>3, <2>3, <2>5, SaysOn
  <2>8. Says(idx, (<<>> \o TypeWords(t)) \o <<>>, type.idx + 1)
    BY <1>3, <2>6, <2>7, SaysOn
  <2>9. IsSeq(TypeWords(t)) /\ Says(idx, TypeWords(t), type.idx + 1)
    <3>1. IsSeq(TypeWords(t))
      BY <2>5 DEF Says
    <3>2. (<<>> \o TypeWords(t)) \o <<>> = TypeWords(t)
      BY <3>1, JoinNone
    <3> QED BY <2>8, <3>1, <3>2
  <2>10. Part(C, "type", t) = TypeWords(t)
    BY DEF Part
  <2>11. Spells(V, C, "type", t)
    BY <2>9, <2>10 DEF Spells, NodeKinds
  <2>12. Says(idx, Lead(fn, 1), idx) /\ Says(idx, Part(C, "type", t), type.idx + 1)
    BY <1>2, <2>3, <2>9, <2>10
  <2>13. Call(type.idx + 1, <<t>>, "parse_primary")
    BY <1>4, <2>5
  <2> QED BY <1>1, <1>2, <2>1, <2>11, <2>12, <2>13, PushOne
<1>5. CASE In(fn, 2) /\ Return(idx, mk_cast_expr(vals[1], vals[2]))
  <2> DEFINE n == mk_cast_expr(vals[1], vals[2])
             w == TypeWords(vals[1])
  <2>1. Len(vals) = 2 /\ 1 \in 1..Len(vals) /\ 2 \in 1..Len(vals)
    BY <1>5 DEF In
  <2>2. vals[2] \in V /\ IsSeq(C[vals[2]]) /\ Part(C, "expr", vals[2]) = C[vals[2]]
    <3>1. 2 \in 1..Len(vals) /\ Wants(fn, 2) = "expr" /\ Held(V, C, fn, vals)
      BY <1>2, <1>3, <2>1
    <3> QED BY <3>1, HeldNodeExpr
  <2>3. Part(C, "type", vals[1]) = w /\ IsSeq(w)
    <3>1. Part(C, "type", vals[1]) = w
      BY DEF Part
    <3>2. Spells(V, C, "type", vals[1])
      BY <1>2, <1>3, <2>1 DEF Held
    <3> QED BY <3>1, <3>2 DEF Spells
  <2>4. Said(C, fn, vals) = w \o C[vals[2]]
    <3>1. First(C, fn, vals) = w
      BY <1>2, <2>3, JoinNone DEF First
    <3>2. Upon(C, fn, w, vals, 2) = w \o C[vals[2]]
      BY <1>2, <2>2, <2>3, JoinNone DEF Upon
    <3>3. Said(C, fn, vals) = Upon(C, fn, First(C, fn, vals), vals, 2)
      BY <1>2, <1>3, <2>1, SaidTwo
    <3> QED BY <3>1, <3>2, <3>3
  <2>5. NodeWords(C, n) = w \o C[vals[2]]
    BY DEF NodeWords, mk_cast_expr
  <2>6. n # Null /\ Proper(n)
    BY DEF mk_cast_expr, Null, Proper
  <2>7. Parts(n) \subseteq V
    <3>1. Parts(n) = Range(<<vals[2]>>)
      BY DEF Parts, Below, mk_cast_expr
    <3> QED BY <2>2, <3>1 DEF Range
  <2>8. Says(st[Len(frames)], NodeWords(C, n), idx) /\ Return(idx, n)
    BY <1>3, <1>5, <2>4, <2>5
  <2> HIDE DEF n
  <2> QED BY <1>1, <1>2, <2>6, <2>7, <2>8, ReturnMade
<1>6. CASE compile_error \/ assert_failed
  BY <1>6, StopWords
<1> QED BY <1>4, <1>5, <1>6 DEF ParseCastExpr

\* The call that what is in hand stands for.
LEMMA CallOnWords ==
  ASSUME NEW U, NEW V, NEW C, NEW st, Read(U, V, C, st), Top.fn = "parse_call_expr",
         NEW vs, IsSeq(vs), Len(vs) > 0, NEW k, Runs(V, C, Top.fn, vs, st[Len(frames)], k),
         NEW l, Says(k, <<>>, l), Return(l, CallOn(vs))
  PROVE  WordsInv'
<1> DEFINE args == Tail(vs)
           n == mk_call_expr(vs[1], args)
           w == Said(C, Top.fn, vs)
<1>1. PICK S : vs \in Seq(S)
  BY DEF IsSeq
<1>2. Len(vs) \in Nat /\ 1 \in 1..Len(vs) /\ vs # <<>>
  BY <1>1
<1>3. args \in Seq(S) /\ Len(args) = Len(vs) - 1 /\ \A i \in 1..Len(args) : args[i] = vs[i + 1]
  BY <1>1
<1>4. DOMAIN args = 1..Len(vs) - 1
  BY <1>3
<1>5. Return(l, n)
  BY DEF CallOn
<1> HIDE DEF args
<1>6. [i \in DOMAIN args |-> C[args[i]]] = ArgWords(C, vs)
  <2>1. \A i \in 1..Len(vs) - 1 : args[i] = vs[i + 1]
    BY <1>3
  <2> QED BY <1>4, <2>1 DEF ArgWords
<1>7. NodeWords(C, n) = (Sign("T_CALL") \o Ident(vs[1])) \o FlattenSeq([i \in DOMAIN args |-> C[args[i]]])
  BY DEF NodeWords, mk_call_expr
<1>8. w = (Sign("T_CALL") \o Ident(vs[1])) \o FlattenSeq(ArgWords(C, vs))
  BY <1>2 DEF Said
<1>9. NodeWords(C, n) = w
  BY <1>6, <1>7, <1>8
<1>10. n # Null /\ Proper(n)
  BY DEF mk_call_expr, Null, Proper
<1>11. Parts(n) \subseteq V
  <2>1. Parts(n) = Range(args)
    BY DEF Parts, Below, mk_call_expr
  <2>2. ASSUME NEW i \in DOMAIN args PROVE args[i] \in V
    <3>1. i + 1 \in 1..Len(vs) /\ i + 1 # 1
      BY <1>2, <1>4
    <3>2. PICK j \in 1..Len(vs) : j = i + 1 /\ j # 1
      BY <3>1
    <3>3. Wants(Top.fn, j) = "expr"
      BY <3>2, CallKinds
    <3>4. Spells(V, C, "expr", vs[j])
      BY <3>2, <3>3 DEF Held, Runs
    <3>5. i \in 1..Len(args)
      BY <1>3, <1>4
    <3> QED BY <1>3, <3>2, <3>4, <3>5 DEF Spells, NodeKinds
  <2> QED BY <2>1, <2>2 DEF Range
<1>12. Says(st[Len(frames)], w, k) /\ tokens \in Inputs
  BY Reading DEF Runs
<1> HIDE DEF w, n
<1>13. Says(st[Len(frames)], w \o <<>>, l)
  BY <1>12, SaysOn
<1>14. Says(st[Len(frames)], NodeWords(C, n), l)
  BY <1>9, <1>12, <1>13, JoinNone DEF Says
<1>15. Gives(Top.fn) = "expr" /\ Top.fn # "parse_program"
  BY PrimaryKinds
<1> QED BY <1>5, <1>10, <1>11, <1>14, <1>15, ReturnMade

LEMMA NextArgWords ==
  ASSUME NEW U, NEW V, NEW C, NEW st, Read(U, V, C, st), Top.fn = "parse_call_expr",
         NEW vs, IsSeq(vs), Len(vs) > 0, NEW k, Runs(V, C, Top.fn, vs, st[Len(frames)], k), NextArg(k, vs)
  PROVE  WordsInv'
<1>1. tokens \in Inputs /\ InTokens(k)
  BY Reading DEF Runs, Says
<1>2. CASE Kind(k) = "T_RIGHT_PAREN" /\ Return(k + 1, CallOn(vs))
  <2>1. Says(k, <<>>, k + 1)
    BY <1>1, <1>2, SaysNothing
  <2> QED BY <1>2, <2>1, CallOnWords
<1>3. CASE Call(k, vs, parse_binary_expr)
  <2>1. Says(k, <<>>, k)
    BY <1>1, SaysNone
  <2>2. Len(vs) + 1 # 1
    BY LenNat
  <2>3. Says(k, Lead(Top.fn, Len(vs) + 1), k)
    BY <2>1, <2>2, PrimaryKinds
  <2>4. Aimed(Top.fn, vs, Len(vs) + 1)
    BY DEF Aimed
  <2>5. Waits(V, C, Top.fn, vs, st[Len(frames)], k)
    BY <1>1, <2>3, <2>4, RunsWait
  <2>6. Start(parse_binary_expr) = <<>>
    BY OwnStart DEF parse_binary_expr
  <2> QED BY <1>3, <2>1, <2>5, <2>6, CallWords
<1> QED BY <1>2, <1>3 DEF NextArg

LEMMA ParseCallExprWords ==
  ASSUME NEW U, NEW V, NEW C, NEW st, Read(U, V, C, st), ParseCallExpr
  PROVE  WordsInv'
<1> DEFINE fn == "parse_call_expr"
           ident == parse_identifier_expr(idx + 1)
<1>1. Top.fn = fn
  BY DEF ParseCallExpr, In
<1>2. /\ Runs(V, C, fn, vals, st[Len(frames)], idx)
      /\ IsSeq(vals) /\ tokens \in Inputs /\ InTokens(idx) /\ Spelt(V, C) /\ IInv
  BY <1>1, RunsNow, Reading
<1>3. CASE In(fn, 0) /\ ident.nodes # <<>> /\ Kind(ident.idx) = "T_LEFT_PAREN"
           /\ NextArg(ident.idx + 1, ident.nodes)
  <2> DEFINE n == ident.nodes[1]
  <2>1. Len(vals) = 0
    BY <1>3 DEF In
  <2>2. tok = "T_CALL"
    BY <1>1, <1>2, <2>1, AtFirst DEF FirstToken
  <2>3. Says(idx, Sign("T_CALL"), idx + 1)
    BY <1>2, <2>2, SaysSign DEF tok
  <2>4. InTokens(idx + 1)
    BY <2>3 DEF Says
  <2>5. ident.nodes = <<n>> /\ Says(idx + 1, Ident(n), ident.idx)
    BY <1>2, <1>3, <2>4, SaysIdent
  <2>6. Says(ident.idx, <<>>, ident.idx + 1)
    BY <1>2, <1>3, <2>5, SaysNothing DEF Says
  <2> HIDE DEF n, ident
  <2>7. Says(idx + 1, Ident(n) \o <<>>, ident.idx + 1)
    BY <1>2, <2>5, <2>6, SaysOn
  <2>8. Says(idx + 1, Ident(n), ident.idx + 1)
    BY <2>7, JoinNone, OneWord
  <2>9. Part(C, "ident", n) = Ident(n)
    BY DEF Part
  <2>10. Spells(V, C, "ident", n)
    BY <2>9, OneWord DEF Spells, NodeKinds
  <2>11. Says(idx, Lead(fn, 1), idx + 1) /\ Says(idx + 1, Part(C, "ident", n), ident.idx + 1)
    BY <2>3, <2>8, <2>9, PrimaryKinds
  <2>12. Wants(fn, 1) = "ident" /\ Lead(fn, 2) = <<>> /\ fn # "parse_assign_expr"
    <3>1. 2 # 1
      OBVIOUS
    <3> QED BY <3>1, CallKinds, PrimaryKinds
  <2>13. Runs(V, C, fn, <<n>>, st[Len(frames)], ident.idx + 1)
    BY <1>1, <2>1, <2>10, <2>11, <2>12, PushOne
  <2>14. IsSeq(<<n>>) /\ Len(<<n>>) > 0
    BY Singles
  <2>15. NextArg(ident.idx + 1, <<n>>)
    BY <1>3, <2>5
  <2> QED BY <1>1, <2>13, <2>14, <2>15, NextArgWords
<1>4. CASE Len(vals) > 1 /\ tok = "T_COMMA" /\ NextArg(idx + 1, vals)
  <2>1. Says(idx, <<>>, idx + 1)
    BY <1>2, <1>4, SaysNothing DEF tok
  <2>2. Says(st[Len(frames)], Said(C, fn, vals) \o <<>>, idx + 1)
    BY <1>2, <2>1, SaysOn DEF Runs
  <2>3. Says(st[Len(frames)], Said(C, fn, vals), idx + 1)
    BY <1>2, <2>2, JoinNone DEF Runs, Says
  <2>4. Runs(V, C, fn, vals, st[Len(frames)], idx + 1)
    BY <1>2, <2>3 DEF Runs
  <2>5. Len(vals) > 0
    BY <1>2, <1>4, LenNat
  <2> QED BY <1>1, <1>2, <1>4, <2>4, <2>5, NextArgWords
<1>5. CASE Len(vals) > 1 /\ tok = "T_RIGHT_PAREN" /\ Return(idx + 1, CallOn(vals))
  <2>1. Says(idx, <<>>, idx + 1)
    BY <1>2, <1>5, SaysNothing DEF tok
  <2>2. Len(vals) > 0
    BY <1>2, <1>5, LenNat
  <2> QED BY <1>1, <1>2, <1>5, <2>1, <2>2, CallOnWords
<1>6. CASE compile_error
  BY <1>6, StopWords
<1> QED BY <1>3, <1>4, <1>5, <1>6 DEF ParseCallExpr

-----------------------------------------------------------------------------
(* Statements *)

\* A call of parse_block_stmt, which starts at its '{'.
LEMMA BlockCallWords ==
  ASSUME NEW U, NEW V, NEW C, NEW st, Read(U, V, C, st), NEW vs, IsSeq(vs), NEW k,
         Waits(V, C, Top.fn, vs, st[Len(frames)], k), parse_block_stmt(k, vs)
  PROVE  WordsInv'
<1>1. tokens \in Inputs /\ InTokens(k)
  BY Reading DEF Waits, Says
<1>2. CASE Kind(k) = "T_LEFT_BRACE" /\ Call(k + 1, vs, "parse_block_stmt")
  <2>1. Says(k, Start("parse_block_stmt"), k + 1)
    BY <1>1, <1>2, SaysSign, OwnStart
  <2> QED BY <1>2, <2>1, CallWords
<1>3. CASE assert_failed
  BY <1>3, StopWords
<1> QED BY <1>2, <1>3 DEF parse_block_stmt

LEMMA StmtKinds ==
  /\ \A i : Wants("parse_block_stmt", i) = "stmt" /\ Lead("parse_block_stmt", i) = <<>>
  /\ \A i : Wants("parse_program", i) = "top" /\ Lead("parse_program", i) = <<>>
  /\ \A i : Wants("parse_statment", i) = "plain" /\ Lead("parse_statment", i) = <<>>
  /\ Gives("parse_block_stmt") = "block" /\ Gives("parse_statment") = "stmt"
  /\ Lead("parse_return_stmt", 1) = Sign("T_RETURN") /\ Wants("parse_return_stmt", 1) = "expr"
  /\ Gives("parse_return_stmt") = "plain"
<1>1. /\ \A i : /\ Lead("parse_block_stmt", i) = <<>> /\ Lead("parse_program", i) = <<>>
                /\ Lead("parse_statment", i) = <<>>
      /\ Lead("parse_return_stmt", 1) = Sign("T_RETURN")
  BY DEF Lead
<1>2. /\ \A i : /\ Wants("parse_block_stmt", i) = "stmt" /\ Wants("parse_program", i) = "top"
                /\ Wants("parse_statment", i) = "plain"
      /\ Wants("parse_return_stmt", 1) = "expr"
  BY DEF Wants, binary_op
<1> QED BY <1>1, <1>2 DEF Gives

\* A comment, in a block or between functions.
LEMMA CommentWords ==
  ASSUME NEW U, NEW V, NEW C, NEW st, Read(U, V, C, st), tok = "T_COMMENT", NEW kind,
         Wants(Top.fn, Len(vals) + 1) = kind, kind \in {"stmt", "top"}, Lead(Top.fn, Len(vals) + 1) = <<>>,
         Top.fn # "parse_assign_expr", Keep(idx + 1, Append(vals, mk_comment_stmt))
  PROVE  WordsInv'
<1> DEFINE n == mk_comment_stmt
<1>1. /\ IsSeq(vals) /\ tokens \in Inputs /\ InTokens(idx) /\ Spelt(V, C)
      /\ Runs(V, C, Top.fn, vals, st[Len(frames)], idx)
  BY RunsNow, Reading
<1>2. n.type = "AST_COMMENT" /\ n # Null
  BY DEF mk_comment_stmt, Null
<1>3. Keep(idx + 1, Append(vals, n))
  OBVIOUS
<1> HIDE DEF n
<1>4. NodeWords(C, n) = Sign("T_COMMENT")
  BY <1>2 DEF NodeWords
<1>5. Parts(n) = {}
  <2>1. Parts(n) = Range(<<>>)
    BY <1>2 DEF Parts, Below
  <2> QED BY <2>1 DEF Range
<1>14. Proper(n)
  BY <1>2 DEF Proper
<1>6. PICK W, D : Longer(V, C, W, D) /\ n \in W /\ D[n] = Sign("T_COMMENT")
  BY <1>1, <1>2, <1>4, <1>5, <1>14, OneWord, NewWords
<1>7. Part(D, kind, n) = Sign("T_COMMENT")
  BY <1>2, <1>6 DEF Part, StatementWords
<1>8. Spells(W, D, kind, n)
  BY <1>6, <1>7, OneWord DEF Spells
<1>9. Runs(W, D, Top.fn, vals, st[Len(frames)], idx)
  BY <1>1, <1>6, LongerFrame
<1>10. Says(idx, Lead(Top.fn, Len(vals) + 1), idx)
  BY <1>1, SaysNone
<1>11. Says(idx, Part(D, Wants(Top.fn, Len(vals) + 1), n), idx + 1)
  BY <1>1, <1>7, SaysSign DEF tok
<1>12. Aimed(Top.fn, Append(vals, n), Len(vals) + 1) /\ Aimed(Top.fn, Append(vals, n), Len(Append(vals, n)))
  BY DEF Aimed
<1>13. Runs(W, D, Top.fn, Append(vals, n), st[Len(frames)], idx + 1)
  BY <1>1, <1>8, <1>9, <1>10, <1>11, <1>12, RunsMore
<1> QED BY <1>3, <1>6, <1>13, KeepWords

LEMMA ParseBlockStmtWords ==
  ASSUME NEW U, NEW V, NEW C, NEW st, Read(U, V, C, st), ParseBlockStmt
  PROVE  WordsInv'
<1> DEFINE fn == "parse_block_stmt"
<1>1. Top.fn = fn
  BY DEF ParseBlockStmt
<1>2. /\ IsSeq(vals) /\ tokens \in Inputs /\ InTokens(idx) /\ Spelt(V, C)
      /\ Held(V, C, fn, vals) /\ Says(st[Len(frames)], Said(C, fn, vals), idx)
  BY <1>1, RunsNow, Reading
<1>3. CASE tok = "T_RIGHT_BRACE" /\ Return(idx + 1, mk_block_stmt(vals))
  <2> DEFINE n == mk_block_stmt(vals)
             f == [i \in DOMAIN vals |-> StatementWords(C, vals[i])]
             w == Said(C, fn, vals)
  <2>1. DOMAIN vals = 1..Len(vals)
    <3>1. PICK S : vals \in Seq(S)
      BY <1>2 DEF IsSeq
    <3> QED BY <3>1
  <2>2. \A i \in 1..Len(vals) : vals[i] \in V /\ IsSeq(StatementWords(C, vals[i]))
    <3>1. \A i \in 1..Len(vals) : Spells(V, C, "stmt", vals[i])
      BY <1>2, StmtKinds DEF Held
    <3>2. \A v : Part(C, "stmt", v) = StatementWords(C, v)
      BY DEF Part
    <3> QED BY <3>1, <3>2 DEF Spells, NodeKinds
  <2>3. HandWords(C, fn, vals) = f
    <3>1. \A v : Part(C, "stmt", v) = StatementWords(C, v)
      BY DEF Part
    <3>2. \A i \in 1..Len(vals) : Lead(fn, i) \o Part(C, Wants(fn, i), vals[i]) = StatementWords(C, vals[i])
      BY <2>2, <3>1, StmtKinds, JoinNone
    <3> QED BY <2>1, <3>2 DEF HandWords
  <2>4. w = Sign("T_LEFT_BRACE") \o FlattenSeq(f)
    BY <2>3, OwnStart DEF Said
  <2>5. NodeWords(C, n) = (Sign("T_LEFT_BRACE") \o FlattenSeq(f)) \o Sign("T_RIGHT_BRACE")
    BY DEF NodeWords, mk_block_stmt
  <2>6. Says(idx, Sign("T_RIGHT_BRACE"), idx + 1)
    BY <1>2, <1>3, SaysSign DEF tok
  <2>7. n # Null /\ Proper(n)
    BY DEF mk_block_stmt, Null, Proper
  <2>8. Parts(n) \subseteq V
    <3>1. Parts(n) = Range(vals)
      BY DEF Parts, Below, mk_block_stmt
    <3> QED BY <2>1, <2>2, <3>1 DEF Range
  <2>9. Says(st[Len(frames)], w, idx) /\ Return(idx + 1, n)
    BY <1>2, <1>3
  <2> HIDE DEF n, w
  <2>10. Says(st[Len(frames)], w \o Sign("T_RIGHT_BRACE"), idx + 1)
    BY <1>2, <2>6, <2>9, SaysOn
  <2>11. Says(st[Len(frames)], NodeWords(C, n), idx + 1)
    BY <2>4, <2>5, <2>10
  <2>12. Gives(Top.fn) = "block" /\ Top.fn # "parse_program"
    BY <1>1, StmtKinds
  <2> QED BY <2>7, <2>8, <2>9, <2>11, <2>12, ReturnMade
<1>4. CASE Call(idx, vals, "parse_var_decl") \/ Call(idx, vals, "parse_statment")
  <2>1. Lead(Top.fn, Len(vals) + 1) = <<>> /\ Top.fn # "parse_assign_expr"
    BY <1>1, StmtKinds
  <2>2. Start("parse_var_decl") = <<>> /\ Start("parse_statment") = <<>>
    BY OwnStart
  <2> QED BY <1>4, <2>1, <2>2, CallSame
<1>5. CASE tok = "T_COMMENT" /\ Keep(idx + 1, Append(vals, mk_comment_stmt))
  BY <1>1, <1>5, StmtKinds, CommentWords
<1> QED BY <1>3, <1>4, <1>5 DEF ParseBlockStmt

LEMMA ParseExprWords ==
  ASSUME NEW U, NEW V, NEW C, NEW st, Read(U, V, C, st), Len(vals) = 0, Lead(Top.fn, 1) = <<>>, ParseExpr
  PROVE  WordsInv'
<1>1. tokens \in Inputs /\ InTokens(idx)
  BY RunsNow
<1>2. Says(idx, <<>>, idx)
  BY <1>1, SaysNone
<1>3. CASE Call(idx, <<>>, "parse_call_expr") \/ Call(idx, <<>>, "parse_assign_expr")
  <2>1. Start("parse_call_expr") = <<>> /\ Start("parse_assign_expr") = <<>>
    BY OwnStart
  <2> QED BY <1>2, <1>3, <2>1, CallFresh
<1>4. CASE tok = "T_LEFT_BRACE" /\ Call(idx + 1, <<>>, "parse_block_stmt")
  <2>1. Says(idx, Start("parse_block_stmt"), idx + 1)
    BY <1>1, <1>4, SaysSign, OwnStart DEF tok
  <2> QED BY <1>2, <1>4, <2>1, CallFresh
<1> QED BY <1>3, <1>4 DEF ParseExpr

LEMMA ParseStatmentWords ==
  ASSUME NEW U, NEW V, NEW C, NEW st, Read(U, V, C, st), ParseStatment
  PROVE  WordsInv'
<1> DEFINE fn == "parse_statment"
<1>1. Top.fn = fn
  BY DEF ParseStatment, In
<1>2. /\ IsSeq(vals) /\ tokens \in Inputs /\ InTokens(idx) /\ Spelt(V, C) /\ IInv /\ Before(U)
      /\ Held(V, C, fn, vals) /\ Says(st[Len(frames)], Said(C, fn, vals), idx)
  BY <1>1, RunsNow, Reading
<1>3. /\ Start(fn) = <<>> /\ Start("parse_if_stmt") = <<>> /\ Start("parse_return_stmt") = <<>>
      /\ Lead(fn, 1) = <<>> /\ Wants(fn, 1) = "plain" /\ Gives(fn) = "stmt" /\ fn # "parse_program"
  BY OwnStart, StmtKinds
<1>4. CASE In(fn, 0) /\ Become("parse_if_stmt")
  <2>1. Len(vals) = 0
    BY <1>4 DEF In
  <2> QED BY <1>1, <1>3, <1>4, <2>1, BecomeWords
<1>5. CASE In(fn, 0) /\ Call(idx, <<>>, "parse_return_stmt")
  <2>1. Len(vals) = 0 /\ Says(idx, <<>>, idx)
    BY <1>2, <1>5, SaysNone DEF In
  <2> QED BY <1>1, <1>3, <1>5, <2>1, CallFresh
<1>6. CASE In(fn, 0) /\ ParseExpr
  <2>1. Len(vals) = 0
    BY <1>6 DEF In
  <2> QED BY <1>1, <1>3, <1>6, <2>1, ParseExprWords
<1>7. CASE In(fn, 1) /\ tok = "T_SEMICOLON" /\ Return(idx + 1, vals[1])
  <2> DEFINE v == vals[1]
  <2>1. Len(vals) = 1 /\ 1 \in 1..Len(vals)
    BY <1>7 DEF In
  <2>2. v \in V /\ IsSeq(C[v]) /\ Part(C, "plain", v) = C[v]
    <3>1. Held(V, C, fn, vals) /\ Wants(fn, 1) = "plain" /\ 1 \in 1..Len(vals)
      BY <1>2, <1>3, <2>1
    <3>2. Spells(V, C, "plain", v)
      BY <3>1 DEF Held
    <3> QED BY <3>2 DEF Spells, Part, NodeKinds
  <2>3. v.type \notin {"AST_VAR_DECL", "AST_COMMENT", "AST_IF"}
    <3>1. Fits(U, Names, Wants(Top.fn, 1), vals[1])
      BY <1>2, <2>1, HandHolds
    <3>2. Fits(U, Names, "plain", v)
      BY <1>1, <1>3, <3>1
    <3>3. v.type \in expr_t \cup {"AST_BLOCK", "AST_RETURN"}
      BY <3>2 DEF Fits
    <3> QED BY <3>3 DEF expr_t, Shape!expr_t
  <2>4. Part(C, "stmt", v) = C[v] \o Sign("T_SEMICOLON")
    BY <2>3 DEF Part, StatementWords
  <2>5. IsSeq(Sign("T_SEMICOLON"))
    BY OneWord
  <2>6. Spells(V, C, "stmt", v)
    BY <2>2, <2>4, <2>5, Joined DEF Spells
  <2>7. First(C, fn, vals) = C[v]
    BY <1>3, <2>2, JoinNone DEF First
  <2>8. Said(C, fn, vals) = C[v]
    BY <1>2, <1>3, <2>1, <2>7, SaidOne
  <2>9. Says(idx, Sign("T_SEMICOLON"), idx + 1)
    BY <1>2, <1>7, SaysSign DEF tok
  <2>10. Says(st[Len(frames)], C[v], idx) /\ Return(idx + 1, v)
    BY <1>2, <1>7, <2>8
  <2> HIDE DEF v
  <2>11. Says(st[Len(frames)], C[v] \o Sign("T_SEMICOLON"), idx + 1)
    BY <1>2, <2>9, <2>10, SaysOn
  <2>12. Says(st[Len(frames)], Part(C, "stmt", v), idx + 1)
    BY <2>4, <2>11
  <2>13. Longer(V, C, V, C)
    BY <1>2, LongerSelf
  <2> QED BY <1>1, <1>3, <2>6, <2>10, <2>12, <2>13, ReturnWords
<1>8. CASE compile_error
  BY <1>8, StopWords
<1> QED BY <1>4, <1>5, <1>6, <1>7, <1>8 DEF ParseStatment, EndStatment

LEMMA ParseReturnStmtWords ==
  ASSUME NEW U, NEW V, NEW C, NEW st, Read(U, V, C, st), ParseReturnStmt
  PROVE  WordsInv'
<1> DEFINE fn == "parse_return_stmt"
<1>1. Top.fn = fn
  BY DEF ParseReturnStmt, In
<1>2. /\ IsSeq(vals) /\ tokens \in Inputs /\ InTokens(idx) /\ Spelt(V, C) /\ IInv
      /\ Held(V, C, fn, vals) /\ Says(st[Len(frames)], Said(C, fn, vals), idx)
  BY <1>1, RunsNow, Reading
<1>3. /\ Start(fn) = <<>> /\ Start("parse_assign_expr") = <<>> /\ Lead(fn, 1) = Sign("T_RETURN")
      /\ Wants(fn, 1) = "expr" /\ Gives(fn) = "plain" /\ fn # "parse_program"
  BY OwnStart, StmtKinds
<1>4. CASE In(fn, 0) /\ Call(idx + 1, <<>>, "parse_assign_expr")
  <2>1. Len(vals) = 0
    BY <1>4 DEF In
  <2>2. tok = "T_RETURN"
    BY <1>1, <1>2, <2>1, AtFirst DEF FirstToken
  <2>3. Says(idx, Sign("T_RETURN"), idx + 1)
    BY <1>2, <2>2, SaysSign DEF tok
  <2>4. Says(idx + 1, <<>>, idx + 1)
    BY <1>2, <2>3, SaysNone DEF Says
  <2> QED BY <1>1, <1>3, <1>4, <2>1, <2>3, <2>4, CallFresh
<1>5. CASE In(fn, 1) /\ Return(idx, mk_return_stmt(vals[1]))
  <2> DEFINE n == mk_return_stmt(vals[1])
  <2>1. Len(vals) = 1 /\ 1 \in 1..Len(vals)
    BY <1>5 DEF In
  <2>2. vals[1] \in V /\ Part(C, "expr", vals[1]) = C[vals[1]]
    <3>1. 1 \in 1..Len(vals) /\ Wants(fn, 1) = "expr" /\ Held(V, C, fn, vals)
      BY <1>2, <1>3, <2>1
    <3> QED BY <3>1, HeldNodeExpr
  <2>3. First(C, fn, vals) = Sign("T_RETURN") \o C[vals[1]]
    BY <1>3, <2>2 DEF First
  <2>4. Said(C, fn, vals) = Sign("T_RETURN") \o C[vals[1]]
    BY <1>2, <1>3, <2>1, <2>3, SaidOne
  <2>5. NodeWords(C, n) = Sign("T_RETURN") \o C[vals[1]]
    BY DEF NodeWords, mk_return_stmt
  <2>6. n # Null /\ Proper(n)
    BY DEF mk_return_stmt, Null, Proper
  <2>7. Parts(n) \subseteq V
    <3>1. Parts(n) = Range(<<vals[1]>>)
      BY DEF Parts, Below, mk_return_stmt
    <3> QED BY <2>2, <3>1 DEF Range
  <2>8. Says(st[Len(frames)], NodeWords(C, n), idx) /\ Return(idx, n)
    BY <1>2, <1>5, <2>4, <2>5
  <2> HIDE DEF n
  <2> QED BY <1>1, <1>3, <2>6, <2>7, <2>8, ReturnMade
<1> QED BY <1>4, <1>5 DEF ParseReturnStmt

LEMMA IfKinds ==
  /\ Start("parse_if_stmt") = <<>> /\ Start(parse_binary_expr) = <<>>
  /\ Lead("parse_if_stmt", 1) = Sign("T_IF") /\ Lead("parse_if_stmt", 2) = <<>>
  /\ Lead("parse_if_stmt", 3) = Sign("T_ELSE")
  /\ Wants("parse_if_stmt", 1) = "expr" /\ Wants("parse_if_stmt", 2) = "block" /\ Wants("parse_if_stmt", 3) = "block"
  /\ Gives("parse_if_stmt") = "stmt"
<1>1. /\ Lead("parse_if_stmt", 1) = Sign("T_IF") /\ Lead("parse_if_stmt", 2) = <<>>
      /\ Lead("parse_if_stmt", 3) = Sign("T_ELSE")
  BY DEF Lead
<1>2. /\ Wants("parse_if_stmt", 1) = "expr" /\ Wants("parse_if_stmt", 2) = "block"
      /\ Wants("parse_if_stmt", 3) = "block"
  BY DEF Wants, binary_op
<1>3. Start(parse_binary_expr) = <<>>
  BY OwnStart DEF parse_binary_expr
<1> QED BY <1>1, <1>2, <1>3, OwnStart DEF Gives

LEMMA HeldNodeBlock ==
  ASSUME NEW V, NEW C, NEW fn, NEW vs, Held(V, C, fn, vs), NEW i \in 1..Len(vs), Wants(fn, i) = "block"
  PROVE  vs[i] \in V /\ IsSeq(C[vs[i]]) /\ Part(C, "block", vs[i]) = C[vs[i]]
BY HeldNode

\* The condition and the first arm.
IfWords(C, cond, arm) == (Sign("T_IF") \o C[cond]) \o C[arm]

LEMMA IfHeld ==
  ASSUME NEW V, NEW C, NEW vs, IsSeq(vs), Held(V, C, "parse_if_stmt", vs), Len(vs) \in {2, 3}
  PROVE  /\ vs[1] \in V /\ vs[2] \in V /\ IsSeq(IfWords(C, vs[1], vs[2]))
         /\ Upon(C, "parse_if_stmt", First(C, "parse_if_stmt", vs), vs, 2) = IfWords(C, vs[1], vs[2])
         /\ Len(vs) = 3 => vs[3] \in V /\ IsSeq(C[vs[3]]) /\ Part(C, "block", vs[3]) = C[vs[3]]
<1> DEFINE fn == "parse_if_stmt"
<1>1. 1 \in 1..Len(vs) /\ 2 \in 1..Len(vs) /\ (Len(vs) = 3 => 3 \in 1..Len(vs))
  OBVIOUS
<1>2. vs[1] \in V /\ IsSeq(C[vs[1]]) /\ Part(C, "expr", vs[1]) = C[vs[1]]
  BY <1>1, IfKinds, HeldNodeExpr
<1>3. vs[2] \in V /\ IsSeq(C[vs[2]]) /\ Part(C, "block", vs[2]) = C[vs[2]]
  BY <1>1, IfKinds, HeldNodeBlock
<1>4. Len(vs) = 3 => vs[3] \in V /\ IsSeq(C[vs[3]]) /\ Part(C, "block", vs[3]) = C[vs[3]]
  BY <1>1, IfKinds, HeldNodeBlock
<1>5. First(C, fn, vs) = Sign("T_IF") \o C[vs[1]]
  BY <1>2, IfKinds DEF First
<1>6. IsSeq(Sign("T_IF") \o C[vs[1]])
  BY <1>2, Joined, OneWord
<1>7. IsSeq(IfWords(C, vs[1], vs[2]))
  BY <1>3, <1>6, Joined DEF IfWords
<1> DEFINE w == Sign("T_IF") \o C[vs[1]]
<1>8. Upon(C, fn, w, vs, 2) = (w \o <<>>) \o C[vs[2]]
  BY <1>3, IfKinds DEF Upon
<1>9. w \o <<>> = w
  BY <1>6, JoinNone
<1>10. Upon(C, fn, w, vs, 2) = w \o C[vs[2]]
  BY <1>8, <1>9
<1> QED BY <1>2, <1>3, <1>4, <1>5, <1>7, <1>10 DEF IfWords

LEMMA ParseIfStmtWords ==
  ASSUME NEW U, NEW V, NEW C, NEW st, Read(U, V, C, st), ParseIfStmt
  PROVE  WordsInv'
<1> DEFINE fn == "parse_if_stmt"
<1>1. Top.fn = fn
  BY DEF ParseIfStmt, In
<1>2. /\ Runs(V, C, fn, vals, st[Len(frames)], idx)
      /\ IsSeq(vals) /\ tokens \in Inputs /\ InTokens(idx) /\ Spelt(V, C) /\ IInv
      /\ Held(V, C, fn, vals) /\ Says(st[Len(frames)], Said(C, fn, vals), idx)
  BY <1>1, RunsNow, Reading
<1>3. fn # "parse_program" /\ fn # "parse_assign_expr"
  OBVIOUS
<1>4. CASE In(fn, 0) /\ Kind(idx + 1) = "T_LEFT_PAREN" /\ Call(idx + 2, <<>>, parse_binary_expr)
  <2>1. Len(vals) = 0
    BY <1>4 DEF In
  <2>2. tok = "T_IF"
    BY <1>1, <1>2, <2>1, AtFirst DEF FirstToken
  <2>3. Says(idx, Sign("T_IF"), idx + 1)
    BY <1>2, <2>2, SaysSign DEF tok
  <2>4. Says(idx + 1, <<>>, (idx + 1) + 1)
    BY <1>2, <1>4, <2>3, SaysNothing DEF Says
  <2>5. (idx + 1) + 1 = idx + 2
    BY <1>2 DEF InTokens
  <2> QED BY <1>1, <1>4, <2>1, <2>3, <2>4, <2>5, IfKinds, CallFresh
<1>5. CASE In(fn, 1) /\ tok = "T_RIGHT_PAREN" /\ parse_block_stmt(idx + 1, vals)
  <2>1. Len(vals) = 1 /\ 1 + 1 = 2
    BY <1>5 DEF In
  <2>2. Says(idx, <<>>, idx + 1)
    BY <1>2, <1>5, SaysNothing DEF tok
  <2>3. Says(idx, Lead(fn, Len(vals) + 1), idx + 1)
    BY <2>1, <2>2, IfKinds
  <2>4. Aimed(fn, vals, Len(vals) + 1)
    BY DEF Aimed
  <2>5. Waits(V, C, fn, vals, st[Len(frames)], idx + 1)
    BY <1>2, <2>3, <2>4, RunsWait
  <2> QED BY <1>1, <1>2, <1>5, <2>5, BlockCallWords
<1>6. CASE In(fn, 2) /\ tok = "T_ELSE" /\ parse_block_stmt(idx + 1, vals)
  <2>1. Len(vals) = 2 /\ 2 + 1 = 3
    BY <1>6 DEF In
  <2>2. Says(idx, Sign("T_ELSE"), idx + 1)
    BY <1>2, <1>6, SaysSign DEF tok
  <2>3. Says(idx, Lead(fn, Len(vals) + 1), idx + 1)
    BY <2>1, <2>2, IfKinds
  <2>4. Aimed(fn, vals, Len(vals) + 1)
    BY DEF Aimed
  <2>5. Waits(V, C, fn, vals, st[Len(frames)], idx + 1)
    BY <1>2, <2>3, <2>4, RunsWait
  <2> QED BY <1>1, <1>2, <1>6, <2>5, BlockCallWords
<1>7. CASE In(fn, 2) /\ Return(idx, mk_if_stmt(vals[1], vals[2], Null))
  <2> DEFINE n == mk_if_stmt(vals[1], vals[2], Null)
             w == IfWords(C, vals[1], vals[2])
  <2>1. Len(vals) = 2
    BY <1>7 DEF In
  <2>2. vals[1] \in V /\ vals[2] \in V /\ IsSeq(w) /\ Upon(C, fn, First(C, fn, vals), vals, 2) = w
    BY <1>2, <2>1, IfHeld
  <2>3. Said(C, fn, vals) = Upon(C, fn, First(C, fn, vals), vals, 2)
    BY <1>2, <2>1, IfKinds, SaidTwo
  <2>4. NodeWords(C, n) = w \o <<>>
    BY DEF NodeWords, mk_if_stmt, IfWords
  <2>5. NodeWords(C, n) = w
    BY <2>2, <2>4, JoinNone
  <2>6. n # Null /\ n.type = "AST_IF"
    BY DEF mk_if_stmt, Null
  <2>7. Parts(n) \subseteq V
    <3>1. Parts(n) = {vals[1], vals[2]} \cup ({Null} \ {Null})
      BY DEF Parts, mk_if_stmt
    <3> QED BY <2>2, <3>1
  <2>8. Says(st[Len(frames)], NodeWords(C, n), idx) /\ Return(idx, n)
    BY <1>2, <1>7, <2>2, <2>3, <2>5
  <2> HIDE DEF n
  <2> QED BY <1>1, <1>3, <2>6, <2>7, <2>8, IfKinds, ReturnMade DEF Proper
<1>8. CASE In(fn, 3) /\ Return(idx, mk_if_stmt(vals[1], vals[2], vals[3]))
  <2> DEFINE n == mk_if_stmt(vals[1], vals[2], vals[3])
             w == IfWords(C, vals[1], vals[2])
             e == Sign("T_ELSE")
  <2>1. Len(vals) = 3
    BY <1>8 DEF In
  <2>2. /\ vals[1] \in V /\ vals[2] \in V /\ IsSeq(w) /\ Upon(C, fn, First(C, fn, vals), vals, 2) = w
        /\ vals[3] \in V /\ IsSeq(C[vals[3]]) /\ Part(C, "block", vals[3]) = C[vals[3]]
    BY <1>2, <2>1, IfHeld
  <2>3. Said(C, fn, vals) = Upon(C, fn, Upon(C, fn, First(C, fn, vals), vals, 2), vals, 3)
    BY <1>2, <2>1, IfKinds, SaidThree
  <2>4. vals[3] # Null
    BY <1>2, <2>2 DEF Spelt
  <2>5. NodeWords(C, n) = w \o (e \o C[vals[3]])
    BY <2>4 DEF NodeWords, mk_if_stmt, IfWords
  <2>6. n # Null /\ n.type = "AST_IF"
    BY DEF mk_if_stmt, Null
  <2>7. Parts(n) \subseteq V
    <3>1. Parts(n) = {vals[1], vals[2]} \cup ({vals[3]} \ {Null})
      BY DEF Parts, mk_if_stmt
    <3> QED BY <2>2, <3>1
  <2>8. Upon(C, fn, w, vals, 3) = (w \o e) \o C[vals[3]]
    BY <2>2, IfKinds DEF Upon
  <2> HIDE DEF w, e
  <2>9. NodeWords(C, n) = (w \o e) \o C[vals[3]]
    <3> DEFINE c == C[vals[3]]
    <3>1. IsSeq(e) /\ IsSeq(c) /\ IsSeq(w)
      BY <2>2, OneWord DEF e
    <3>2. NodeWords(C, n) = w \o (e \o c)
      BY <2>5
    <3> HIDE DEF c
    <3>3. (w \o e) \o c = w \o (e \o c)
      BY <3>1, Assoc
    <3>4. NodeWords(C, n) = (w \o e) \o c
      BY <3>2, <3>3
    <3> QED BY <3>4 DEF c
  <2>10. Says(st[Len(frames)], NodeWords(C, n), idx) /\ Return(idx, n)
    BY <1>2, <1>8, <2>2, <2>3, <2>8, <2>9
  <2> HIDE DEF n
  <2> QED BY <1>1, <1>3, <2>6, <2>7, <2>10, IfKinds, ReturnMade DEF Proper
<1>9. CASE compile_error
  BY <1>9, StopWords
<1> QED BY <1>4, <1>5, <1>6, <1>7, <1>8, <1>9 DEF ParseIfStmt

-----------------------------------------------------------------------------
(* Declarations *)

LEMMA DeclKinds ==
  ASSUME NEW fn, fn \in {"parse_var_decl", "parse_func_decl"}
  PROVE  /\ Start(fn) = <<>> /\ Lead(fn, 2) = <<>>
         /\ Lead(fn, 1) = Sign(IF fn = "parse_var_decl" THEN "T_LET" ELSE "T_FUNC")
         /\ Wants(fn, 1) = "type" /\ Wants(fn, 2) = "ident" /\ fn # "parse_assign_expr" /\ fn # "parse_program"
<1>1. Lead(fn, 2) = <<>> /\ Lead(fn, 1) = Sign(IF fn = "parse_var_decl" THEN "T_LET" ELSE "T_FUNC")
  BY DEF Lead
<1>2. Wants(fn, 1) = "type" /\ Wants(fn, 2) = "ident"
  <2>1. /\ Wants("parse_var_decl", 1) = "type" /\ Wants("parse_var_decl", 2) = "ident"
        /\ Wants("parse_func_decl", 1) = "type" /\ Wants("parse_func_decl", 2) = "ident"
    BY DEF Wants, binary_op
  <2> QED BY <2>1
<1> QED BY <1>1, <1>2, OwnStart

\* let or func, the type and the name.
HeadWords(fn, type, ident) ==
  (Sign(IF fn = "parse_var_decl" THEN "T_LET" ELSE "T_FUNC") \o TypeWords(type)) \o Ident(ident)

\* A declaration that has the type and the name in hand.
LEMMA TypedHeld ==
  ASSUME NEW V, NEW C, NEW fn, fn \in {"parse_var_decl", "parse_func_decl"}, NEW vs, IsSeq(vs),
         IsSeq(TypeWords(vs[1]))
  PROVE  /\ Upon(C, fn, First(C, fn, vs), vs, 2) = HeadWords(fn, vs[1], vs[2])
         /\ IsSeq(HeadWords(fn, vs[1], vs[2]))
<1> DEFINE k == Sign(IF fn = "parse_var_decl" THEN "T_LET" ELSE "T_FUNC")
           w == k \o TypeWords(vs[1])
<1>1. IsSeq(w)
  BY Joined, OneWord
<1>2. IsSeq(w \o Ident(vs[2]))
  BY <1>1, Joined, OneWord
<1>3. Part(C, "type", vs[1]) = TypeWords(vs[1]) /\ Part(C, "ident", vs[2]) = Ident(vs[2])
  BY DEF Part
<1>4. First(C, fn, vs) = w
  BY <1>3, DeclKinds DEF First
<1>5. Upon(C, fn, w, vs, 2) = (w \o <<>>) \o Ident(vs[2])
  BY <1>3, DeclKinds DEF Upon
<1>6. w \o <<>> = w
  BY <1>1, JoinNone
<1> QED BY <1>2, <1>4, <1>5, <1>6 DEF HeadWords

LEMMA SaysTypePart ==
  ASSUME tokens \in Inputs, NEW k, InTokens(k), TypedIdent(k).nodes # <<>>
  PROVE  \E j : Says(k, TypeWords(TypedIdent(k).nodes[1]), j)
<1> DEFINE type == parse_var_type(k)
           ident == parse_identifier_expr(type.idx)
<1>1. type.nodes # <<>> /\ ident.nodes # <<>> /\ TypedIdent(k) = Parsed(ident.idx, type.nodes \o ident.nodes)
  BY DEF TypedIdent, Failed, Parsed
<1>2. type.nodes = <<type.nodes[1]>> /\ Says(k, TypeWords(type.nodes[1]), type.idx)
  BY <1>1, SaysType
<1>3. ident.nodes = <<ident.nodes[1]>>
  BY <1>1, <1>2, SaysIdent DEF Says
<1> DEFINE t == type.nodes[1]
           n == ident.nodes[1]
<1>4. type.nodes = <<t>> /\ ident.nodes = <<n>>
  BY <1>2, <1>3
<1> HIDE DEF t, n
<1>5. <<t>> \o <<n>> = <<t, n>>
  <2>1. <<t>> \o <<n>> = Append(<<t>>, n)
    OBVIOUS
  <2> QED BY <2>1, Pairs
<1>6. <<t, n>>[1] = t
  OBVIOUS
<1>7. TypedIdent(k).nodes = <<t, n>>
  <2>1. TypedIdent(k).nodes = type.nodes \o ident.nodes
    <3>1. \A j, nodes : Parsed(j, nodes).nodes = nodes
      BY DEF Parsed
    <3> HIDE DEF type, ident
    <3> QED BY <1>1, <3>1
  <2> HIDE DEF type, ident
  <2> QED BY <1>4, <1>5, <2>1
<1> QED BY <1>2, <1>6, <1>7 DEF t

\* A declaration that has just read them.
LEMMA TypedWords ==
  ASSUME NEW U, NEW V, NEW C, NEW st, Read(U, V, C, st), Len(vals) = 0,
         Top.fn \in {"parse_var_decl", "parse_func_decl"}, TypedIdent(idx + 1).nodes # <<>>
  PROVE  LET decl == TypedIdent(idx + 1)
         IN /\ decl.nodes = <<decl.nodes[1], decl.nodes[2]>> /\ IsSeq(decl.nodes) /\ Len(decl.nodes) = 2
            /\ Runs(V, C, Top.fn, decl.nodes, st[Len(frames)], decl.idx)
            /\ IsSeq(TypeWords(decl.nodes[1]))
            /\ Says(st[Len(frames)], HeadWords(Top.fn, decl.nodes[1], decl.nodes[2]), decl.idx)
<1> DEFINE fn == Top.fn
           decl == TypedIdent(idx + 1)
           t == decl.nodes[1]
           n == decl.nodes[2]
           word == IF fn = "parse_var_decl" THEN "T_LET" ELSE "T_FUNC"
<1>1. /\ IsSeq(vals) /\ tokens \in Inputs /\ InTokens(idx) /\ IInv
      /\ Says(st[Len(frames)], Said(C, fn, vals), idx)
  BY RunsNow, Reading
<1>2. tok = word
  BY <1>1, AtFirst DEF FirstToken
<1>3. Says(idx, Sign(word), idx + 1)
  BY <1>1, <1>2, SaysSign DEF tok
<1>4. InTokens(idx + 1)
  BY <1>3 DEF Says
<1>5. decl.nodes = <<t, n>> /\ Says(idx + 1, TypeWords(t) \o Ident(n), decl.idx)
  BY <1>1, <1>4, SaysTyped
<1>6. IsSeq(TypeWords(t))
  <2>1. \E j : Says(idx + 1, TypeWords(t), j)
    BY <1>1, <1>4, SaysTypePart
  <2> QED BY <2>1 DEF Says
<1> DEFINE vs == <<t, n>>
<1>7. IsSeq(vs) /\ Len(vs) = 2 /\ vs[1] = t /\ vs[2] = n /\ \A i \in 1..Len(vs) : i = 1 \/ i = 2
  BY Singles
<1> HIDE DEF vs
<1>8. Held(V, C, fn, vs)
  <2>1. Part(C, "type", t) = TypeWords(t) /\ Part(C, "ident", n) = Ident(n)
    BY DEF Part
  <2>2. Spells(V, C, "type", t) /\ Spells(V, C, "ident", n)
    BY <1>6, <2>1, OneWord DEF Spells, NodeKinds
  <2> QED BY <1>7, <2>2, DeclKinds DEF Held
<1>9. Said(C, fn, vs) = HeadWords(fn, t, n)
  <2>1. Said(C, fn, vs) = Upon(C, fn, First(C, fn, vs), vs, 2)
    BY <1>7, <1>8, DeclKinds, SaidTwo
  <2>2. Upon(C, fn, First(C, fn, vs), vs, 2) = HeadWords(fn, vs[1], vs[2])
    BY <1>6, <1>7, TypedHeld
  <2> QED BY <1>7, <2>1, <2>2
<1>10. Says(st[Len(frames)], <<>>, idx)
  <2>1. vals = <<>>
    BY <1>1, LenNat
  <2> QED BY <1>1, <2>1, SaidNone, DeclKinds
<1>11. Says(st[Len(frames)], HeadWords(fn, t, n), decl.idx)
  <2> DEFINE s == Sign(word)
             ty == TypeWords(t)
             na == Ident(n)
  <2>1. IsSeq(s) /\ IsSeq(ty) /\ IsSeq(na)
    BY <1>6, OneWord
  <2> HIDE DEF decl
  <2>2. Says(idx, s \o (ty \o na), decl.idx)
    BY <1>1, <1>3, <1>5, SaysOn
  <2>3. Says(st[Len(frames)], <<>> \o (s \o (ty \o na)), decl.idx)
    BY <1>1, <1>10, <2>2, SaysOn
  <2>4. HeadWords(fn, t, n) = (s \o ty) \o na
    BY DEF HeadWords
  <2> HIDE DEF s, ty, na
  <2>5. IsSeq(ty \o na) /\ IsSeq(s \o (ty \o na))
    BY <2>1, Joined
  <2>6. <<>> \o (s \o (ty \o na)) = (s \o ty) \o na
    <3>1. (s \o ty) \o na = s \o (ty \o na)
      BY <2>1, Assoc
    <3> DEFINE x == s \o (ty \o na)
    <3>2. IsSeq(x)
      BY <2>5
    <3> HIDE DEF x
    <3>3. <<>> \o x = x
      BY <3>2, JoinNone
    <3> QED BY <3>1, <3>3 DEF x
  <2> QED BY <2>3, <2>4, <2>6
<1>12. Aimed(fn, vs, Len(vs))
  BY DeclKinds DEF Aimed
<1>13. Runs(V, C, fn, vs, st[Len(frames)], decl.idx)
  BY <1>8, <1>9, <1>11, <1>12 DEF Runs
<1> QED BY <1>5, <1>6, <1>7, <1>11, <1>13 DEF vs

\* The two kinds of declaration of a variable.
LEMMA VarDeclNone ==
  ASSUME NEW C, NEW ident, NEW type, NEW n, n = mk_var_decl(ident, type, Null)
  PROVE  /\ n.type = "AST_VAR_DECL" /\ n # Null /\ Parts(n) = {}
         /\ NodeWords(C, n) = (HeadWords("parse_var_decl", type, ident) \o <<>>) \o Sign("T_SEMICOLON")
<1>1. n.type = "AST_VAR_DECL" /\ n # Null /\ n.assign = Null /\ n.var_t = type /\ n.ident = ident
  BY DEF mk_var_decl, Null
<1>2. HeadWords("parse_var_decl", type, ident) = (Sign("T_LET") \o TypeWords(type)) \o Ident(ident)
  BY DEF HeadWords
<1>3. Parts(n) = {Null} \ {Null}
  BY <1>1 DEF Parts
<1>4. NodeWords(C, n)
        = (((Sign("T_LET") \o TypeWords(type)) \o Ident(ident)) \o <<>>) \o Sign("T_SEMICOLON")
  BY <1>1 DEF NodeWords
<1> QED BY <1>1, <1>2, <1>3, <1>4

LEMMA VarDeclGiven ==
  ASSUME NEW C, NEW ident, NEW type, NEW v, v # Null, NEW n, n = mk_var_decl(ident, type, v)
  PROVE  /\ n.type = "AST_VAR_DECL" /\ n # Null /\ Parts(n) = {v}
         /\ NodeWords(C, n) = (HeadWords("parse_var_decl", type, ident) \o (Sign("T_EQUAL") \o C[v]))
                                \o Sign("T_SEMICOLON")
<1>1. n.type = "AST_VAR_DECL" /\ n # Null /\ n.assign = v /\ n.var_t = type /\ n.ident = ident
  BY DEF mk_var_decl, Null
<1>2. HeadWords("parse_var_decl", type, ident) = (Sign("T_LET") \o TypeWords(type)) \o Ident(ident)
  BY DEF HeadWords
<1>3. Parts(n) = {v} \ {Null}
  BY <1>1 DEF Parts
<1>4. NodeWords(C, n)
        = (((Sign("T_LET") \o TypeWords(type)) \o Ident(ident)) \o (Sign("T_EQUAL") \o C[v]))
             \o Sign("T_SEMICOLON")
  BY <1>1 DEF NodeWords
<1> QED BY <1>1, <1>2, <1>3, <1>4

LEMMA VarDeclKinds ==
  /\ Lead("parse_var_decl", 3) = Sign("T_EQUAL") /\ Wants("parse_var_decl", 3) = "expr"
  /\ Gives("parse_var_decl") = "decl" /\ Start(parse_binary_expr) = <<>>
<1>1. Lead("parse_var_decl", 3) = Sign("T_EQUAL")
  BY DEF Lead
<1>2. Wants("parse_var_decl", 3) = "expr"
  BY DEF Wants, binary_op
<1>3. Start(parse_binary_expr) = <<>>
  BY OwnStart DEF parse_binary_expr
<1> QED BY <1>1, <1>2, <1>3 DEF Gives

LEMMA ParseVarDeclWords ==
  ASSUME NEW U, NEW V, NEW C, NEW st, Read(U, V, C, st), ParseVarDecl
  PROVE  WordsInv'
<1> DEFINE fn == "parse_var_decl"
           decl == TypedIdent(idx + 1)
<1>1. Top.fn = fn
  BY DEF ParseVarDecl, In
<1>2. /\ Runs(V, C, fn, vals, st[Len(frames)], idx)
      /\ IsSeq(vals) /\ tokens \in Inputs /\ InTokens(idx) /\ Spelt(V, C) /\ IInv
      /\ Held(V, C, fn, vals) /\ Says(st[Len(frames)], Said(C, fn, vals), idx)
  BY <1>1, RunsNow, Reading
<1>3. fn \in {"parse_var_decl", "parse_func_decl"} /\ fn # "parse_program"
  OBVIOUS
<1> DEFINE semi == Sign("T_SEMICOLON")
<1>4. ASSUME In(fn, 0), decl.nodes # <<>>
      PROVE  /\ IsSeq(decl.nodes) /\ Len(decl.nodes) = 2
             /\ Runs(V, C, fn, decl.nodes, st[Len(frames)], decl.idx)
             /\ Says(st[Len(frames)], HeadWords(fn, decl.nodes[1], decl.nodes[2]), decl.idx)
  <2>1. Len(vals) = 0
    BY <1>4 DEF In
  <2> QED BY <1>1, <1>3, <1>4, <2>1, TypedWords
<1>5. CASE In(fn, 0) /\ decl.nodes # <<>> /\ Kind(decl.idx) = "T_EQUAL"
           /\ Call(decl.idx + 1, decl.nodes, parse_binary_expr)
  <2> DEFINE vs == decl.nodes
             j == decl.idx
  <2>1. IsSeq(vs) /\ Len(vs) = 2 /\ Runs(V, C, fn, vs, st[Len(frames)], j)
    BY <1>4, <1>5
  <2>2. Kind(j) = "T_EQUAL" /\ Call(j + 1, vs, parse_binary_expr)
    BY <1>5
  <2> HIDE DEF vs, j
  <2>3. Says(j, Sign("T_EQUAL"), j + 1)
    BY <1>2, <2>1, <2>2, SaysSign DEF Runs, Says
  <2>4. Says(j, Lead(fn, Len(vs) + 1), j + 1)
    <3>1. Len(vs) + 1 = 3
      BY <2>1
    <3> QED BY <2>3, <3>1, VarDeclKinds
  <2>5. Aimed(fn, vs, Len(vs) + 1)
    BY DEF Aimed
  <2>6. Waits(V, C, fn, vs, st[Len(frames)], j + 1)
    BY <1>2, <2>1, <2>4, <2>5, RunsWait
  <2>7. Says(j + 1, Start(parse_binary_expr), j + 1)
    BY <1>2, <2>3, SaysNone, VarDeclKinds DEF Says
  <2> QED BY <1>1, <2>1, <2>2, <2>6, <2>7, CallWords
<1>6. CASE In(fn, 0) /\ decl.nodes # <<>> /\ Kind(decl.idx) = "T_SEMICOLON"
           /\ Return(decl.idx + 1, mk_var_decl(decl.nodes[2], decl.nodes[1], Null))
  <2> DEFINE t == decl.nodes[1]
             a == decl.nodes[2]
             j == decl.idx
             n == mk_var_decl(a, t, Null)
             w == HeadWords(fn, t, a)
  <2>1. Says(st[Len(frames)], w, j)
    BY <1>4, <1>6
  <2>2. Kind(j) = "T_SEMICOLON" /\ Return(j + 1, n)
    BY <1>6
  <2>3. n.type = "AST_VAR_DECL" /\ n # Null /\ Parts(n) = {} /\ NodeWords(C, n) = (w \o <<>>) \o semi
    <3>1. n = mk_var_decl(a, t, Null)
      OBVIOUS
    <3> HIDE DEF n, a, t
    <3>2. /\ n.type = "AST_VAR_DECL" /\ n # Null /\ Parts(n) = {}
          /\ NodeWords(C, n) = (HeadWords("parse_var_decl", t, a) \o <<>>) \o Sign("T_SEMICOLON")
      BY <3>1, VarDeclNone
    <3> QED BY <3>2
  <2> HIDE DEF t, a, j, n, w
  <2>4. Says(j, semi, j + 1)
    BY <1>2, <2>1, <2>2, SaysSign DEF Says
  <2>5. Says(st[Len(frames)], w \o semi, j + 1)
    BY <1>2, <2>1, <2>4, SaysOn
  <2>6. w \o <<>> = w
    BY <2>1, JoinNone DEF Says
  <2>7. Says(st[Len(frames)], NodeWords(C, n), j + 1)
    BY <2>3, <2>5, <2>6
  <2>8. Parts(n) \subseteq V /\ Proper(n)
    BY <2>3 DEF Proper
  <2> QED BY <1>1, <1>3, <2>2, <2>3, <2>7, <2>8, VarDeclKinds, ReturnMade
<1>7. CASE In(fn, 3) /\ tok = "T_SEMICOLON" /\ Return(idx + 1, mk_var_decl(vals[2], vals[1], vals[3]))
  <2> DEFINE n == mk_var_decl(vals[2], vals[1], vals[3])
             w == HeadWords(fn, vals[1], vals[2])
             e == Sign("T_EQUAL")
             c == C[vals[3]]
  <2>1. Len(vals) = 3 /\ 1 \in 1..Len(vals) /\ 3 \in 1..Len(vals)
    BY <1>7 DEF In
  <2>2. vals[3] \in V /\ IsSeq(c) /\ Part(C, "expr", vals[3]) = c
    <3>1. 3 \in 1..Len(vals) /\ Wants(fn, 3) = "expr" /\ Held(V, C, fn, vals)
      BY <1>2, <2>1, VarDeclKinds
    <3> QED BY <3>1, HeldNodeExpr
  <2>3. IsSeq(TypeWords(vals[1]))
    <3>1. Spells(V, C, "type", vals[1])
      BY <1>2, <1>3, <2>1, DeclKinds DEF Held
    <3> QED BY <3>1 DEF Spells, Part
  <2>4. IsSeq(w) /\ Upon(C, fn, First(C, fn, vals), vals, 2) = w
    BY <1>2, <1>3, <2>3, TypedHeld
  <2>5. Upon(C, fn, w, vals, 3) = (w \o e) \o c
    BY <2>2, VarDeclKinds DEF Upon
  <2>6. Said(C, fn, vals) = Upon(C, fn, Upon(C, fn, First(C, fn, vals), vals, 2), vals, 3)
    BY <1>2, <1>3, <2>1, DeclKinds, SaidThree
  <2>7. vals[3] # Null
    BY <1>2, <2>2 DEF Spelt
  <2>8. n.type = "AST_VAR_DECL" /\ n # Null /\ Parts(n) \subseteq V /\ NodeWords(C, n) = (w \o (e \o c)) \o semi
    <3> DEFINE v == vals[3]
               t == vals[1]
               a == vals[2]
    <3>1. n = mk_var_decl(a, t, v) /\ v # Null
      BY <2>7
    <3> HIDE DEF n, v, t, a
    <3>2. /\ n.type = "AST_VAR_DECL" /\ n # Null /\ Parts(n) = {v}
          /\ NodeWords(C, n) = (HeadWords("parse_var_decl", t, a) \o (Sign("T_EQUAL") \o C[v]))
                                 \o Sign("T_SEMICOLON")
      BY <3>1, VarDeclGiven
    <3> QED BY <2>2, <3>2 DEF v, t, a
  <2>9. Says(idx, semi, idx + 1) /\ Return(idx + 1, n)
    BY <1>2, <1>7, SaysSign DEF tok
  <2>10. IsSeq(e)
    BY OneWord
  <2>11. Says(st[Len(frames)], (w \o e) \o c, idx)
    BY <1>2, <2>4, <2>5, <2>6
  <2> HIDE DEF n, w, e, c, semi
  <2>12. Says(st[Len(frames)], ((w \o e) \o c) \o semi, idx + 1)
    BY <1>2, <2>9, <2>11, SaysOn
  <2>13. (w \o e) \o c = w \o (e \o c)
    BY <2>2, <2>4, <2>10, Assoc
  <2>14. Says(st[Len(frames)], NodeWords(C, n), idx + 1)
    BY <2>8, <2>12, <2>13
  <2>15. Proper(n)
    BY <2>8 DEF Proper
  <2> QED BY <1>1, <1>3, <2>8, <2>9, <2>14, <2>15, VarDeclKinds, ReturnMade
<1>8. CASE compile_error
  BY <1>8, StopWords
<1> QED BY <1>5, <1>6, <1>7, <1>8 DEF ParseVarDecl

-----------------------------------------------------------------------------
(* Functions and the program *)

LEMMA ParamKinds ==
  /\ \A i : Wants("parse_all_func_params", i) = "param" /\ Lead("parse_all_func_params", i) = <<>>
  /\ Gives("parse_all_func_params") = "params" /\ Start("parse_all_func_params") = <<>>
<1>1. \A i : Lead("parse_all_func_params", i) = <<>>
  BY DEF Lead
<1>2. \A i : Wants("parse_all_func_params", i) = "param"
  BY DEF Wants, binary_op
<1> QED BY <1>1, <1>2, OwnStart DEF Gives

LEMMA ParseAllFuncParamsWords ==
  ASSUME NEW U, NEW V, NEW C, NEW st, Read(U, V, C, st), ParseAllFuncParams
  PROVE  WordsInv'
<1> DEFINE fn == "parse_all_func_params"
           param == TypedIdent(idx)
           p == mk_func_param(param.nodes[2], param.nodes[1])
<1>1. Top.fn = fn
  BY DEF ParseAllFuncParams
<1>2. /\ Runs(V, C, fn, vals, st[Len(frames)], idx)
      /\ IsSeq(vals) /\ tokens \in Inputs /\ InTokens(idx) /\ Spelt(V, C)
      /\ Held(V, C, fn, vals) /\ Says(st[Len(frames)], Said(C, fn, vals), idx)
  BY <1>1, RunsNow, Reading
<1>3. Longer(V, C, V, C) /\ fn # "parse_assign_expr" /\ fn # "parse_program"
  BY <1>2, LongerSelf
<1>4. CASE tok = "T_RIGHT_PAREN" /\ Return(idx + 1, vals)
  <2> DEFINE w == Said(C, fn, vals)
             g == [k \in DOMAIN vals |-> TypeWords(vals[k].var_t) \o Ident(vals[k].ident)]
  <2>1. Says(idx, <<>>, idx + 1)
    BY <1>2, <1>4, SaysNothing DEF tok
  <2>2. DOMAIN vals = 1..Len(vals)
    <3>1. PICK S : vals \in Seq(S)
      BY <1>2 DEF IsSeq
    <3> QED BY <3>1
  <2>3. \A i \in 1..Len(vals) : IsSeq(TypeWords(vals[i].var_t) \o Ident(vals[i].ident))
    <3>1. \A i \in 1..Len(vals) : Spells(V, C, "param", vals[i])
      BY <1>2, ParamKinds DEF Held
    <3> QED BY <3>1 DEF Spells, Part
  <2>4. HandWords(C, fn, vals) = g
    <3>1. \A v : Part(C, "param", v) = TypeWords(v.var_t) \o Ident(v.ident)
      BY DEF Part
    <3>2. ASSUME NEW i \in 1..Len(vals)
          PROVE  Lead(fn, i) \o Part(C, Wants(fn, i), vals[i])
                   = TypeWords(vals[i].var_t) \o Ident(vals[i].ident)
      <4>1. Lead(fn, i) = <<>> /\ Part(C, Wants(fn, i), vals[i]) = TypeWords(vals[i].var_t) \o Ident(vals[i].ident)
        BY <3>1, ParamKinds
      <4> DEFINE x == TypeWords(vals[i].var_t) \o Ident(vals[i].ident)
      <4>2. IsSeq(x) /\ Lead(fn, i) = <<>> /\ Part(C, Wants(fn, i), vals[i]) = x
        BY <2>3, <4>1
      <4> HIDE DEF x
      <4>3. Lead(fn, i) \o Part(C, Wants(fn, i), vals[i]) = x
        BY <4>2, JoinNone
      <4> QED BY <4>3 DEF x
    <3> QED BY <2>2, <3>2 DEF HandWords
  <2>5. IsSeq(FlattenSeq(g))
    BY <1>2, <2>4, SaidSeq
  <2>6. Part(C, "params", vals) = FlattenSeq(g)
    BY DEF Part, ParamWords
  <2>7. w = Start(fn) \o FlattenSeq(HandWords(C, fn, vals))
    BY DEF Said
  <2>8. Says(st[Len(frames)], w, idx)
    BY <1>2
  <2> HIDE DEF w, g
  <2>9. w = Part(C, "params", vals)
    BY <2>4, <2>5, <2>6, <2>7, ParamKinds, JoinNone
  <2>10. Spells(V, C, "params", vals)
    BY <2>5, <2>6 DEF Spells, NodeKinds
  <2>11. Says(st[Len(frames)], w \o <<>>, idx + 1)
    BY <1>2, <2>1, <2>8, SaysOn
  <2>12. w \o <<>> = w
    BY <2>8, JoinNone DEF Says
  <2>13. Says(st[Len(frames)], Part(C, "params", vals), idx + 1)
    BY <2>9, <2>11, <2>12
  <2> QED BY <1>1, <1>3, <1>4, <2>10, <2>13, ParamKinds, ReturnWords
<1>5. ASSUME NEW k, param.nodes # <<>>, Keep(k, Append(vals, p)),
             (Kind(param.idx) = "T_COMMA" /\ k = param.idx + 1) \/ k = param.idx
      PROVE  WordsInv'
  <2> DEFINE w == TypeWords(param.nodes[1]) \o Ident(param.nodes[2])
             j == param.idx
  <2>1. Says(idx, w, j)
    BY <1>2, <1>5, SaysTyped
  <2>2. Part(C, "param", p) = w
    BY DEF Part, mk_func_param
  <2>3. (Kind(j) = "T_COMMA" /\ k = j + 1) \/ k = j
    BY <1>5
  <2>4. Keep(k, Append(vals, p))
    BY <1>5
  <2> HIDE DEF w, j, p
  <2>5. Says(j, <<>>, k)
    BY <1>2, <2>1, <2>3, SaysNothing, SaysNone DEF Says
  <2>6. IsSeq(w)
    BY <2>1 DEF Says
  <2>7. Says(idx, w, k)
    <3>1. Says(idx, w \o <<>>, k)
      BY <1>2, <2>1, <2>5, SaysOn
    <3> QED BY <2>6, <3>1, JoinNone
  <2>8. Spells(V, C, "param", p)
    BY <2>2, <2>6 DEF Spells, NodeKinds
  <2>9. /\ Spells(V, C, Wants(fn, Len(vals) + 1), p) /\ Says(idx, Lead(fn, Len(vals) + 1), idx)
        /\ Says(idx, Part(C, Wants(fn, Len(vals) + 1), p), k)
    BY <1>2, <2>2, <2>7, <2>8, ParamKinds, SaysNone
  <2>10. Aimed(fn, Append(vals, p), Len(vals) + 1)
    BY <1>3 DEF Aimed
  <2>11. Runs(V, C, fn, Append(vals, p), st[Len(frames)], k)
    BY <1>2, <2>9, <2>10, RunsMore
  <2> QED BY <1>1, <1>3, <2>4, <2>11, KeepWords
<1>6. CASE compile_error
  BY <1>6, StopWords
<1> QED BY <1>4, <1>5, <1>6 DEF ParseAllFuncParams

LEMMA FuncKinds ==
  /\ Lead("parse_func_decl", 3) = <<>> /\ Lead("parse_func_decl", 4) = <<>>
  /\ Wants("parse_func_decl", 3) = "params" /\ Wants("parse_func_decl", 4) = "block"
  /\ Gives("parse_func_decl") = "func"
<1>1. Lead("parse_func_decl", 3) = <<>> /\ Lead("parse_func_decl", 4) = <<>>
  BY DEF Lead
<1>2. Wants("parse_func_decl", 3) = "params" /\ Wants("parse_func_decl", 4) = "block"
  BY DEF Wants, binary_op
<1> QED BY <1>1, <1>2 DEF Gives

FuncWords(C, type, ident, params, block) ==
  (HeadWords("parse_func_decl", type, ident) \o ParamWords(params)) \o C[block]

LEMMA FuncDeclWords ==
  ASSUME NEW C, NEW type, NEW params, NEW ident, NEW block,
         NEW n, n = mk_func_decl(mk_func_t(type, params, ident), block)
  PROVE  /\ n.type = "AST_FUNC_DECL" /\ n # Null /\ Parts(n) = Range(<<block>>)
         /\ NodeWords(C, n) = FuncWords(C, type, ident, params, block)
         /\ n.func_t.params = params
<1>1. /\ n.type = "AST_FUNC_DECL" /\ n # Null /\ n.block = block /\ n.func_t.ret_t = type
      /\ n.func_t.params = params /\ n.func_t.ident = ident
  BY DEF mk_func_decl, mk_func_t, Null
<1>2. HeadWords("parse_func_decl", type, ident) = (Sign("T_FUNC") \o TypeWords(type)) \o Ident(ident)
  BY DEF HeadWords
<1>3. Parts(n) = Range(<<block>>)
  BY <1>1 DEF Parts, Below
<1>4. NodeWords(C, n)
        = (((Sign("T_FUNC") \o TypeWords(type)) \o Ident(ident)) \o ParamWords(params)) \o C[block]
  BY <1>1 DEF NodeWords
<1> QED BY <1>1, <1>2, <1>3, <1>4 DEF FuncWords

LEMMA ParseFuncDeclWords ==
  ASSUME NEW U, NEW V, NEW C, NEW st, Read(U, V, C, st), ParseFuncDecl
  PROVE  WordsInv'
<1> DEFINE fn == "parse_func_decl"
           decl == TypedIdent(idx + 1)
<1>1. Top.fn = fn
  BY DEF ParseFuncDecl, In
<1>2. /\ Runs(V, C, fn, vals, st[Len(frames)], idx)
      /\ IsSeq(vals) /\ tokens \in Inputs /\ InTokens(idx) /\ Spelt(V, C) /\ IInv
      /\ Held(V, C, fn, vals) /\ Says(st[Len(frames)], Said(C, fn, vals), idx)
  BY <1>1, RunsNow, Reading
<1>3. fn \in {"parse_var_decl", "parse_func_decl"} /\ fn # "parse_program"
  OBVIOUS
<1>4. CASE In(fn, 0) /\ decl.nodes # <<>> /\ Kind(decl.idx) = "T_LEFT_PAREN"
           /\ Call(decl.idx + 1, decl.nodes, "parse_all_func_params")
  <2> DEFINE vs == decl.nodes
             j == decl.idx
  <2>1. Len(vals) = 0
    BY <1>4 DEF In
  <2>2. IsSeq(vs) /\ Len(vs) = 2 /\ Runs(V, C, fn, vs, st[Len(frames)], j)
    BY <1>1, <1>3, <1>4, <2>1, TypedWords
  <2>3. Kind(j) = "T_LEFT_PAREN" /\ Call(j + 1, vs, "parse_all_func_params")
    BY <1>4
  <2> HIDE DEF vs, j
  <2>4. Says(j, <<>>, j) /\ Says(j, <<>>, j + 1)
    BY <1>2, <2>2, <2>3, SaysNone, SaysNothing DEF Runs, Says
  <2>5. Says(j, Lead(fn, Len(vs) + 1), j)
    <3>1. Len(vs) + 1 = 3
      BY <2>2
    <3> QED BY <2>4, <3>1, FuncKinds
  <2>6. Aimed(fn, vs, Len(vs) + 1)
    BY DEF Aimed
  <2>7. Waits(V, C, fn, vs, st[Len(frames)], j)
    BY <1>2, <2>2, <2>5, <2>6, RunsWait
  <2> QED BY <1>1, <2>2, <2>3, <2>4, <2>7, ParamKinds, CallWords
<1>5. CASE In(fn, 3) /\ parse_block_stmt(idx, vals)
  <2>1. Len(vals) = 3 /\ 3 + 1 = 4
    BY <1>5 DEF In
  <2>2. Says(idx, <<>>, idx)
    BY <1>2, SaysNone
  <2>3. Says(idx, Lead(fn, Len(vals) + 1), idx)
    BY <2>1, <2>2, FuncKinds
  <2>4. Aimed(fn, vals, Len(vals) + 1)
    BY DEF Aimed
  <2>5. Waits(V, C, fn, vals, st[Len(frames)], idx)
    BY <1>2, <2>3, <2>4, RunsWait
  <2> QED BY <1>1, <1>2, <1>5, <2>5, BlockCallWords
<1>6. CASE In(fn, 4) /\ Return(idx, mk_func_decl(mk_func_t(vals[1], vals[3], vals[2]), vals[4]))
  <2> DEFINE t == vals[1]
             a == vals[2]
             ps == vals[3]
             b == vals[4]
             n == mk_func_decl(mk_func_t(t, ps, a), b)
             w == HeadWords(fn, t, a)
             p == ParamWords(ps)
             c == C[b]
  <2>1. Len(vals) = 4 /\ 1 \in 1..Len(vals) /\ 3 \in 1..Len(vals) /\ 4 \in 1..Len(vals)
    BY <1>6 DEF In
  <2>2. b \in V /\ IsSeq(c) /\ Part(C, "block", b) = c
    <3>1. 4 \in 1..Len(vals) /\ Wants(fn, 4) = "block" /\ Held(V, C, fn, vals)
      BY <1>2, <2>1, FuncKinds
    <3> QED BY <3>1, HeldNodeBlock
  <2>3. IsSeq(TypeWords(t))
    <3>1. Spells(V, C, "type", vals[1])
      BY <1>2, <1>3, <2>1, DeclKinds DEF Held
    <3> QED BY <3>1 DEF Spells, Part
  <2>4. IsSeq(p) /\ Part(C, "params", vals[3]) = p
    <3>1. Spells(V, C, "params", vals[3])
      BY <1>2, <2>1, FuncKinds DEF Held
    <3> QED BY <3>1 DEF Spells, Part
  <2>5. IsSeq(w) /\ Upon(C, fn, First(C, fn, vals), vals, 2) = w
    BY <1>2, <1>3, <2>3, TypedHeld
  <2>6. Upon(C, fn, w, vals, 3) = w \o p
    BY <2>4, <2>5, FuncKinds, JoinNone DEF Upon
  <2>7. IsSeq(w \o p)
    BY <2>4, <2>5, Joined
  <2>8. Upon(C, fn, w \o p, vals, 4) = (w \o p) \o c
    <3> DEFINE x == w \o p
    <3>1. IsSeq(x)
      BY <2>7
    <3> HIDE DEF x
    <3>2. Upon(C, fn, x, vals, 4) = x \o c
      BY <2>2, <3>1, FuncKinds, JoinNone DEF Upon
    <3> QED BY <3>2 DEF x
  <2>9. Said(C, fn, vals)
          = Upon(C, fn, Upon(C, fn, Upon(C, fn, First(C, fn, vals), vals, 2), vals, 3), vals, 4)
    BY <1>2, <1>3, <2>1, DeclKinds, SaidFour
  <2>10. /\ n.type = "AST_FUNC_DECL" /\ n # Null /\ Parts(n) = Range(<<b>>)
         /\ NodeWords(C, n) = (w \o p) \o c /\ n.func_t.params = ps
    <3>1. n = mk_func_decl(mk_func_t(t, ps, a), b)
      OBVIOUS
    <3> HIDE DEF n, t, a, ps, b
    <3>2. /\ n.type = "AST_FUNC_DECL" /\ n # Null /\ Parts(n) = Range(<<b>>)
          /\ NodeWords(C, n) = FuncWords(C, t, a, ps, b) /\ n.func_t.params = ps
      BY <3>1, FuncDeclWords
    <3> QED BY <3>2 DEF FuncWords
  <2>11. Parts(n) \subseteq V
    BY <2>2, <2>10 DEF Range
  <2>12. Says(st[Len(frames)], NodeWords(C, n), idx) /\ Return(idx, n)
    BY <1>2, <1>6, <2>5, <2>6, <2>8, <2>9, <2>10
  <2>13. Proper(n)
    <3>1. Fits(U, Names, Wants(fn, 3), vals[3])
      BY <1>1, <1>2, <2>1, HandHolds DEF Read
    <3>2. IsSeq(ps)
      BY <3>1, FuncKinds DEF Fits
    <3> QED BY <2>10, <3>2 DEF Proper
  <2> HIDE DEF n
  <2> QED BY <1>1, <1>3, <2>10, <2>11, <2>12, <2>13, FuncKinds, ReturnMade
<1>7. CASE compile_error \/ assert_failed
  BY <1>7, StopWords
<1> QED BY <1>4, <1>5, <1>6, <1>7 DEF ParseFuncDecl

LEMMA ParseProgramWords ==
  ASSUME NEW U, NEW V, NEW C, NEW st, Read(U, V, C, st), ParseProgram
  PROVE  WordsInv'
<1>1. Top.fn = "parse_program"
  BY DEF ParseProgram
<1>2. Start("parse_func_decl") = <<>> /\ Start("parse_var_decl") = <<>>
  BY OwnStart
<1>3. CASE Stop("done") \/ compile_error
  BY <1>3, StopWords
<1>4. CASE Call(idx, vals, "parse_func_decl") \/ Call(idx, vals, "parse_var_decl")
  <2>1. Lead(Top.fn, Len(vals) + 1) = <<>> /\ Top.fn # "parse_assign_expr"
    BY <1>1, StmtKinds
  <2> QED BY <1>2, <1>4, <2>1, CallSame
<1>5. CASE tok = "T_COMMENT" /\ Keep(idx + 1, Append(vals, mk_comment_stmt))
  BY <1>1, <1>5, StmtKinds, CommentWords
<1> QED BY <1>3, <1>4, <1>5 DEF ParseProgram

LEMMA WordsStart == Init => WordsInv
<1> SUFFICES ASSUME Init PROVE WordsInv
  OBVIOUS
<1> DEFINE C == [n \in {} |-> <<>>]
           st == [j \in {1} |-> 0]
           fr == Frame("parse_program", <<>>)
<1>1. tokens \in Inputs /\ idx = 0 /\ frames = <<fr>>
  BY DEF Init
<1>2. Spelt({}, C)
  BY DEF Spelt
<1>3. st[1] = 0
  OBVIOUS
<1>4. fr.fn = "parse_program" /\ fr.vals = <<>>
  BY DEF Frame
<1> HIDE DEF fr, C, st
<1>5. Len(frames) = 1 /\ frames[1] = fr /\ \A j \in 1..Len(frames) - 1 : FALSE
  BY <1>1
<1>6. InTokens(0)
  BY <1>1, Lists, InputsAssumption DEF InTokens
<1>7. Says(0, <<>>, 0)
  BY <1>1, <1>6, SaysNone
<1>8. Runs({}, C, "parse_program", <<>>, 0, 0)
  <2>1. \A i \in 1..Len(<<>>) : FALSE
    OBVIOUS
  <2>2. Said(C, "parse_program", <<>>) = <<>>
    BY SaidNone, OwnStart
  <2> QED BY <1>7, <2>1, <2>2 DEF Runs, Held, Aimed
<1>9. Told({}, C, st, frames, idx)
  BY <1>1, <1>3, <1>4, <1>5, <1>8 DEF Told
<1> QED BY <1>2, <1>3, <1>9 DEF WordsInv

LEMMA WordsInductive == IInv /\ TreeInv /\ WordsInv /\ [Next]_vars => WordsInv'
<1> SUFFICES ASSUME IInv, TreeInv, WordsInv, [Next]_vars PROVE WordsInv'
  OBVIOUS
<1> PICK U : Before(U)
  BY DEF TreeInv, Before
<1> PICK V, C, st : Read(U, V, C, st)
  BY DEF WordsInv, Read
<1>1. CASE ParseExpression
  BY <1>1, FirstOperandWords, ParseLevelWords, ParseAssignExprWords, ParseUnaryExprWords, ParsePostfixWords,
     ParsePrimaryWords, ParseCastExprWords, ParseCallExprWords DEF ParseExpression
<1>2. CASE ParseStmt
  BY <1>2, ParseBlockStmtWords, ParseStatmentWords, ParseReturnStmtWords, ParseIfStmtWords, ParseVarDeclWords
     DEF ParseStmt
<1>3. CASE ParseAllFuncParams \/ ParseFuncDecl \/ ParseProgram
  BY <1>3, ParseAllFuncParamsWords, ParseFuncDeclWords, ParseProgramWords
<1>4. CASE UNCHANGED vars
  BY <1>4, SameWords DEF vars
<1> QED BY <1>1, <1>2, <1>3, <1>4 DEF Next, Parse, Terminated

-----------------------------------------------------------------------------
(* The whole tree says the whole source                                    *)
(*                                                                         *)
(* What holds of a node when it holds of the nodes directly below it holds *)
(* of all nodes: one of those for which it fails and that are furthest     *)
(* from the program would have only others below it.                       *)

Complete(U) ==
  /\ tokens \in Inputs /\ Universe(U, Names)
  /\ Range(program) \subseteq U /\ DOMAIN program = 1..Len(program) /\ IsSeq(program)
  /\ \A k \in DOMAIN program : program[k].type \in top_t
  /\ Level[Len(tokens) - 1] = {}

LEMMA Completed ==
  ASSUME IInv, TreeInv, DepthInv, phase = "done"
  PROVE  \E U : Before(U) /\ Complete(U)
<1> PICK U : Before(U)
  BY DEF TreeInv, Before
<1>1. tokens \in Inputs /\ Universe(U, Names)
  BY DEF IInv, Before
<1>2. Top.fn = "parse_program"
  <2>1. Len(frames) = 1
    BY DEF IInv
  <2> QED BY <2>1, Here DEF IsStack
<1>3. \A i \in 1..Len(vals) : Fits(U, Names, "top", vals[i])
  <2>1. \A i : Wants("parse_program", i) = "top"
    BY DEF Wants, binary_op
  <2> QED BY <1>2, <2>1, HandHolds
<1>4. IsSeq(vals) /\ DOMAIN vals = 1..Len(vals)
  <2>1. PICK S : vals \in Seq(S)
    BY Here DEF IsSeq
  <2> QED BY <2>1, LenProperties, Here
<1>5. \A k \in DOMAIN program : program[k] \in U /\ program[k].type \in top_t
  BY <1>3, <1>4 DEF program, Fits
<1>6. Range(program) \subseteq U
  BY <1>5 DEF Range
<1>7. Level[Len(tokens) - 1] = {}
  BY Bounded DEF NestingBounded
<1> QED BY <1>1, <1>4, <1>5, <1>6, <1>7 DEF Complete, program

\* The levels up to the empty one: all nodes are in them, and those below.
LEMMA AllNodes ==
  ASSUME NEW U, Complete(U)
  PROVE  /\ Within(Len(tokens)) \subseteq U
         /\ Range(program) \subseteq Within(Len(tokens))
         /\ \A n \in Within(Len(tokens)) : Step({n}) \subseteq Within(Len(tokens))
<1>1. PICK L \in Nat : L = Len(tokens) - 1 /\ Len(tokens) = L + 1 /\ tokens \in Inputs
  <2>1. tokens \in Inputs /\ Len(tokens) - 1 \in Nat /\ Len(tokens) = (Len(tokens) - 1) + 1
    BY Lists DEF Complete
  <2> QED BY <2>1
<1>2. \A d \in 0..L + 1 : /\ Level[d] = IF d = 0 THEN Range(program) ELSE Step(Level[d - 1])
                          /\ Level[d] \subseteq U
  <2>1. \A d \in 0..L + 1 : d \in 0..Len(tokens) + 2
    BY <1>1
  <2> QED BY <2>1, <1>1, LevelIn DEF Complete
<1>3. 0 \in 0..L + 1 /\ L \in 0..L + 1 /\ L + 1 \in 0..L + 1 /\ L + 1 # 0 /\ L + 1 - 1 = L
  BY <1>1
<1>4. Level[L] = {} /\ Level[L + 1] = {}
  <2>1. Level[L] = {}
    BY <1>1 DEF Complete
  <2>2. Level[L + 1] = Step(Level[L])
    BY <1>2, <1>3
  <2>3. Step({}) = {}
    BY DEF Step
  <2> QED BY <2>1, <2>2, <2>3
<1>5. Within(L + 1) \subseteq U
  BY <1>2 DEF Within
<1>6. Range(program) \subseteq Within(L + 1)
  BY <1>2, <1>3 DEF Within
<1>7. ASSUME NEW n \in Within(L + 1) PROVE Step({n}) \subseteq Within(L + 1)
  <2>1. PICK d \in 0..L + 1 : n \in Level[d]
    BY DEF Within
  <2>2. d # L + 1
    BY <1>4, <2>1
  <2>3. d + 1 \in 0..L + 1 /\ d + 1 # 0 /\ d + 1 - 1 = d
    BY <1>1, <2>2
  <2>4. Level[d + 1] = Step(Level[d])
    BY <1>2, <2>3
  <2>5. Step({n}) \subseteq Step(Level[d])
    BY <2>1 DEF Step
  <2> QED BY <2>3, <2>4, <2>5 DEF Within
<1> QED BY <1>1, <1>5, <1>6, <1>7

LEMMA FromBelow ==
  ASSUME NEW U, Complete(U), NEW G,
         \A n \in Within(Len(tokens)) : Step({n}) \subseteq G => n \in G
  PROVE  Within(Len(tokens)) \subseteq G
<1>1. PICK L \in Nat : L = Len(tokens) - 1 /\ Len(tokens) = L + 1 /\ tokens \in Inputs
  <2>1. tokens \in Inputs /\ Len(tokens) - 1 \in Nat /\ Len(tokens) = (Len(tokens) - 1) + 1
    BY Lists DEF Complete
  <2> QED BY <2>1
<1>2. \A d \in 0..L + 1 : Level[d] = IF d = 0 THEN Range(program) ELSE Step(Level[d - 1])
  <2>1. \A d \in 0..L + 1 : d \in 0..Len(tokens) + 2
    BY <1>1
  <2> QED BY <2>1, <1>1, LevelIn DEF Complete
<1> DEFINE Bad == {d \in 0..L + 1 : ~(Level[d] \subseteq G)}
<1>3. Bad = {}
  <2> SUFFICES ASSUME Bad # {} PROVE FALSE
    OBVIOUS
  <2>1. PICK N \in Nat : N = L + 1
    <3>1. L \in Nat
      OBVIOUS
    <3> QED BY <3>1
  <2>2. PICK d \in Bad : \A e \in Bad : d >= e
    <3>1. Bad \subseteq 0..N
      BY <2>1
    <3> HIDE DEF Bad
    <3> QED BY <3>1, Greatest
  <2>3. d \in 0..L + 1
    OBVIOUS
  <2>4. PICK n \in Level[d] : n \notin G
    OBVIOUS
  <2>5. n \in Within(L + 1)
    BY <2>3, <2>4 DEF Within
  <2>6. CASE d = L + 1
    <3>0. L \in Nat
      BY <1>1
    <3>1. L \in 0..L + 1 /\ L + 1 \in 0..L + 1 /\ L + 1 # 0 /\ L + 1 - 1 = L
      BY <3>0
    <3>2. Level[L] = {}
      BY <1>1 DEF Complete
    <3>3. Level[L + 1] = Step(Level[L])
      BY <1>2, <3>1
    <3>4. Step({}) = {}
      BY DEF Step
    <3> QED BY <2>4, <2>6, <3>2, <3>3, <3>4
  <2>7. CASE d # L + 1
    <3>1. d + 1 \in 0..L + 1 /\ d + 1 # 0 /\ d + 1 - 1 = d /\ ~(d >= d + 1)
      BY <1>1, <2>3, <2>7
    <3>2. Level[d + 1] = Step(Level[d])
      BY <1>2, <3>1
    <3>3. Level[d + 1] \subseteq G
      BY <2>2, <3>1
    <3>4. Step({n}) \subseteq Step(Level[d])
      BY <2>4 DEF Step
    <3> QED BY <1>1, <2>4, <2>5, <3>2, <3>3, <3>4
  <2> QED BY <2>6, <2>7
<1> QED BY <1>1, <1>3 DEF Within

LEMMA UptoEnds ==
  ASSUME tokens \in Inputs, NEW k, InTokens(k), Kind(k) = "T_EOF"
  PROVE  Upto(0) = <<>> /\ Content(tokens) = Upto(k) \o Sign("T_EOF")
<1>1. PICK n \in Nat : n = Len(tokens) /\ n > 0
  BY Lists
<1>2. k = n - 1 /\ k \in Nat /\ k + 1 = n
  BY <1>1, Lists DEF InTokens
<1>3. Upto(0) = <<>>
  <2>1. 0 \in 0..Len(tokens)
    BY <1>1
  <2>2. PICK m : IsSeqs(m) /\ Len(m) = 0 /\ Upto(0) = FlattenSeq(m)
    BY <2>1, UptoSeqs
  <2>3. m = <<>>
    BY <2>2, LenNat DEF IsSeqs
  <2> QED BY <2>2, <2>3, FlatNone
<1>4. Upto(k + 1) = Upto(k) \o Meaning(tokens[k + 1])
  BY UptoNext
<1>5. Meaning(tokens[k + 1]) = Sign("T_EOF")
  BY DEF Meaning, Kind
<1>6. SubSeq(tokens, 1, n) = tokens
  <2>1. n \in 0..Len(tokens)
    BY <1>1
  <2>2. PICK s : s = SubSeq(tokens, 1, n) /\ IsSeq(s) /\ Len(s) = n /\ \A j \in 1..n : s[j] = tokens[j]
    BY <2>1, UptoSeqs
  <2>3. IsSeq(tokens)
    BY InputsAssumption DEF IsSeq
  <2> QED BY <1>1, <2>2, <2>3, CommonSet, SeqEqual
<1>7. Upto(k + 1) = Content(tokens)
  BY <1>2, <1>6 DEF Upto
<1> QED BY <1>3, <1>4, <1>5, <1>7

\* At the end the program says all that was read.
LEMMA ProgramSays ==
  ASSUME IInv, WordsInv, phase = "done"
  PROVE  \E V, C : /\ Spelt(V, C) /\ \A k \in 1..Len(program) : program[k] \in V
                   /\ Content(tokens)
                        = FlattenSeq([k \in 1..Len(program) |-> C[program[k]]]) \o Sign("T_EOF")
<1> PICK V, C, st : Spelt(V, C) /\ st[1] = 0 /\ Told(V, C, st, frames, idx)
  BY DEF WordsInv
<1>1. Len(frames) = 1 /\ tok = "T_EOF"
  BY DEF IInv
<1>2. Top = frames[1] /\ tokens \in Inputs /\ InTokens(idx) /\ IsSeq(vals) /\ Top.fn = "parse_program"
  BY <1>1, Here DEF IsStack
<1>3. Runs(V, C, "parse_program", vals, 0, idx)
  BY <1>1, <1>2 DEF Told, vals
<1>4. \A i : Wants("parse_program", i) = "top" /\ Lead("parse_program", i) = <<>>
  BY DEF Wants, binary_op, Lead
<1>5. \A i \in 1..Len(vals) : Spells(V, C, "top", vals[i])
  BY <1>3, <1>4 DEF Runs, Held
<1>6. \A i \in 1..Len(vals) : vals[i] \in V /\ IsSeq(C[vals[i]])
  BY <1>5 DEF Spells, NodeKinds, Part
<1>7. \A i \in 1..Len(vals) : Part(C, "top", vals[i]) = C[vals[i]]
  BY DEF Part
<1> DEFINE f == [k \in 1..Len(vals) |-> C[vals[k]]]
<1>8. HandWords(C, "parse_program", vals) = f
  <2>1. \A i \in 1..Len(vals) : <<>> \o C[vals[i]] = C[vals[i]]
    BY <1>6, JoinNone
  <2> QED BY <1>4, <1>7, <2>1 DEF HandWords
<1>9. IsSeq(FlattenSeq(f))
  BY <1>2, <1>3, <1>8, SaidSeq DEF Runs
<1> HIDE DEF f
<1>10. Said(C, "parse_program", vals) = Start("parse_program") \o FlattenSeq(f)
  BY <1>8 DEF Said
<1>11. Start("parse_program") = <<>>
  BY DEF Start
<1>12. Said(C, "parse_program", vals) = FlattenSeq(f)
  BY <1>9, <1>10, <1>11, JoinNone
<1>13. Upto(idx) = Upto(0) \o FlattenSeq(f)
  BY <1>3, <1>12 DEF Runs, Says
<1>14. Upto(0) = <<>> /\ Content(tokens) = Upto(idx) \o Sign("T_EOF")
  BY <1>1, <1>2, UptoEnds DEF tok
<1>15. Content(tokens) = FlattenSeq(f) \o Sign("T_EOF")
  BY <1>9, <1>13, <1>14, JoinNone
<1> QED BY <1>6, <1>15 DEF f, program

\* The nodes that a node says are those directly below it.
LEMMA StepParts == ASSUME NEW n PROVE Step({n}) = Parts(n) \ {Null}
<1>1. Step({n}) = Range(Below(n)) \ {Null}
  BY DEF Step
<1>2. CASE n.type = "AST_VAR_DECL"
  <2>1. Range(Below(n)) = {n.assign}
    BY <1>2, RangeOf DEF Below
  <2> QED BY <1>1, <1>2, <2>1 DEF Parts
<1>3. CASE n.type = "AST_IF"
  <2>1. Range(Below(n)) = {n.cond, n.then_branch, n.else_branch}
    BY <1>3, RangeOf DEF Below
  <2> QED BY <1>1, <1>3, <2>1 DEF Parts
<1>4. CASE n.type \notin {"AST_VAR_DECL", "AST_IF"}
  BY <1>1, <1>4 DEF Parts
<1> QED BY <1>2, <1>3, <1>4

LEMMA SpeltBelow ==
  ASSUME NEW V, NEW C, Spelt(V, C), NEW n \in V
  PROVE  Step({n}) = Parts(n) /\ Step({n}) \subseteq V /\ C[n] = NodeWords(C, n)
BY StepParts DEF Spelt

\* Nodes that the program reaches have been made.
LEMMA AllMade ==
  ASSUME NEW U, Complete(U), NEW V, NEW C, Spelt(V, C), Range(program) \subseteq V
  PROVE  Within(Len(tokens)) \subseteq V
<1>1. PICK n \in Nat : n = Len(tokens)
  BY Lists DEF Complete
<1>2. \A d \in 0..n : Level[d] = IF d = 0 THEN Range(program) ELSE Step(Level[d - 1])
  <2>1. \A d \in 0..n : d \in 0..Len(tokens) + 2
    BY <1>1
  <2> QED BY <2>1, <1>1, LevelIn DEF Complete
<1> DEFINE Bad == {d \in 0..n : ~(Level[d] \subseteq V)}
<1>3. Bad = {}
  <2> SUFFICES ASSUME Bad # {} PROVE FALSE
    OBVIOUS
  <2>1. Bad \subseteq Nat
    OBVIOUS
  <2>2. PICK d \in Bad : \A e \in Bad : d <= e
    BY <2>1, Least
  <2>3. d \in 0..n /\ ~(Level[d] \subseteq V)
    OBVIOUS
  <2>4. d # 0
    BY <1>2, <2>3
  <2>5. d - 1 \in 0..n /\ ~(d <= d - 1)
    BY <2>3, <2>4
  <2>6. Level[d - 1] \subseteq V
    BY <2>2, <2>5
  <2>7. \A m \in Level[d - 1] : Range(Below(m)) \ {Null} \subseteq V
    <3> SUFFICES ASSUME NEW m \in Level[d - 1] PROVE Range(Below(m)) \ {Null} \subseteq V
      OBVIOUS
    <3>1. Step({m}) \subseteq V
      BY <2>6, SpeltBelow
    <3> QED BY <3>1 DEF Step
  <2>8. Step(Level[d - 1]) \subseteq V
    BY <2>7 DEF Step
  <2> QED BY <1>2, <2>3, <2>4, <2>8
<1> QED BY <1>1, <1>3 DEF Within

WordsOf(nodes) == CHOOSE f : f = [n \in nodes |-> NodeWords(f, n)]

LEMMA OneReading ==
  ASSUME NEW U, Complete(U), NEW V, NEW C, Spelt(V, C), Range(program) \subseteq V
  PROVE  \A n \in Within(Len(tokens)) : WordsOf(Within(Len(tokens)))[n] = C[n]
<1> DEFINE nodes == Within(Len(tokens))
           f == WordsOf(nodes)
<1>1. nodes \subseteq V /\ \A n \in nodes : Step({n}) \subseteq nodes
  BY AllMade, AllNodes
<1>2. \A n \in nodes : Step({n}) = Parts(n) /\ C[n] = NodeWords(C, n)
  BY <1>1, SpeltBelow
<1>3. \E g : g = [n \in nodes |-> NodeWords(g, n)]
  <2> DEFINE g == [n \in nodes |-> C[n]]
  <2>1. \A n \in nodes : g[n] = C[n]
    OBVIOUS
  <2>2. g = [n \in nodes |-> g[n]]
    OBVIOUS
  <2> HIDE DEF g
  <2>3. ASSUME NEW n \in nodes PROVE g[n] = NodeWords(g, n)
    <3>1. \A m \in Parts(n) : C[m] = g[m]
      BY <1>1, <1>2, <2>1
    <3>2. NodeWords(C, n) = NodeWords(g, n)
      BY <3>1, NodeWordsSame
    <3> QED BY <1>2, <2>1, <3>2
  <2>4. g = [n \in nodes |-> NodeWords(g, n)]
    BY <2>2, <2>3
  <2> QED BY <2>4
<1>4. f = [n \in nodes |-> NodeWords(f, n)]
  BY <1>3 DEF WordsOf
<1> HIDE DEF f
<1> DEFINE G == {n \in nodes : f[n] = C[n]}
<1>5. ASSUME NEW n \in nodes, Step({n}) \subseteq G PROVE n \in G
  <2>1. \A m \in Parts(n) : f[m] = C[m]
    BY <1>2, <1>5
  <2>2. NodeWords(f, n) = NodeWords(C, n)
    BY <2>1, NodeWordsSame
  <2> QED BY <1>2, <1>4, <2>2
<1>6. nodes \subseteq G
  <2> HIDE DEF G
  <2> QED BY <1>5, FromBelow
<1> QED BY <1>6 DEF f

LEMMA NoneLost == IInv /\ TreeInv /\ DepthInv /\ WordsInv => NothingLost
<1> SUFFICES ASSUME IInv, TreeInv, DepthInv, WordsInv PROVE NothingLost
  OBVIOUS
<1>1. ASSUME phase = "done" PROVE Content(tokens) = ProgramWords(Within(Len(tokens)))
  <2> DEFINE nodes == Within(Len(tokens))
             words == WordsOf(nodes)
  <2>1. PICK U : Complete(U)
    BY <1>1, Completed
  <2>2. PICK V, C : /\ Spelt(V, C) /\ \A k \in 1..Len(program) : program[k] \in V
                    /\ Content(tokens)
                         = FlattenSeq([k \in 1..Len(program) |-> C[program[k]]]) \o Sign("T_EOF")
    BY <1>1, ProgramSays
  <2>3. DOMAIN program = 1..Len(program)
    BY <2>1 DEF Complete
  <2>4. Range(program) \subseteq V
    BY <2>2, <2>3 DEF Range
  <2>5. \A n \in nodes : words[n] = C[n]
    BY <2>1, <2>2, <2>4, OneReading
  <2>6. \A k \in DOMAIN program : program[k] \in nodes
    BY <2>1, AllNodes DEF Range
  <2>7. ProgramWords(nodes) = FlattenSeq([k \in DOMAIN program |-> words[program[k]]]) \o Sign("T_EOF")
    BY DEF ProgramWords, WordsOf
  <2> HIDE DEF words, nodes
  <2>8. [k \in DOMAIN program |-> words[program[k]]] = [k \in 1..Len(program) |-> C[program[k]]]
    BY <2>3, <2>5, <2>6
  <2> QED BY <2>2, <2>7, <2>8 DEF nodes
<1> QED BY <1>1, Bounded DEF NothingLost

(***************************************************************************)
(* Whatever list of tokens is given, the tree of an accepted one stands    *)
(* for all of it: no token but a parenthesis, a comma or a default type is *)
(* dropped, made up or moved, by any way through the recursive descent.    *)
(***************************************************************************)
THEOREM TreeSaysSource == Spec => []NothingLost
<1> QED BY Starts, Inductive, TreeStarts, TreeInductive, DepthStarts, DepthInductive, WordsStart,
           WordsInductive, NoneLost, PTL DEF Spec

-----------------------------------------------------------------------------
(* Printing the tree                                                       *)
(*                                                                         *)
(* How the printing of a node ends depends on those directly below it, so  *)
(* that, without what the generator refuses, every one ends normally.      *)

Each(ends) == AstPrinter!Each(ends)
All(ends, nodes) == AstPrinter!All(ends, nodes)

LEMMA EachOk == ASSUME NEW s, \A k \in DOMAIN s : s[k] = "ok" PROVE Each(s) = "ok"
BY DEF Each, AstPrinter!Each

LEMMA EachOfTwo == Each(<<"ok", "ok">>) = "ok" /\ Each(<<"ok", "ok", "ok">>) = "ok"
<1> DEFINE s == <<"ok", "ok">>
           t == <<"ok", "ok", "ok">>
<1>1. /\ \A k \in DOMAIN s : s[k] = "ok"
      /\ \A k \in DOMAIN t : t[k] = "ok"
  OBVIOUS
<1> HIDE DEF s, t
<1>2. Each(s) = "ok" /\ Each(t) = "ok"
  BY <1>1, EachOk
<1> QED BY <1>2 DEF s, t

LEMMA AllOk ==
  ASSUME NEW e, NEW s, \A m \in Range(s) : e[m] = "ok"
  PROVE  All(e, s) = "ok"
<1> DEFINE f == [k \in DOMAIN s |-> e[s[k]]]
<1>1. \A k \in DOMAIN f : f[k] = "ok"
  BY DEF Range
<1>2. All(e, s) = Each(f)
  BY DEF All, AstPrinter!All, Each
<1> HIDE DEF f
<1> QED BY <1>1, <1>2, EachOk

\* What is known of a node in a finished tree.
Sane(n, nodes) ==
  /\ ~Unsupported(n) /\ Proper(n) /\ Step({n}) = Parts(n) /\ Step({n}) \subseteq nodes
  /\ n.type \in expr_t \cup stmt_t \cup {"AST_FUNC_DECL"}
  /\ n.type = "AST_UNARY" => n.op \in unary_expr_t
  /\ n.type = "AST_VAR_DECL" => n.ident.type = "AST_IDENTIFIER"
  /\ n.type = "AST_CALL" => n.callee.type = "AST_IDENTIFIER"
  /\ n.type = "AST_FUNC_DECL" =>
       /\ n.func_t.ident.type = "AST_IDENTIFIER"
       /\ \A k \in DOMAIN n.func_t.params : n.func_t.params[k].ident.type = "AST_IDENTIFIER"
  /\ \A m \in nodes : ~Unsupported(m)

LEMMA AllSane ==
  ASSUME NEW U, Complete(U), NEW V, NEW C, Spelt(V, C), Range(program) \subseteq V,
         \A n \in Within(Len(tokens)) : ~Unsupported(n)
  PROVE  \A n \in Within(Len(tokens)) : Sane(n, Within(Len(tokens)))
<1> DEFINE nodes == Within(Len(tokens))
<1>1. nodes \subseteq U /\ nodes \subseteq V /\ \A n \in nodes : Step({n}) \subseteq nodes
  BY AllMade, AllNodes
<1> HIDE DEF nodes
<1>2. ASSUME NEW n \in nodes PROVE Sane(n, nodes)
  <2>1. n \in U /\ n \in V /\ Shape(U, Names)!WellFormed(n)
    BY <1>1 DEF Complete, Universe
  <2>2. Proper(n) /\ Step({n}) = Parts(n) /\ Step({n}) \subseteq nodes
    BY <1>1, <2>1, SpeltBelow DEF Spelt
  <2>3. n.type \in expr_t \cup stmt_t \cup {"AST_FUNC_DECL"}
    BY <2>1, Types DEF Shape!WellFormed
  <2>4. n.type = "AST_UNARY" => n.op \in unary_expr_t
    BY <2>1, Types DEF Shape!WellFormed
  <2>5. \A d \in Shape(U, Names)!Idents(n) : d.type = "AST_IDENTIFIER"
    BY <2>1 DEF Shape!WellFormed
  <2>6. n.type = "AST_VAR_DECL" => n.ident.type = "AST_IDENTIFIER"
    BY <2>5 DEF Shape!Idents
  <2>7. n.type = "AST_CALL" => n.callee.type = "AST_IDENTIFIER"
    BY <2>5 DEF Shape!Idents
  <2>8. n.type = "AST_FUNC_DECL" =>
          /\ n.func_t.ident.type = "AST_IDENTIFIER"
          /\ \A k \in DOMAIN n.func_t.params : n.func_t.params[k].ident.type = "AST_IDENTIFIER"
    BY <2>5 DEF Shape!Idents
  <2> QED BY <2>2, <2>3, <2>4, <2>6, <2>7, <2>8 DEF Sane, nodes
<1> QED BY <1>2 DEF nodes

LEMMA PrintExpr ==
  ASSUME NEW n, NEW nodes, Sane(n, nodes), NEW e, \A m \in Step({n}) : e[m] = "ok"
  PROVE  AstPrinter!print_binary_expr(e, n) = "ok"
<1> USE DEF AstPrinter!print_binary_expr
<1>1. CASE n.type = "AST_UNARY"
  <2>1. Parts(n) = {n.expr}
    BY <1>1, RangeOf DEF Parts, Below
  <2>2. e[n.expr] = "ok"
    BY <2>1 DEF Sane
  <2>3. n.op \in {"U_POS", "U_NEG", "U_NOT", "U_ADDR"}
    BY <1>1 DEF Sane, Unsupported, unary_expr_t
  <2>4. AstPrinter!get_unary_op(n.op) = "ok"
    BY <2>3 DEF AstPrinter!get_unary_op
  <2> QED BY <1>1, <2>2, <2>4, EachOfTwo DEF Each
<1>2. CASE n.type = "AST_CALL"
  <2>1. Parts(n) = Range(n.args)
    BY <1>2 DEF Parts, Below
  <2>2. All(e, n.args) = "ok"
    BY <2>1, AllOk DEF Sane
  <2>3. AstPrinter!get_ident(n.callee) = "ok"
    BY <1>2 DEF Sane, AstPrinter!get_ident
  <2> QED BY <1>2, <2>2, <2>3, EachOfTwo DEF Each, All
<1>3. CASE n.type \in {"AST_BINARY", "AST_CAST", "AST_INDEX"}
  <2>1. Parts(n) = Range(Below(n))
    BY <1>3 DEF Parts
  <2>2. All(e, Below(n)) = "ok"
    BY <2>1, AllOk DEF Sane
  <2>3. AstPrinter!Below(n) = Below(n)
    BY DEF AstPrinter!Below, Below
  <2> QED BY <1>3, <2>2, <2>3 DEF All
<1>4. CASE n.type \notin {"AST_UNARY", "AST_CALL", "AST_BINARY", "AST_CAST", "AST_INDEX"}
  BY <1>4
<1> QED BY <1>1, <1>2, <1>3, <1>4

LEMMA PrintVar ==
  ASSUME NEW n, NEW nodes, Sane(n, nodes), n.type = "AST_VAR_DECL",
         NEW e, \A m \in Step({n}) : e[m] = "ok"
  PROVE  AstPrinter!print_var_decl(e, n) = "ok"
<1>1. Parts(n) = {n.assign} \ {Null} /\ Null = AstPrinter!Null
  BY DEF Parts, Null, AstPrinter!Null
<1>2. n.assign # Null => e[n.assign] = "ok"
  BY <1>1 DEF Sane
<1>3. AstPrinter!get_ident(n.ident) = "ok"
  BY DEF Sane, AstPrinter!get_ident
<1>4. AstPrinter!print_var_decl(e, n) = Each(<<"ok", "ok">>)
  BY <1>1, <1>2, <1>3 DEF AstPrinter!print_var_decl, Each
<1> QED BY <1>4, EachOfTwo

LEMMA PrintStmt ==
  ASSUME NEW n, NEW nodes, Sane(n, nodes), NEW e, NEW s, e[n] = "ok",
         \A m \in Step({n}) : e[m] = "ok" /\ s[m] = "ok"
  PROVE  AstPrinter!print_stmt(e, s, n) = "ok"
<1> USE DEF AstPrinter!print_stmt
<1>1. CASE n.type = "AST_VAR_DECL"
  <2>1. AstPrinter!print_var_decl(e, n) = "ok"
    BY <1>1, PrintVar
  <2> QED BY <1>1, <2>1
<1>2. CASE n.type = "AST_BLOCK"
  <2>1. Parts(n) = Range(n.nodes)
    BY <1>2 DEF Parts, Below
  <2>2. All(s, n.nodes) = "ok"
    BY <2>1, AllOk DEF Sane
  <2> QED BY <1>2, <2>2 DEF All
<1>3. CASE n.type = "AST_IF"
  <2>1. Parts(n) = {n.cond, n.then_branch} \cup ({n.else_branch} \ {Null}) /\ Null = AstPrinter!Null
    BY <1>3 DEF Parts, Null, AstPrinter!Null
  <2>2. e[n.cond] = "ok" /\ s[n.then_branch] = "ok"
    BY <2>1 DEF Sane
  <2>3. n.else_branch # Null => s[n.else_branch] = "ok"
    BY <2>1 DEF Sane
  <2>4. AstPrinter!print_stmt(e, s, n) = Each(<<"ok", "ok", "ok">>)
    BY <1>3, <2>1, <2>2, <2>3 DEF Each
  <2> QED BY <2>4, EachOfTwo
<1>4. CASE n.type = "AST_RETURN"
  <2>1. Parts(n) = {n.return_val}
    BY <1>4, RangeOf DEF Parts, Below
  <2> QED BY <1>4, <2>1 DEF Sane
<1>5. CASE n.type = "AST_ASSIGN"
  <2>1. Parts(n) = {n.target, n.val}
    BY <1>5, RangeOf DEF Parts, Below
  <2>2. n.target \in nodes /\ e[n.val] = "ok" /\ assignable(n.target)
    BY <1>5, <2>1 DEF Sane, Proper
  <2>3. n.target.type = "AST_IDENTIFIER"
    BY <2>2 DEF Sane, Unsupported, assignable
  <2>4. AstPrinter!get_ident(n.target) = "ok"
    BY <2>3 DEF AstPrinter!get_ident
  <2> QED BY <1>5, <2>2, <2>4, EachOfTwo DEF Each
<1>6. CASE n.type \notin {"AST_VAR_DECL", "AST_BLOCK", "AST_IF", "AST_RETURN", "AST_ASSIGN"}
  BY <1>6
<1> QED BY <1>1, <1>2, <1>3, <1>4, <1>5, <1>6

LEMMA PrintFunc ==
  ASSUME NEW n, NEW nodes, Sane(n, nodes), n.type = "AST_FUNC_DECL",
         NEW s, \A m \in Step({n}) : s[m] = "ok"
  PROVE  AstPrinter!print_func_decl(s, n) = "ok"
<1> DEFINE ps == n.func_t.params
           f == [k \in DOMAIN ps |-> AstPrinter!get_ident(ps[k].ident)]
           all == <<"ok">> \o f \o <<"ok">>
<1>1. Parts(n) = {n.block}
  BY RangeOf DEF Parts, Below
<1>2. s[n.block] = "ok"
  BY <1>1 DEF Sane
<1>3. AstPrinter!get_ident(n.func_t.ident) = "ok" /\ \A k \in DOMAIN ps : f[k] = "ok"
  BY DEF Sane, AstPrinter!get_ident
<1>4. AstPrinter!print_func_decl(s, n) = Each(all)
  BY <1>2, <1>3 DEF AstPrinter!print_func_decl, Each
<1>5. IsSeq(ps)
  BY DEF Sane, Proper
<1>6. PICK l \in Nat : DOMAIN ps = 1..l
  BY <1>5 DEF IsSeq
<1>7. f \in Seq({"ok"})
  <2>1. f \in [1..l -> {"ok"}]
    BY <1>3, <1>6
  <2> QED BY <2>1, SeqDef
<1> HIDE DEF f
<1>8. <<"ok">> \in Seq({"ok"})
  OBVIOUS
<1>9. all \in Seq({"ok"})
  BY <1>7, <1>8
<1> HIDE DEF all
<1>10. \A k \in DOMAIN all : all[k] = "ok"
  BY <1>9
<1> QED BY <1>4, <1>10, EachOk

ExprEnds(nodes) == CHOOSE e : e = [n \in nodes |-> AstPrinter!print_binary_expr(e, n)]
StmtEnds(nodes, e) == CHOOSE s : s = [n \in nodes |-> AstPrinter!print_stmt(e, s, n)]

LEMMA EndsOk ==
  ASSUME NEW U, Complete(U), NEW nodes, nodes = Within(Len(tokens)), \A n \in nodes : Sane(n, nodes)
  PROVE  \A n \in nodes : ExprEnds(nodes)[n] = "ok" /\ StmtEnds(nodes, ExprEnds(nodes))[n] = "ok"
<1> DEFINE g == [n \in nodes |-> "ok"]
           e == ExprEnds(nodes)
           s == StmtEnds(nodes, e)
<1>1. \A n \in nodes : Step({n}) \subseteq nodes
  BY DEF Sane
<1>2. g = [n \in nodes |-> "ok"] /\ \A n \in nodes : g[n] = "ok"
  OBVIOUS
<1> HIDE DEF g
<1>3. e = [n \in nodes |-> AstPrinter!print_binary_expr(e, n)]
  <2>1. \A n \in nodes : AstPrinter!print_binary_expr(g, n) = "ok"
    BY <1>1, <1>2, PrintExpr
  <2>2. g = [n \in nodes |-> AstPrinter!print_binary_expr(g, n)]
    BY <1>2, <2>1
  <2> QED BY <2>2 DEF ExprEnds
<1> HIDE DEF e
<1> DEFINE G == {n \in nodes : e[n] = "ok"}
<1>4. nodes \subseteq G
  <2>1. ASSUME NEW n \in nodes, Step({n}) \subseteq G PROVE n \in G
    <3>1. AstPrinter!print_binary_expr(e, n) = "ok"
      BY <2>1, PrintExpr
    <3> QED BY <1>3, <3>1
  <2> HIDE DEF G
  <2> QED BY <2>1, FromBelow
<1>5. \A n \in nodes : e[n] = "ok"
  BY <1>4
<1>6. s = [n \in nodes |-> AstPrinter!print_stmt(e, s, n)]
  <2>1. \A n \in nodes : AstPrinter!print_stmt(e, g, n) = "ok"
    BY <1>1, <1>2, <1>5, PrintStmt
  <2>2. g = [n \in nodes |-> AstPrinter!print_stmt(e, g, n)]
    BY <1>2, <2>1
  <2> QED BY <2>2 DEF StmtEnds
<1> HIDE DEF s
<1> DEFINE H == {n \in nodes : s[n] = "ok"}
<1>7. nodes \subseteq H
  <2>1. ASSUME NEW n \in nodes, Step({n}) \subseteq H PROVE n \in H
    <3>1. AstPrinter!print_stmt(e, s, n) = "ok"
      BY <1>1, <1>5, <2>1, PrintStmt
    <3> QED BY <1>6, <3>1
  <2> HIDE DEF H
  <2> QED BY <2>1, FromBelow
<1> QED BY <1>5, <1>7 DEF e, s

\* How the printing of one declaration of the program ends.
TopEnds(n, e, s) ==
  CASE n.type = "AST_VAR_DECL"  -> AstPrinter!print_var_decl(e, n)
    [] n.type = "AST_FUNC_DECL" -> AstPrinter!print_func_decl(s, n)
    [] OTHER                    -> "ok"

LEMMA Prints == IInv /\ TreeInv /\ DepthInv /\ WordsInv => PrinterTakesNothing
<1> DEFINE nodes == Within(Len(tokens))
<1> SUFFICES ASSUME IInv, TreeInv, DepthInv, WordsInv, phase = "done", \A n \in nodes : ~Unsupported(n)
             PROVE  AstPrinter!print_ast(program, nodes) = "ok"
  BY DEF PrinterTakesNothing
<1>1. PICK U : Complete(U)
  BY Completed
<1>2. PICK V, C : Spelt(V, C) /\ \A k \in 1..Len(program) : program[k] \in V
  BY ProgramSays
<1>3. DOMAIN program = 1..Len(program)
  BY <1>1 DEF Complete
<1>4. Range(program) \subseteq V
  BY <1>2, <1>3 DEF Range
<1>5. \A k \in DOMAIN program : program[k] \in nodes
  BY <1>1, AllNodes DEF Range
<1>6. \A n \in nodes : Sane(n, nodes)
  BY <1>1, <1>2, <1>4, AllSane
<1> DEFINE e == ExprEnds(nodes)
           s == StmtEnds(nodes, e)
           f == [k \in DOMAIN program |-> TopEnds(program[k], e, s)]
<1>7. AstPrinter!print_ast(program, nodes) = Each(f)
  BY DEF AstPrinter!print_ast, Each, TopEnds, ExprEnds, StmtEnds
<1>8. \A n \in nodes : e[n] = "ok" /\ s[n] = "ok"
  BY <1>1, <1>6, EndsOk
<1> HIDE DEF e, s, nodes
<1>9. ASSUME NEW k \in DOMAIN program PROVE TopEnds(program[k], e, s) = "ok"
  <2>1. PICK n \in nodes : n = program[k] /\ Sane(n, nodes)
    BY <1>5, <1>6
  <2>2. \A m \in Step({n}) : e[m] = "ok" /\ s[m] = "ok"
    BY <1>8, <2>1 DEF Sane
  <2>3. n.type = "AST_VAR_DECL" => AstPrinter!print_var_decl(e, n) = "ok"
    BY <2>1, <2>2, PrintVar
  <2>4. n.type = "AST_FUNC_DECL" => AstPrinter!print_func_decl(s, n) = "ok"
    BY <2>1, <2>2, PrintFunc
  <2> QED BY <2>1, <2>3, <2>4 DEF TopEnds
<1>10. \A k \in DOMAIN f : f[k] = "ok"
  BY <1>9
<1> HIDE DEF f
<1> QED BY <1>7, <1>10, EachOk

(***************************************************************************)
(* Between the parser and the generator, main prints the tree: whatever    *)
(* program is accepted, that ends normally, unless there is an index, a ++ *)
(* or a -- in it.                                                          *)
(***************************************************************************)
THEOREM PrinterIsHarmless == Spec => []PrinterTakesNothing
<1> QED BY Starts, Inductive, TreeStarts, TreeInductive, DepthStarts, DepthInductive, WordsStart,
           WordsInductive, Prints, PTL DEF Spec
=============================================================================
