------------------------ MODULE TokenizerProperties ------------------------
(***************************************************************************)
(* What the tokenizer must do: implement Lexer, keep its cursor, the       *)
(* file's position and the lines together, stay inside its buffers where   *)
(* the text allows it, and end.                                            *)
(***************************************************************************)
EXTENDS Tokenizer

\* What has been taken from the source: a token is, when it is in the list.
Consumed == IF phase \in {"scan", "done"} THEN at.cur_idx ELSE start_idx
Unread == SubSeq(source, Consumed + 1, filesize)

Texts == {SubSeq(s, 1, getFileCharCount(s)) : s \in Sources}

L == INSTANCE Lexer WITH
  rest <- Unread,
  read <- [k \in 1..list.length |->
             LET token == get_list(list, k - 1) IN [type |-> token.type, text |-> token.lexeme]],
  status <- CASE phase = "done" -> "done" [] phase = "exit" -> "refused" [] OTHER -> "reading"

(* The tokenizer implements the lexer: step by step the tokens in its list *)
(* are the longest lexemes of the text up to the first character that      *)
(* looks like EOF, with one EOF token at the end, whatever the look-ahead, *)
(* the seeking back and forth in getCurWord and the growing of the list    *)
(* did on the way.                                                         *)
LexerSpec == L!LexSpec

(* Between two calls cur is the character at cur_idx and the file stands   *)
(* just after it, although getCurWord moves the file and peekNext reads    *)
(* from it; every token starts at or before the cursor.                    *)
CursorsAgree ==
  phase # "fraction" =>
    /\ at.cur = CharAt(at.cur_idx)
    /\ at.pos = Beyond(at.cur_idx)
    /\ start_idx <= at.cur_idx

\* A comment has its line and its end, the cursor after it, exchanged.
LineOf(token) == IF token.type = "T_COMMENT" THEN token.col ELSE token.line
EndOf(token) == IF token.type = "T_COMMENT" THEN token.line ELSE token.col

\* The characters of a string's lexeme.
Hides(token) ==
  {j \in 1..Len(source) : /\ token.type \in {"T_STRING_LIT", "T_UNKNOWN"}
                          /\ token.col - Len(token.lexeme) < j /\ j <= token.col}
InStrings == UNION {Hides(get_list(list, k)) : k \in 0..list.length - 1}

Newlines(n) == Cardinality({j \in 1..n : source[j] = Newline} \ InStrings)

(* The line of a token is the number of newlines before its end, but for   *)
(* those inside strings, which the tokenizer does not count, neither for   *)
(* the string nor for what follows it.                                     *)
LinesTrue ==
  \A k \in 0..list.length - 1 :
    LET token == get_list(list, k)
    IN token.type # "T_EOF" => LineOf(token) = 1 + Newlines(EndOf(token))

(* Every lexeme in the list fits its buffer, NUL included, and lies in the *)
(* list's block of memory, however often the list has grown.               *)
LexemesFit ==
  /\ list.length <= list.capacity
  /\ \A k \in 0..list.length - 1 : Len(get_list(list, k).lexeme) < MAX_LEXEME

(* T_EOF ends the list that is returned and is nowhere else in a list: the *)
(* parser stops at it and does not look at the length.                     *)
EofEnds ==
  /\ phase = "done" => list.length > 0
  /\ \A k \in 0..list.length - 1 :
       get_list(list, k).type = "T_EOF" <=> phase = "done" /\ k = list.length - 1

(* Only a lexeme that does not fit makes the tokenizer write past one: a   *)
(* word, a number or a string of MAX_LEXEME characters, or a comment that  *)
(* has that many before its line ends, or whose line does not end.         *)
OverrunsExplained ==
  phase = "overrun" =>
    \/ L!Run(Unread, InWord) >= MAX_LEXEME
    \/ L!Run(Unread, InNumber) >= MAX_LEXEME
    \/ Unread[1] = Quote /\ 1 + L!Run(L!After(1), InString) >= MAX_LEXEME
    \/ /\ L!Start(2) = <<"/", "/">>
       /\ LET text == L!Run(L!After(2), LAMBDA c : c # Newline)
          IN text >= MAX_LEXEME \/ 2 + text = Len(Unread)

(* Reading the source ends, with the list, an exit or a write past a       *)
(* buffer, unless it gets to the fraction of a number.                     *)
Ends == <>(Halted \/ phase = "fraction")

(* "returns the list of tokens parsed in the source file": a number is     *)
(* read to its end.  With a fraction it is not: the loop in createNumber   *)
(* advances for ever without looking at the next character.                *)
NumbersRead == phase = "number" ~> phase \in {"scan", "overrun"}
=============================================================================
