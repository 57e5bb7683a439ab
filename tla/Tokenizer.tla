----------------------------- MODULE Tokenizer -----------------------------
(***************************************************************************)
(* The tokenizer (tokenizer.c): a cursor over the source file, one         *)
(* character of look-ahead, and a loop that scans one token after another  *)
(* into a growing list.  `phase` is the function that is reading: "scan"   *)
(* between two tokens, "word" in createIdentifer, "number" and "fraction"  *)
(* in the two loops of createNumber, "string" in createString, "comment"   *)
(* in createCommentToken.  A step reads one character or creates a token.  *)
(***************************************************************************)
EXTENDS Characters, ArrayList, FiniteSetsExt

CONSTANTS
  Sources,     \* the files to read: sequences of characters
  MAX_LEXEME,  \* the size of a lexeme's buffer
  Capacity,    \* the capacity the list of tokens is made with
  IdxBound     \* a bound on cur_idx: only the endless loop of createNumber,
               \* which does not look at it, gets there

VARIABLES
  source,     \* the contents of the file
  at,         \* the cursor: the file's position, cur and cur_idx
  start_idx,  \* where the token being read starts
  cur_line,
  list,       \* the list of tokens
  lexeme,     \* what createCommentToken has written to its token's lexeme
  phase       \* or "done", "exit" (exit(EXIT_FAILURE)), or "overrun": a
              \* write outside a buffer, whose effects are not modelled

vars == <<source, at, start_idx, cur_line, list, lexeme, phase>>

ASSUME BoundsAssumption ==
  /\ MAX_LEXEME \in Nat /\ MAX_LEXEME > 2
  /\ Capacity \in Nat /\ Capacity > 0
  /\ IdxBound \in Nat
  /\ \A s \in Sources : s \in Seq(STRING) /\ IdxBound > Len(s) + MAX_LEXEME + 1

-----------------------------------------------------------------------------
(* The file and the cursor *)

\* fgetc with the file's position at k.
CharAt(k) == IF k < Len(source) THEN source[k + 1] ELSE EOF

\* The driver counts characters up to the first that looks like EOF.
getFileCharCount(s) == Max({k \in 0..Len(s) : \A j \in 1..k : s[j] # EOF})
filesize == getFileCharCount(source)

Cursor(pos, cur, cur_idx) == [pos |-> pos, cur |-> cur, cur_idx |-> cur_idx]

Beyond(k) == IF k < Len(source) THEN k + 1 ELSE Len(source)

advance(c) == Cursor(Beyond(c.pos), CharAt(c.pos), (c.cur_idx + 1) % IdxBound)

\* Mutant: the end of the file is not looked for.
peek_cur(c) == c.cur
peek(c) == IF c.cur_idx >= filesize THEN NUL ELSE c.cur

peekNext(c) == IF c.cur_idx + 1 >= filesize THEN NUL ELSE CharAt(c.pos)

\* Mutant: a character that could double is always taken to.
match_any(c, char) == c.cur_idx < filesize
match(c, char) == c.cur_idx < filesize /\ c.cur = char

\* getCurWord reads from start_idx and seeks back to where it was.
\* Mutant: it stays after what it read.
SeekBack_not(c) == [c EXCEPT !.pos = c.cur_idx]
SeekBack(c) == c

Word(start, c) == SubSeq(source, start + 1, c.cur_idx)

\* Mutants: a lexeme that fits is refused; no room is left for the NUL at
\* the end.
Fits_all(start, c) == c.cur_idx - start <= MAX_LEXEME - 2
Fits_exact(start, c) == c.cur_idx - start <= MAX_LEXEME
Fits(start, c) == c.cur_idx - start < MAX_LEXEME

-----------------------------------------------------------------------------
(* Creating tokens *)

Token(type, text, line, col) == [type |-> type, lexeme |-> text, line |-> line, col |-> col]

Go(next) ==
  /\ phase' = next
  /\ UNCHANGED <<source, at, start_idx, cur_line, list, lexeme>>

Overrun == Go("overrun")

\* The loop in tokenize goes on after the token, from cursor c.
Add(token, c) ==
  /\ list' = add_list(list, token)
  /\ at' = c
  /\ phase' = "scan"
  /\ UNCHANGED <<source, start_idx, cur_line, lexeme>>

\* A token from `start` up to the cursor, which then moves to `next`.
createToken(type, start, next) ==
  \/ Fits(start, at) /\ Add(Token(type, Word(start, at), cur_line, at.cur_idx), next)
  \/ ~Fits(start, at) /\ Overrun

\* A loop reads the next character.
Advance ==
  /\ at' = advance(at)
  /\ UNCHANGED <<source, start_idx, cur_line, list, lexeme, phase>>

InWord(c) == isalpha(c) \/ isdigit(c)

createIdentifer ==
  /\ phase = "word"
  /\ \/ InWord(peek(at)) /\ Advance
     \/ ~InWord(peek(at)) /\ createToken(word_type(Word(start_idx, at)), start_idx, SeekBack(at))

InString(c) == c \notin {NUL, Quote}

createString ==
  /\ phase = "string"
  /\ \/ InString(peek(at)) /\ Advance
     \/ peek(at) = NUL /\ createToken("T_UNKNOWN", start_idx, SeekBack(at))
     \/ peek(at) = Quote /\ createToken("T_STRING_LIT", start_idx + 1, advance(SeekBack(at)))

InNumber(c) == isdigit(c) \/ c = "_"
Fraction == peek(at) = "." /\ isdigit(peekNext(at))

createNumber ==
  /\ phase = "number"
  /\ \/ InNumber(peek(at)) /\ Advance
     \/ /\ Fraction
        /\ at' = advance(at)
        /\ phase' = "fraction"
        /\ UNCHANGED <<source, start_idx, cur_line, list, lexeme>>
     \/ ~InNumber(peek(at)) /\ ~Fraction /\ createToken("T_NUMBER_LIT", start_idx, SeekBack(at))

\* The second loop tests the character it has read before, a digit.
createFraction == phase = "fraction" /\ Advance

\* The line and the column change places.
createCommentToken ==
  /\ phase = "comment"
  /\ \/ /\ Len(lexeme) < MAX_LEXEME /\ peek(at) # Newline
        /\ lexeme' = Append(lexeme, peek(at))
        /\ at' = advance(at)
        /\ UNCHANGED <<source, start_idx, cur_line, list, phase>>
     \/ /\ Len(lexeme) < MAX_LEXEME /\ peek(at) = Newline
        /\ Add(Token("T_COMMENT", lexeme, at.cur_idx, cur_line), at)
     \/ Len(lexeme) = MAX_LEXEME /\ Overrun

-----------------------------------------------------------------------------
(* scanToken *)

\* The cursor after the character c a token starts with.
Scanning == phase = "scan" /\ at.cur_idx < filesize
next == advance(at)

\* The second character that makes a longer token of this one.
Longer == {c \in DOMAIN single : <<at.cur, c>> \in DOMAIN double}
Doubled == \E c \in Longer : match(next, c)

AddSymbol(type, c) ==
  /\ list' = add_list(list, Token(type, Word(at.cur_idx, c), cur_line, c.cur_idx))
  /\ start_idx' = at.cur_idx
  /\ at' = SeekBack(c)
  /\ UNCHANGED <<source, cur_line, lexeme, phase>>

ScanSymbol ==
  /\ Scanning /\ at.cur \in DOMAIN single
  /\ \/ ~Doubled /\ AddSymbol(single[at.cur], next)
     \/ /\ at.cur # "/" /\ Doubled
        /\ \E c \in Longer : AddSymbol(double[<<at.cur, c>>], advance(next))

\* A longer token goes on in another function, from cursor c.
Enter(fn, c) ==
  /\ start_idx' = at.cur_idx
  /\ at' = c
  /\ lexeme' = <<>>
  /\ phase' = fn
  /\ UNCHANGED <<source, cur_line, list>>

ScanLonger ==
  /\ Scanning
  /\ \/ at.cur = "/" /\ Doubled /\ Enter("comment", advance(next))
     \/ at.cur = Quote /\ Enter("string", next)
     \/ isalpha(at.cur) /\ Enter("word", next)
     \/ isdigit(at.cur) /\ Enter("number", next)

\* Mutant: every blank counts as a line.
LinesIn_blank(c) == 1
LinesIn(c) == IF c = Newline THEN 1 ELSE 0

ScanBlank ==
  /\ Scanning /\ at.cur \in Blank \cup {Newline}
  /\ start_idx' = at.cur_idx
  /\ at' = next
  /\ cur_line' = cur_line + LinesIn(at.cur)
  /\ UNCHANGED <<source, list, lexeme, phase>>

Known == Letter \cup Digit \cup Blank \cup {Newline, Quote} \cup DOMAIN single

ScanUnknown ==
  /\ Scanning /\ at.cur \notin Known
  /\ start_idx' = at.cur_idx
  /\ at' = next
  /\ phase' = "exit"
  /\ UNCHANGED <<source, cur_line, list, lexeme>>

\* Mutant: the list is returned as the loop has left it.
Finish_bare ==
  /\ phase = "scan" /\ at.cur_idx >= filesize
  /\ phase' = "done"
  /\ UNCHANGED <<source, at, start_idx, cur_line, list, lexeme>>

Finish ==
  /\ phase = "scan" /\ at.cur_idx >= filesize
  /\ list' = add_list(list, Token("T_EOF", <<>>, -1, -1))
  /\ phase' = "done"
  /\ UNCHANGED <<source, at, start_idx, cur_line, lexeme>>

-----------------------------------------------------------------------------
Init ==
  /\ source \in Sources
  /\ at = Cursor(Beyond(0), CharAt(0), 0)
  /\ start_idx = 0
  /\ cur_line = 1
  /\ list = init_list(Capacity)
  /\ lexeme = <<>>
  /\ phase = "scan"

scanToken == ScanSymbol \/ ScanLonger \/ ScanBlank \/ ScanUnknown
create == createIdentifer \/ createString \/ createNumber \/ createFraction \/ createCommentToken

tokenize == scanToken \/ create \/ Finish

Halted == phase \in {"done", "exit", "overrun"}
Terminated == Halted /\ UNCHANGED vars

Next == tokenize \/ Terminated

Spec == Init /\ [][Next]_vars

\* One thread that waits for nothing.
FairSpec == Spec /\ WF_vars(tokenize)
=============================================================================
