------------------------------- MODULE Lexer -------------------------------
(***************************************************************************)
(* What a tokenizer of this language promises: it takes the text apart     *)
(* from the left, each time reading the longest lexeme the text starts     *)
(* with, and skips blanks.  There are no files, positions or buffers here. *)
(***************************************************************************)
EXTENDS Characters, Integers, FiniteSetsExt

CONSTANT Texts

VARIABLES
  rest,   \* the text not read yet
  read,   \* the tokens read so far
  status  \* "reading", "done", or "refused" at a character no lexeme starts with

lexVars == <<rest, read, status>>

Lexeme(type, text) == [type |-> type, text |-> text]

Start(k) == SubSeq(rest, 1, IF k > Len(rest) THEN Len(rest) ELSE k)

\* The length of the longest prefix of s made of characters that are In.
Run(s, In(_)) == Max({k \in 0..Len(s) : \A j \in 1..k : In(s[j])})

After(k) == SubSeq(rest, k + 1, Len(rest))

\* The first k characters are a lexeme of the type, of which text is kept.
Take(k, type, text) ==
  /\ rest' = After(k)
  /\ read' = Append(read, Lexeme(type, text))
  /\ UNCHANGED status

Skip ==
  /\ rest # <<>> /\ rest[1] \in Blank \cup {Newline}
  /\ rest' = After(1)
  /\ UNCHANGED <<read, status>>

Symbol ==
  /\ rest # <<>> /\ rest[1] \in DOMAIN single
  /\ IF Start(2) \in DOMAIN double
     THEN double[Start(2)] # "T_COMMENT" /\ Take(2, double[Start(2)], Start(2))
     ELSE Take(1, single[rest[1]], Start(1))

Comment ==
  /\ Start(2) = <<"/", "/">>
  /\ LET text == Run(After(2), LAMBDA c : c # Newline)
     IN Take(2 + text, "T_COMMENT", SubSeq(rest, 3, 2 + text))

Word ==
  /\ rest # <<>> /\ isalpha(rest[1])
  /\ LET k == Run(rest, LAMBDA c : isalpha(c) \/ isdigit(c))
     IN Take(k, word_type(Start(k)), Start(k))

\* Digits with underscores in between, and a fraction if a digit follows the
\* point.
Number ==
  /\ rest # <<>> /\ isdigit(rest[1])
  /\ LET whole == Run(rest, LAMBDA c : isdigit(c) \/ c = "_")
         fraction == IF Len(rest) > whole /\ rest[whole + 1] = "."
                     THEN Run(After(whole + 1), isdigit) ELSE 0
         k == IF fraction = 0 THEN whole ELSE whole + 1 + fraction
     IN Take(k, "T_NUMBER_LIT", Start(k))

\* A string that is not closed is a token of its own, T_UNKNOWN.
String ==
  /\ rest # <<>> /\ rest[1] = Quote
  /\ LET inside == Run(After(1), LAMBDA c : c # Quote /\ c # NUL)
     IN IF Len(rest) > 1 + inside /\ rest[2 + inside] = Quote
        THEN Take(2 + inside, "T_STRING_LIT", SubSeq(rest, 2, 1 + inside))
        ELSE Take(1 + inside, "T_UNKNOWN", Start(1 + inside))

Starts == Letter \cup Digit \cup Blank \cup {Newline, Quote} \cup DOMAIN single

Refuse ==
  /\ rest # <<>> /\ rest[1] \notin Starts
  /\ status' = "refused"
  /\ UNCHANGED <<rest, read>>

Finish ==
  /\ rest = <<>>
  /\ status' = "done"
  /\ read' = Append(read, Lexeme("T_EOF", <<>>))
  /\ UNCHANGED rest

LexInit == rest \in Texts /\ read = <<>> /\ status = "reading"

LexNext ==
  /\ status = "reading"
  /\ Skip \/ Symbol \/ Comment \/ Word \/ Number \/ String \/ Refuse \/ Finish

LexSpec == LexInit /\ [][LexNext]_lexVars
=============================================================================
