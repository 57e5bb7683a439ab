----------------------------- MODULE Characters -----------------------------
(***************************************************************************)
(* Characters, and the lexemes the language is written with (scanToken and *)
(* initTokenMap in tokenizer.c).  A character is a string of length one,   *)
(* or a name: NUL, the blanks, and what the provers do not take in a       *)
(* string, quotes, brackets, the comma and the semicolon.  Characters that *)
(* <ctype.h> and scanToken's switch do not tell apart are left out.        *)
(***************************************************************************)
EXTENDS Sequences

Letter == {"a", "b", "c", "d", "e", "f", "g", "h", "i", "j", "k", "l", "m", "n", "o", "p", "q",
           "r", "s", "t", "u", "v", "w", "x", "y", "z", "B", "Y", "T", "E", "W", "O", "R", "D", "Q"}
Digit == {"0", "1", "2", "3", "4", "5", "6", "7", "8", "9"}
Newline == "newline"
Quote == "quote"
NUL == "NUL"
Blank == {" ", "tab", "return"}

\* fgetc at the end of the file gives EOF, which as a char is the byte 0xFF.
EOF == "0xFF"

isalpha(c) == c \in Letter
isdigit(c) == c \in Digit

\* The function from the first to the second parts of the entries.
Table(entries) == [k \in {e[1] : e \in entries} |-> (CHOOSE e \in entries : e[1] = k)[2]]

\* The tokens of one character, those a second one makes longer, and those
\* that are words.
singles ==
  {<<"lparen", "T_LEFT_PAREN">>, <<"rparen", "T_RIGHT_PAREN">>,
   <<"lbrace", "T_LEFT_BRACE">>, <<"rbrace", "T_RIGHT_BRACE">>,
   <<"lbracket", "T_LEFT_BRACKET">>, <<"rbracket", "T_RIGHT_BRACKET">>, <<"comma", "T_COMMA">>, <<".", "T_DOT">>,
   <<"*", "T_STAR">>, <<":", "T_COLON">>, <<"&", "T_AND">>, <<"semicolon", "T_SEMICOLON">>,
   <<"-", "T_MINUS">>, <<"+", "T_PLUS">>, <<"/", "T_DIVIDE">>, <<"!", "T_NOT">>,
   <<">", "T_GREATER">>, <<"<", "T_LESS">>, <<"=", "T_EQUAL">>}

doubles ==
  {<<<<"-", "-">>, "T_MINUS_MINUS">>, <<<<"+", "+">>, "T_PLUS_PLUS">>, <<<<"/", "/">>, "T_COMMENT">>,
   <<<<"!", "=">>, "T_NOT_EQUAL">>, <<<<">", "=">>, "T_GREATER_EQUAL">>,
   <<<<"<", "=">>, "T_LESS_EQUAL">>, <<<<"=", "=">>, "T_EQUAL_EQUAL">>}

keywords ==
  {<<<<"c", "a", "l", "l">>, "T_CALL">>, <<<<"l", "e", "t">>, "T_LET">>, <<<<"i", "f">>, "T_IF">>,
   <<<<"B", "Y", "T", "E">>, "T_BYTE">>, <<<<"W", "O", "R", "D">>, "T_WORD">>,
   <<<<"D", "W", "O", "R", "D">>, "T_DWORD">>, <<<<"Q", "W", "O", "R", "D">>, "T_QWORD">>,
   <<<<"r", "e", "t", "u", "r", "n">>, "T_RETURN">>, <<<<"e", "l", "s", "e">>, "T_ELSE">>,
   <<<<"f", "n">>, "T_FUNC">>}

single == Table(singles)
double == Table(doubles)
keyword == Table(keywords)

\* The type of a word: get_ht of the token map, or an identifier.
word_type(word) == IF word \in DOMAIN keyword THEN keyword[word] ELSE "T_IDENTIFIER"
=============================================================================
