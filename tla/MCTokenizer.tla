---------------------------- MODULE MCTokenizer ----------------------------
(***************************************************************************)
(* Sources for the tokenizer: all short texts over the characters that     *)
(* take part in longer lexemes, and longer texts of a few of them.         *)
(***************************************************************************)
EXTENDS TokenizerProperties

Chars == {"i", "f", "1", "_", ".", "/", "=", "-", "$", Quote, " ", Newline, NUL, EOF}
Few == {"i", "f", "1", Quote, "/", Newline}
Comments == {"/", "i", Newline}
Strings == {Quote, "i", Newline}

\* Keywords, and words that begin or end like one.
Keywords ==
  UNION {{w, w \o <<"1">>, <<"x">> \o w, w \o <<" ">> \o w, SubSeq(w, 1, Len(w) - 1)} : w \in DOMAIN keyword}

Symbols ==
  {<<a>> : a \in DOMAIN single} \cup {<<a, b>> : a, b \in DOMAIN single}
  \cup {<<a, b, c>> : a, b, c \in {"!", ">", "<", "=", "+", "-"}}

Strs(S, n) == [1..n -> S]

AllSources ==
  {<<>>} \cup Strs(Chars, 1) \cup Strs(Chars, 2) \cup Strs(Chars, 3) \cup Strs(Chars, 4)
  \cup Strs(Few, 4) \cup Strs(Few, 5) \cup Strs(Comments, 7) \cup Strs(Strings, 7)
  \cup Keywords \cup Symbols
  \cup Strs({"1", "."}, 5) \cup Strs({"i", "1"}, 6) \cup Strs({"1", "_", " "}, 6)
MCSources == AllSources

\* Numbers, with and without a fraction.
Decimals == Strs({"1", "."}, 3) \cup Strs({"1", "."}, 4) \cup Strs({"1", ".", " "}, 4)
MCDecimals == Decimals
=============================================================================
