------------------------------ MODULE MCDriver ------------------------------
(***************************************************************************)
(* Command lines for the driver: every one of up to three words, and the   *)
(* longer ones with both options.                                          *)
(***************************************************************************)
EXTENDS DriverProperties

Inputs == {<<"prog", ".", "av">>, <<".", ".", "/", "prog", ".", "av">>, <<".", ".", "/", "prog">>,
           <<"prog">>, <<"prog", ".", ".">>, <<"prog", ".", "s">>, AOut}
Vocabulary == Inputs \cup {<<option>> : option \in Options}

AllLines ==
  UNION {[1..n -> Vocabulary] : n \in 0..3}
  \cup UNION {{<<<<"-S">>, <<"-o">>, o, p>>, <<<<"-o">>, o, p, <<"-S">>>>, <<p, <<"-o">>, o, p>>} :
                <<o, p>> \in Inputs \X Inputs}
MCCommandLines == AllLines
=============================================================================
