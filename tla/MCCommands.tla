------------------------------ MODULE MCCommands -------------------------------
(* A small instance of Commands: every text of up to three bytes is written,  *)
(* every line of up to six characters of four kinds is split.                 *)
EXTENDS Commands

x == "x"
Nul == "nul"
Newline == "newline"
MCText == UNION {[1 .. k -> {x, Nul, Newline}] : k \in 0 .. 3}
MCLineTerm == {Nul, Newline}

MCQuote == {"'", "\""}
MCInput == UNION {[1 .. k -> MCQuote \cup {x, " "}] : k \in 0 .. 6}
=============================================================================
