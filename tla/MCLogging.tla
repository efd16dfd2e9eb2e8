------------------------------ MODULE MCLogging --------------------------------
(* A small instance of Logging: two settings in the environment at most. *)
EXTENDS Logging

Token == [file : File \cup {Other}, lvl : Level \cup {Unset, NotANumber}]
MCEnvironment ==
  [tokens : UNION {[1 .. k -> Token] : k \in 0 .. 2}, syslog : BOOLEAN, fancy : BOOLEAN]
=============================================================================
