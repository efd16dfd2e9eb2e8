------------------------------- MODULE Commands --------------------------------
(***************************************************************************)
(* A program that reads lines from a pipe or socket (module IoStream) and  *)
(* splits lines into words (Splitquoted).  The two share nothing, so the   *)
(* lines it splits are those of Input, and it does so first.               *)
(***************************************************************************)
EXTENDS IoStream, Splitquoted

commandvars == <<vars, splitted>>

CommandsInit == Init /\ splitted = NoLine

SplitLine == Init /\ splitted = NoLine /\ SplitNext /\ UNCHANGED vars
WordsUsed == splitted # NoLine /\ splitted' = NoLine /\ UNCHANGED vars
Stream == splitted = NoLine /\ Next /\ UNCHANGED splitted

CommandsSpec == CommandsInit /\ [][SplitLine \/ WordsUsed \/ Stream]_commandvars

\* See FairSpec.
CommandsFairSpec ==
  /\ CommandsSpec
  /\ WF_commandvars(Writing /\ UNCHANGED splitted)
  /\ SF_commandvars(Reading /\ UNCHANGED splitted)
  /\ WF_commandvars(Served /\ UNCHANGED splitted)

=============================================================================
