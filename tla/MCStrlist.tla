------------------------------ MODULE MCStrlist --------------------------------
(* A small instance of Strlist. *)
EXTENDS Strlist

Renamings == Permutations(Elem)
Positions == 0 .. 3
=============================================================================
