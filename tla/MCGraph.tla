-------------------------------- MODULE MCGraph --------------------------------
(* A small instance of Graph: every graph of three nodes and three edges. *)
EXTENDS Graph
=============================================================================
