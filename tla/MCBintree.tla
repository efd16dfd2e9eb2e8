------------------------------ MODULE MCBintree ------------------------------
(* Small instances of Bintree: few keys. *)
EXTENDS Bintree
=============================================================================
