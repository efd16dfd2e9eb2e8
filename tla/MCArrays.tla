------------------------------- MODULE MCArrays -------------------------------
(* A small instance of Arrays; the heap has three ranks, so that elements may *)
(* be equal. *)
EXTENDS Arrays

Indices == 0 .. 3
=============================================================================
