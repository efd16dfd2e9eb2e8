------------------------------- MODULE MCBufrd -------------------------------
(* A small instance of Bufrd: a letter and the newline. *)
EXTENDS Bufrd

Bytes == {10, 97}
=============================================================================
