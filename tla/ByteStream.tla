----------------------------- MODULE ByteStream ------------------------------
(***************************************************************************)
(* What include/libsrsbsns/bufrd.h promises: a stream of bytes that are    *)
(* delivered in order, once each, in pieces of any size, with one byte of  *)
(* pushback in front.                                                      *)
(***************************************************************************)
EXTENDS Naturals, Sequences

CONSTANT Byte

VARIABLES
  rest,      \* the bytes still to be delivered, wherever they are
  out        \* the bytes the last read delivered

svars == <<rest, out>>

SInit == rest = <<>> /\ out = <<>>

Arrive(b) == rest' = Append(rest, b) /\ UNCHANGED out

Take(k) ==
  /\ k \in 1 .. Len(rest)
  /\ out' = SubSeq(rest, 1, k)
  /\ rest' = SubSeq(rest, k + 1, Len(rest))

\* End of file, an error, or a request for nothing.
Fail == out' = <<>> /\ UNCHANGED rest

PushBack(b) == rest' = <<b>> \o rest /\ UNCHANGED out

SNext ==
  \/ \E b \in Byte : Arrive(b) \/ PushBack(b)
  \/ \E k \in 1 .. Len(rest) : Take(k)
  \/ Fail

SSpec == SInit /\ [][SNext]_svars

=============================================================================
