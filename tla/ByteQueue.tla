------------------------------ MODULE ByteQueue ------------------------------
(***************************************************************************)
(* What include/libsrsbsns/ringbuf.h promises its callers: an unbounded    *)
(* first-in first-out queue of bytes.  A put is a call and a return, since *)
(* ringbuf_put() may spend any number of loop iterations enlarging its     *)
(* buffer in between; every other call is one step.                        *)
(***************************************************************************)
EXTENDS Naturals, Sequences

CONSTANTS
  Chunks,    \* the byte sequences a caller may put in one call
  Requests   \* the lengths a caller may ask for in one call

VARIABLES
  q,         \* the queued bytes, oldest first
  busy,      \* a put has been called and has not returned
  arg,       \* the bytes of that put
  out        \* the bytes the last call copied out

qvars == <<q, busy, arg, out>>

QInit ==
  /\ q = <<>>
  /\ busy = FALSE
  /\ arg = <<>>
  /\ out = <<>>

\* The part of the queue a request for n bytes obtains.
Obtained(n) == SubSeq(q, 1, IF n > Len(q) THEN Len(q) ELSE n)

CallPut(data) ==
  /\ ~busy
  /\ busy' = TRUE
  /\ arg' = data
  /\ out' = <<>>
  /\ UNCHANGED q

ReturnPut ==
  /\ busy
  /\ busy' = FALSE
  /\ q' = q \o arg
  /\ arg' = <<>>
  /\ UNCHANGED out

Get(n) ==
  /\ ~busy
  /\ out' = Obtained(n)
  /\ q' = SubSeq(q, Len(Obtained(n)) + 1, Len(q))
  /\ UNCHANGED <<busy, arg>>

Peek(n) ==
  /\ ~busy
  /\ out' = Obtained(n)
  /\ UNCHANGED <<q, busy, arg>>

Clear ==
  /\ ~busy
  /\ q' = <<>>
  /\ out' = <<>>
  /\ UNCHANGED <<busy, arg>>

QNext ==
  \/ \E data \in Chunks : CallPut(data)
  \/ ReturnPut
  \/ \E n \in Requests : Get(n) \/ Peek(n)
  \/ Clear

QSpec == QInit /\ [][QNext]_qvars

=============================================================================
