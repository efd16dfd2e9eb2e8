-------------------------------- MODULE Bufrd --------------------------------
(***************************************************************************)
(* libsrsbsns/bufrd.c: a buffered reader over a file descriptor, with one  *)
(* byte of pushback and an end-of-file flag.  Its ring buffer is the FIFO  *)
(* queue q that ByteQueue specifies and Ringbuf implements.                *)
(***************************************************************************)
EXTENDS Integers, Sequences

CONSTANTS
  Byte,        \* the bytes
  Newline,     \* the byte that ends a line
  ReadSize,    \* the size of read_more()'s buffer
  Requests,    \* the sizes bufrd_read() may be called with
  LineSizes,   \* the sizes of the buffers bufrd_getline() may be given
  MaxStream    \* bound: the bytes in the system at a time

ASSUME NewlineAssumption == Newline \in Byte
ASSUME ReadSizeAssumption == ReadSize \in Nat \ {0}
ASSUME RequestsAssumption == Requests \subseteq Nat
ASSUME LineSizesAssumption == LineSizes \subseteq Nat \ {0}

None == -1     \* the value of unget when nothing was pushed back

ASSUME NoneAssumption == None \notin Byte

VARIABLES
  wire,        \* what the descriptor has to read
  q,           \* the ring buffer
  unget, eof,
  out,         \* the bytes the last bufrd_read() or bufrd_getchar() delivered
  pc,          \* "line" while bufrd_getline() runs
  destsz,      \* bufrd_getline()'s remaining room
  dest,        \* the bytes bufrd_getline() has stored, without the final NUL
  line         \* the bytes it has consumed; their number is bc.  The caller
               \* is done with both when it makes its next call

reader == <<q, unget, eof>>
getline == <<pc, destsz, dest, line>>
vars == <<wire, q, unget, eof, out, pc, destsz, dest, line>>

Lesser(a, b) == IF a < b THEN a ELSE b

Pushed == IF unget = None THEN <<>> ELSE <<unget>>

\* bufrd_buffered()
Buffered == unget # None \/ q # <<>>

NoLine == destsz' = 0 /\ dest' = <<>> /\ line' = <<>>

Init ==
  /\ wire = <<>> /\ q = <<>>
  /\ unget = None /\ eof = FALSE
  /\ out = <<>>
  /\ pc = "idle" /\ destsz = 0 /\ dest = <<>> /\ line = <<>>

\* A byte reaches the descriptor.
Arrive(b) ==
  /\ Len(Pushed \o q \o wire) < MaxStream
  /\ pc = "line" => Len(line) + Len(q \o wire) < MaxStream
  /\ wire' = Append(wire, b)
  /\ UNCHANGED <<reader, out, getline>>

-----------------------------------------------------------------------------
(* read_more() and bufrd_read() *)

\* read() returns some of what there is, up to its buffer.
Received == 1 .. Lesser(ReadSize, Len(wire))

\* read_more() puts the first r bytes of the descriptor behind the queued ones.
QueuedOnly(r) == SubSeq(wire, 1, Lesser(1, r))   \* mutant: keeps one byte
QueuedAfter(r) == q \o SubSeq(wire, 1, r)

\* The pushed back byte and what ringbuf_get() adds to it from queue s.
Deliver(n, s) ==
  LET all == Pushed \o s
      k == Lesser(n, Len(all))
  IN  /\ out' = SubSeq(all, 1, k)
      /\ q' = SubSeq(s, k - Len(Pushed) + 1, Len(s))
      /\ unget' = None

ReadBuffered(n) == n > 0 /\ Buffered /\ Deliver(n, q) /\ UNCHANGED wire

ReadThrough(n) ==
  /\ n > 0 /\ ~Buffered
  /\ \E r \in Received : /\ Deliver(n, QueuedAfter(r))
                         /\ wire' = SubSeq(wire, r + 1, Len(wire))

\* read() returned 0; it may deliver again later, as a terminal or a growing
\* file does.
AtEOF(n) == n > 0 /\ ~Buffered /\ wire = <<>> /\ out' = <<>>

\* A request for nothing, or read() failed.
Failed(n) == (n = 0 \/ ~Buffered) /\ out' = <<>>

ReadStep(n) ==
  \/ ReadBuffered(n)
  \/ ReadThrough(n)
  \/ (AtEOF(n) \/ Failed(n)) /\ UNCHANGED <<wire, q, unget>>

Read(n) ==
  /\ pc = "idle"
  /\ ReadStep(n)
  /\ NoLine
  /\ UNCHANGED <<eof, pc>>

-----------------------------------------------------------------------------
(* bufrd_getchar(): a success leaves eof as it was. *)

EofAfter(r) == r = 0

GetCharStep ==
  \/ (ReadBuffered(1) \/ ReadThrough(1)) /\ UNCHANGED eof
  \/ AtEOF(1) /\ eof' = EofAfter(0) /\ UNCHANGED <<wire, q, unget>>
  \/ Failed(1) /\ eof' = EofAfter(-1) /\ UNCHANGED <<wire, q, unget>>

GetChar ==
  /\ pc = "idle"
  /\ GetCharStep
  /\ NoLine
  /\ UNCHANGED pc

\* Pushing back -1, what bufrd_getchar() returns at the end, succeeds and
\* pushes nothing back.
UngetChar(c) ==
  /\ pc = "idle"
  /\ Len(Pushed \o q \o wire) < MaxStream
  /\ unget' = IF unget = None THEN c ELSE unget
  /\ NoLine
  /\ UNCHANGED <<wire, q, eof, out, pc>>

\* bufrd_canread(): what is buffered needs no answer of the descriptor.
CanReadAsksOnlySelect == wire # <<>>   \* mutant: forgets what is buffered
CanRead == Buffered \/ wire # <<>>

-----------------------------------------------------------------------------
(* bufrd_getline(): one iteration is one call of bufrd_getchar(). *)

GetLineCall(sz) ==
  /\ pc = "idle"
  /\ pc' = "line" /\ destsz' = sz
  /\ dest' = <<>> /\ line' = <<>>
  /\ UNCHANGED <<wire, reader, out>>

\* The loop ends at a newline or when bufrd_getchar() has nothing.
FitsWithoutNUL == destsz > 0       \* mutant: no room kept for the final NUL
Fits == destsz > 1

EndsLine(c) == c = Newline

GetLineStep ==
  /\ pc = "line"
  /\ GetCharStep
  /\ IF out' = <<>>
       THEN pc' = "idle" /\ UNCHANGED <<destsz, dest, line>>
       ELSE /\ line' = line \o out'
            /\ IF Fits
                 THEN dest' = dest \o out' /\ destsz' = destsz - 1
                 ELSE UNCHANGED <<dest, destsz>>
            /\ pc' = IF EndsLine(out'[1]) THEN "idle" ELSE "line"

-----------------------------------------------------------------------------

Consuming ==
  \/ \E n \in Requests : Read(n)
  \/ GetChar
  \/ GetLineStep

Producing ==
  \/ \E b \in Byte : Arrive(b)
  \/ \E c \in Byte \cup {None} : UngetChar(c)

Next ==
  \/ Producing
  \/ Consuming
  \/ \E sz \in LineSizes : GetLineCall(sz)

Spec == Init /\ [][Next]_vars

\* The caller bufrd_canread() is made for: it reads whenever the answer is
\* yes, and its reads of a readable descriptor do not fail for ever.
ReadWhenReady == CanRead /\ Consuming /\ out' # <<>>

FairSpec == Spec /\ WF_vars(ReadWhenReady)

-----------------------------------------------------------------------------
(* Properties *)

\* Every variable keeps its type; one byte at most is pushed back.
TypeOK ==
  /\ wire \in Seq(Byte) /\ q \in Seq(Byte)
  /\ unget \in Byte \cup {None} /\ eof \in BOOLEAN
  /\ out \in Seq(Byte)
  /\ pc \in {"idle", "line"} /\ destsz \in Nat
  /\ dest \in Seq(Byte) /\ line \in Seq(Byte)

Stream == INSTANCE ByteStream WITH rest <- Pushed \o q \o wire

\* bufrd.c is an ordered stream with pushback: mixing reads of any size,
\* single characters, pushed back characters and lines, no byte is lost,
\* delivered twice or out of order.
ImplementsByteStream == Stream!SSpec

\* bufrd_getline() never reads past the end of a line, however long the line
\* is and however small the buffer.
LineStopsAtNewline ==
  /\ \A i \in 1 .. (Len(line) - 1) : line[i] # Newline
  /\ pc = "line" => \A i \in DOMAIN line : line[i] # Newline

\* bufrd_getline() stores a prefix of the line it consumes and of nothing
\* else, drops bytes only when the buffer is full, and keeps room for the
\* final NUL.
LineFits ==
  /\ TypeOK
  /\ LineStopsAtNewline
  /\ pc = "line" \/ line # <<>> =>
       /\ dest = SubSeq(line, 1, Len(dest))
       /\ destsz > 1 => dest = line
       /\ destsz > 0

\* A caller that reads whenever bufrd_canread() says so obtains everything,
\* the bytes read_more() has buffered included.
Drained == <>[][~Producing]_vars => <>[](Pushed \o q \o wire = <<>>)

=============================================================================
