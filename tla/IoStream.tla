------------------------------- MODULE IoStream --------------------------------
(***************************************************************************)
(* libsrsbsns/io.c: io_writeall(), io_vfprintf() and io_read_line(), used  *)
(* at the two ends of a pipe or socket.  One program writes, another reads *)
(* lines; each call of write() and read() is a step.                       *)
(***************************************************************************)
EXTENDS Integers, Sequences, SequencesExt

CONSTANTS
  Text,           \* what programs write: sequences of bytes
  LineTerm, NUL,  \* the bytes that end a line; NUL is one of them
  Garbage,        \* what is in a buffer before it is written
  Capacity,       \* how much the kernel keeps between the two
  MaxWriteBuf,    \* MAX_WRITEBUF
  DestSizes,      \* the sizes of the buffers lines are read to
  Width,          \* bits of a size_t; int is its lower part or all of it
  Calls           \* bound: how many calls write

ASSUME TermAssumption == NUL \in LineTerm
ASSUME TextAssumption == \A text \in Text : text \in Seq(Range(text))
ASSUME SizeAssumption == /\ Capacity \in Nat \ {0} /\ MaxWriteBuf \in Nat \ {0}
                         /\ Width \in Nat \ {0} /\ Calls \in Nat
                         /\ DestSizes \subseteq 1 .. 2 ^ Width - 1

VARIABLES
  pipe, open,              \* what is under way; whether more may come
  wpc, buf, wbc, n, wret,  \* the writer, io_vfprintf()'s r, what it returned
  out,                     \* history: what this call has written
  calls,                   \* how many calls of the writer were made
  rpc, dest, rbc, c, rret, \* the reader and what it returned
  line                     \* history: what this call has read

pipeVars == <<pipe, open>>
writer == <<wpc, buf, wbc, n, wret, out, calls>>
reader == <<rpc, dest, rbc, c, rret, line>>
vars == <<pipeVars, writer, reader>>

Init ==
  /\ pipe = <<>> /\ open = TRUE
  /\ wpc = "idle" /\ buf = <<>> /\ wbc = 0 /\ n = 0 /\ wret = 0
  /\ out = <<>> /\ calls = 0
  /\ rpc = "idle" /\ dest = <<Garbage>> /\ rbc = 0 /\ c = NUL /\ rret = 0
  /\ line = <<>>

-----------------------------------------------------------------------------
(* io_writeall(), alone and as the end of io_vfprintf() *)

Start(text, r) ==
  /\ wpc = "idle" /\ open
  /\ calls < Calls
  /\ calls' = calls + 1
  /\ wpc' = "writing" /\ buf' = text /\ wbc' = 0 /\ n' = r /\ out' = <<>>
  /\ UNCHANGED <<pipeVars, wret, reader>>

\* io_writeall() is a bool; TRUE is 1 here.
WriteAll(text) == Start(text, 1)

\* vsnprintf() leaves room for the NUL and returns the length of all of it.
Printed(text) ==
  IF Len(text) < MaxWriteBuf THEN text ELSE SubSeq(text, 1, MaxWriteBuf - 1)

Vfprintf(text) == ~Contains(text, NUL) /\ Start(Printed(text), Len(text))

RestAgain == buf                 \* mutant: starts from the front again
Rest == SubSeq(buf, wbc + 1, Len(buf))

PiecesWhole == {Len(Rest)}       \* mutant: waits until all of it fits
Pieces == 1 .. Len(Rest)

\* write() accepts k bytes of the rest; it waits while there is no room.
WriteSome(k) ==
  /\ wpc = "writing" /\ wbc < Len(buf)
  /\ k \in Pieces /\ Len(pipe) + k <= Capacity
  /\ pipe' = pipe \o SubSeq(Rest, 1, k)
  /\ out' = out \o SubSeq(Rest, 1, k)
  /\ wbc' = wbc + k
  /\ UNCHANGED <<open, wpc, buf, n, wret, calls, reader>>

\* An interrupted write() is an error like others.
WriteFails ==
  /\ wpc = "writing" /\ wbc < Len(buf)
  /\ wpc' = "idle" /\ wret' = -1
  /\ UNCHANGED <<pipeVars, buf, wbc, n, out, calls, reader>>

WriteReturns ==
  /\ wpc = "writing" /\ wbc >= Len(buf)
  /\ wpc' = "idle" /\ wret' = n
  /\ UNCHANGED <<pipeVars, buf, wbc, n, out, calls, reader>>

\* The writer closes its end, between two calls.
Close ==
  /\ open /\ wpc = "idle"
  /\ open' = FALSE
  /\ UNCHANGED <<pipe, writer, reader>>

-----------------------------------------------------------------------------
(* io_read_line(); dest[i] of the code is dest[i + 1] here *)

ReadLine(destSz) ==
  /\ rpc = "idle"
  /\ rpc' = "reading" /\ rbc' = 0 /\ c' = NUL /\ line' = <<>>
  /\ dest' = [i \in 1 .. destSz |-> Garbage]
  /\ UNCHANGED <<pipeVars, writer, rret>>

AsInt(size) == IF size >= 2 ^ (Width - 1) THEN size - 2 ^ Width ELSE size

ReturnedKeepNul(last, read) == read      \* mutant: counts the NUL, too
Returned(last, read) == IF last = NUL THEN (read - 1) % 2 ^ Width ELSE read

\* What follows the loop.
Finish(last, read, d) ==
  LET bc == Returned(last, read)
      at == IF bc >= Len(d) THEN Len(d) - 1 ELSE bc
  IN  rpc' = "idle" /\ rret' = AsInt(bc) /\ dest' = [d EXCEPT ![at + 1] = NUL]

ReadByte ==
  /\ rpc = "reading" /\ pipe # <<>>
  /\ pipe' = Tail(pipe) /\ c' = Head(pipe) /\ line' = Append(line, Head(pipe))
  /\ rbc' = rbc + 1
  /\ LET d == IF rbc < Len(dest) THEN [dest EXCEPT ![rbc + 1] = Head(pipe)] ELSE dest
     IN  IF Head(pipe) \in LineTerm THEN Finish(Head(pipe), rbc + 1, d)
                                    ELSE dest' = d /\ UNCHANGED <<rpc, rret>>
  /\ UNCHANGED <<open, writer>>

ReadEof ==
  /\ rpc = "reading" /\ pipe = <<>> /\ ~open
  /\ Finish(c, rbc, dest)
  /\ UNCHANGED <<pipeVars, writer, rbc, c, line>>

\* read() fails; the bytes of this line are dropped and not terminated.
ReadFails ==
  /\ rpc = "reading"
  /\ rpc' = "idle" /\ rret' = -1
  /\ UNCHANGED <<pipeVars, writer, dest, rbc, c, line>>

Writing == WriteReturns \/ \E k \in Pieces : WriteSome(k)
Reading == ReadByte \/ ReadEof
Served == \E destSz \in DestSizes : ReadLine(destSz)

Next ==
  \/ \E text \in Text : WriteAll(text) \/ Vfprintf(text)
  \/ Writing \/ WriteFails \/ Close
  \/ Served \/ Reading \/ ReadFails

Spec == Init /\ [][Next]_vars

\* A thread in io_writeall() or io_read_line() goes on when the kernel lets it,
\* the reading program asks for a next line, and not all its read()s fail.
FairSpec == Spec /\ WF_vars(Writing) /\ SF_vars(Reading) /\ WF_vars(Served)

-----------------------------------------------------------------------------
(* Properties *)

\* Every variable keeps its type: no buffer is left.
TypeOK ==
  /\ Len(pipe) <= Capacity /\ open \in BOOLEAN
  /\ wpc \in {"idle", "writing"} /\ wbc \in 0 .. Len(buf) /\ calls \in 0 .. Calls
  /\ rpc \in {"idle", "reading"} /\ Len(dest) \in DestSizes \cup {1}
  /\ rbc = Len(line) /\ rret \in Int

\* However write() cuts it up, io_writeall() has written a prefix of the
\* buffer, each byte once, and all of it when it reports success; so a program
\* that goes on after a failed call can only have lost the end of a text.
WritesInOrder ==
  /\ TypeOK
  /\ out = SubSeq(buf, 1, wbc)
  /\ (wpc = "idle" /\ calls > 0 /\ wret # -1) => out = buf

\* The bytes of the line without the NUL that ended it.
Content == IF line # <<>> /\ Last(line) = NUL THEN Front(line) ELSE line

\* io_read_line() leaves a string in the buffer, never more than fits: the
\* line, or its beginning, and then it returns a length that is not less than
\* the buffer's size.  It returns -1 with an empty line only at the end.
\* (A failing read() leaves the buffer as it is.)
LineOrBeginning ==
  [][rpc = "reading" /\ Reading /\ rpc' = "idle" =>
       IF line' = <<>> THEN rret' = -1 /\ dest'[Len(dest')] = NUL
       ELSE /\ rret' = Len(Content')
            /\ LET kept == IF rret' < Len(dest') THEN rret' ELSE Len(dest') - 1
               IN  SubSeq(dest', 1, kept + 1) = Append(SubSeq(Content', 1, kept), NUL)]_vars

\* A call of io_writeall() returns as long as the other side reads lines,
\* also when it writes more than the kernel keeps: the rest follows as room comes.
WriteAllReturns == (wpc = "writing") ~> (wpc = "idle")

=============================================================================
