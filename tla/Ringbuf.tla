------------------------------- MODULE Ringbuf -------------------------------
(***************************************************************************)
(* libsrsbsns/ringbuf.c: a byte queue in a circular buffer that doubles    *)
(* when a put does not fit.  The pointers head and tail are offsets into   *)
(* buf; either may equal bufsz, one past the end, because a copy that ends *)
(* exactly at the end of the buffer leaves its cursor there.               *)
(***************************************************************************)
EXTENDS Naturals, Sequences

CONSTANTS
  Byte,        \* the bytes
  Junk,        \* the content of memory malloc() returned and nobody wrote
  InitSizes,   \* the sizes ringbuf_init() may be called with
  Chunks,      \* the byte sequences a caller may put
  Requests,    \* the lengths a caller may get or peek
  MaxFill      \* bound: no put is tried that would hold more bytes than this

ASSUME JunkAssumption == Junk \notin Byte
ASSUME SizesAssumption == InitSizes \subseteq Nat
ASSUME ChunksAssumption == Chunks \subseteq Seq(Byte)
ASSUME RequestsAssumption == Requests \subseteq Nat
ASSUME FillAssumption == MaxFill \in Nat

VARIABLES
  buf, bufsz,      \* the buffer and its size
  head, tail,      \* where the next byte goes, where the oldest one is
  num,             \* how many bytes are queued
  pc,              \* where ringbuf_put() is: "idle" when no call is running
  nbufsz,          \* ringbuf_put()'s candidate for the new size
  arg,             \* the data of the put that is running
  out              \* what the call before copied to its caller

ring == <<buf, bufsz, head, tail, num>>
vars == <<buf, bufsz, head, tail, num, pc, nbufsz, arg, out>>

Lesser(a, b) == IF a < b THEN a ELSE b

\* The queued bytes are in two pieces, the second one at the buffer's start.
WrappedUnlessMet == num > 0 /\ head < tail   \* mutant: misses head = tail
Wrapped == num > 0 /\ head <= tail

\* How many bytes can be read, or written, before the buffer's end is met.
AvailToGet == IF Wrapped THEN bufsz - tail ELSE head - tail
AvailToPut == IF Wrapped THEN tail - head ELSE bufsz - head

\* memory m after memcpy(m + off, data + from, len); sequences start at 1
Memcpy(m, off, data, from, len) ==
  [i \in DOMAIN m |->
     IF i \in off .. (off + len - 1) THEN data[from + i - off + 1] ELSE m[i]]

Malloc(n) == [i \in 0 .. (n - 1) |-> Junk]

Init ==
  /\ bufsz \in InitSizes
  /\ buf = Malloc(bufsz)
  /\ head = 0 /\ tail = 0 /\ num = 0
  /\ pc = "idle" /\ nbufsz = 0
  /\ arg = <<>> /\ out = <<>>

-----------------------------------------------------------------------------
(* ringbuf_put(): the test of line 116, the doubling loop of lines 118-120, *)
(* the move to the new buffer, and the copy of the caller's bytes.          *)

PutCall(data) ==
  /\ pc = "idle"
  /\ num + Len(data) <= MaxFill
  /\ arg' = data
  /\ out' = <<>>
  /\ IF Len(data) > bufsz - num
       THEN pc' = "size" /\ nbufsz' = bufsz
       ELSE pc' = "copy" /\ UNCHANGED nbufsz
  /\ UNCHANGED ring

TooSmallOrEqual == nbufsz - num <= Len(arg)   \* mutant: doubles once too often
TooSmall == nbufsz - num < Len(arg)

DoubleTheOld ==                               \* mutant: always twice the old
  /\ pc = "size"
  /\ TooSmall
  /\ nbufsz' = bufsz * 2
  /\ UNCHANGED <<ring, pc, arg, out>>

PutDouble ==
  /\ pc = "size"
  /\ TooSmall
  /\ nbufsz' = nbufsz * 2
  /\ UNCHANGED <<ring, pc, arg, out>>

\* The queued bytes, moved to the start of a buffer of n bytes.
Relocated(n) ==
  LET first == bufsz - tail
  IN  [i \in 0 .. (n - 1) |->
         IF ~Wrapped
           THEN IF i < head - tail THEN buf[tail + i] ELSE Junk
           ELSE IF i < first THEN buf[tail + i]
                ELSE IF i < first + head THEN buf[i - first] ELSE Junk]

PutGrow ==
  /\ pc = "size"
  /\ ~TooSmall
  /\ pc' = "copy"
  /\ buf' = Relocated(nbufsz)
  /\ head' = num
  /\ tail' = 0
  /\ bufsz' = nbufsz
  /\ UNCHANGED <<num, nbufsz, arg, out>>

PutCopy ==
  LET n == Len(arg)
      k == AvailToPut
  IN  /\ pc = "copy"
      /\ pc' = "idle"
      /\ IF k >= n
           THEN /\ buf' = Memcpy(buf, head, arg, 0, n)
                /\ head' = head + n
           ELSE /\ buf' = Memcpy(Memcpy(buf, head, arg, 0, k), 0, arg, k, n - k)
                /\ head' = n - k
      /\ num' = num + n
      /\ nbufsz' = 0
      /\ arg' = <<>>
      /\ UNCHANGED <<bufsz, tail, out>>

-----------------------------------------------------------------------------
(* do_get(), behind ringbuf_get() and ringbuf_peek(). *)

\* The k oldest bytes, read from tail to the buffer's end and on from its start.
Oldest(k) ==
  [i \in 1 .. k |-> IF i <= AvailToGet THEN buf[tail + i - 1]
                                       ELSE buf[i - 1 - AvailToGet]]

UnclampedGet(n, peek) ==           \* mutant: hands out more than it holds
  /\ pc = "idle"
  /\ out' = IF num = 0 THEN <<>> ELSE Oldest(Lesser(n, bufsz))
  /\ UNCHANGED <<ring, pc, nbufsz, arg>>

DoGet(n, peek) ==
  LET k == Lesser(n, num)
  IN  /\ pc = "idle"
      /\ out' = IF num = 0 THEN <<>> ELSE Oldest(k)
      /\ IF num = 0 \/ peek
           THEN UNCHANGED <<tail, num>>
           ELSE /\ tail' = IF AvailToGet >= k THEN tail + k ELSE k - AvailToGet
                /\ num' = num - k
      /\ UNCHANGED <<buf, bufsz, head, pc, nbufsz, arg>>

ClearCursorsOnly ==                \* mutant: forgets the count
  /\ pc = "idle"
  /\ head' = 0 /\ tail' = 0
  /\ out' = <<>>
  /\ UNCHANGED <<buf, bufsz, num, pc, nbufsz, arg>>

Clear ==
  /\ pc = "idle"
  /\ head' = 0 /\ tail' = 0 /\ num' = 0
  /\ out' = <<>>
  /\ UNCHANGED <<buf, bufsz, pc, nbufsz, arg>>

-----------------------------------------------------------------------------

Running == PutDouble \/ PutGrow \/ PutCopy

Next ==
  \/ \E data \in Chunks : PutCall(data)
  \/ Running
  \/ \E n \in Requests, peek \in BOOLEAN : DoGet(n, peek)
  \/ Clear

Spec == Init /\ [][Next]_vars

\* A thread inside ringbuf_put() keeps executing it; nobody has to call it.
FairSpec == Spec /\ WF_vars(Running)

-----------------------------------------------------------------------------
(* Properties *)

\* Every variable keeps its type; in particular what ringbuf_get() and
\* ringbuf_peek() copy out are bytes that were put, never unwritten memory.
TypeOK ==
  /\ bufsz \in Nat
  /\ buf \in [0 .. (bufsz - 1) -> Byte \cup {Junk}]
  /\ head \in 0 .. bufsz
  /\ tail \in 0 .. bufsz
  /\ num \in 0 .. bufsz
  /\ pc \in {"idle", "size", "copy"}
  /\ nbufsz \in Nat
  /\ arg \in Seq(Byte)
  /\ out \in Seq(Byte)

\* The cursors and the count agree: head is num bytes after tail, around the
\* end of the buffer when the content is wrapped.  ringbuf.c derives "wrapped"
\* from the cursors and the free space from the count, so a disagreement makes
\* one put overwrite what another one queued.
CursorsAgree ==
  /\ num = 0 => head = tail
  /\ (num > 0 /\ head > tail) => num = head - tail
  /\ (num > 0 /\ head <= tail) => num = bufsz - tail + head

\* The offset in buf of the i-th queued byte.
Slot(i) == IF tail + i - 1 < bufsz THEN tail + i - 1 ELSE tail + i - 1 - bufsz

Content == [i \in 1 .. num |-> buf[Slot(i)]]

Queue == INSTANCE ByteQueue WITH q <- Content, busy <- (pc # "idle")

\* The circular buffer is a FIFO queue: no sequence of puts, gets, peeks and
\* clears, through wrapping and growth, loses, repeats or reorders a byte.
ImplementsByteQueue == Queue!QSpec

\* ringbuf_put() enlarges the buffer only when it must, and to less than
\* twice the bytes it then has to hold.
GrowthIsTight ==
  [][bufsz' # bufsz => /\ bufsz < num + Len(arg)
                       /\ num + Len(arg) <= bufsz'
                       /\ bufsz' < 2 * (num + Len(arg))]_vars

\* The doubling loop of lines 119-120 ends and the put returns.  It does not
\* when the buffer was created with size 0: twice zero is never enough.
PutReturns == (pc # "idle" /\ bufsz > 0) ~> (pc = "idle")

=============================================================================
