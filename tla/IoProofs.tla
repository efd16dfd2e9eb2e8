------------------------------- MODULE IoProofs -------------------------------
(***************************************************************************)
(* Proofs about IoStream and about Logging, which share nothing.  First,   *)
(* for every set of texts, capacity of the pipe and sizes of the buffers:  *)
(* io_writeall() writes a prefix of its buffer and all of it when it says  *)
(* so; io_read_line() returns lines, as long as the length of what is      *)
(* written fits an int.  Then what a program sees of its logger, for every *)
(* environment, every set of levels, files and idents, and how the library *)
(* heeds the environment.                                                  *)
(***************************************************************************)
EXTENDS IoStream, Logging, SequenceTheorems, FiniteSetTheorems, WellFoundedInduction, TLAPS

Byte == UNION {Range(text) : text \in Text}
Cell == Byte \cup {Garbage, NUL}

Typed ==
  /\ pipe \in Seq(Byte) /\ buf \in Seq(Byte) /\ out \in Seq(Byte) /\ line \in Seq(Byte)
  /\ dest \in Seq(Cell) /\ Len(dest) \in 1 .. 2 ^ Width - 1
  /\ wbc \in 0 .. Len(buf) /\ rbc = Len(line)
  /\ n \in Int /\ wret \in Int /\ calls \in 0 .. Calls

\* io_vfprintf() returns what vsnprintf() did, which is never -1.
Writer ==
  /\ out = SubSeq(buf, 1, wbc)
  /\ wpc = "writing" => n # -1 /\ calls > 0
  /\ (wpc = "idle" /\ calls > 0 /\ wret # -1) => out = buf

\* The line has not ended, c is its last byte, and the buffer holds what of it
\* fits.
Reader ==
  rpc = "reading" =>
    /\ \A i \in 1 .. Len(line) : line[i] \notin LineTerm
    /\ line = <<>> => c = NUL
    /\ line # <<>> => c # NUL
    /\ \A i \in 1 .. Len(line) : i <= Len(dest) => dest[i] = line[i]

IInv == TypeOK /\ Typed /\ Writer /\ Reader

USE TermAssumption

-----------------------------------------------------------------------------
(* Powers of two *)

LEMMA PowerOfTwo ==
  ASSUME NEW k \in Nat
  PROVE  2 ^ k = Cardinality(SUBSET (1 .. k)) /\ IsFiniteSet(SUBSET (1 .. k))
<1>1. IsFiniteSet(1 .. k) /\ Cardinality(1 .. k) = k
  BY FS_Interval
<1> QED BY <1>1, FS_SUBSET

LEMMA Doubles ==
  ASSUME NEW k \in Nat
  PROVE  2 ^ k \in Nat \ {0} /\ 2 ^ (k + 1) = 2 * 2 ^ k
<1> DEFINE S == SUBSET (1 .. k)
           T == SUBSET (1 .. k + 1)
           More == {s \cup {k + 1} : s \in S}
<1>1. /\ 2 ^ k = Cardinality(S) /\ IsFiniteSet(S)
      /\ 2 ^ (k + 1) = Cardinality(T) /\ IsFiniteSet(T)
  <2>1. k + 1 \in Nat
    OBVIOUS
  <2> QED BY <2>1, PowerOfTwo
<1>2. T = S \cup More
  <2>1. ASSUME NEW t \in T PROVE t \in S \cup More
    <3>1. CASE k + 1 \in t
      <4>1. t \ {k + 1} \in S /\ t = (t \ {k + 1}) \cup {k + 1}
        BY <3>1
      <4> QED BY <4>1
    <3>2. CASE k + 1 \notin t
      <4>1. t \in S
        BY <3>2
      <4> QED BY <4>1
    <3> QED BY <3>1, <3>2
  <2>2. S \subseteq T /\ More \subseteq T
    <3>1. 1 .. k \subseteq 1 .. k + 1 /\ k + 1 \in 1 .. k + 1
      OBVIOUS
    <3> QED BY <3>1
  <2> QED BY <2>1, <2>2
<1>3. S \cap More = {}
  <2>1. \A s \in S : k + 1 \notin s
    OBVIOUS
  <2>2. \A s \in More : k + 1 \in s
    OBVIOUS
  <2> QED BY <2>1, <2>2
<1>4. IsFiniteSet(More) /\ Cardinality(More) = Cardinality(S)
  <2> DEFINE f == [s \in S |-> s \cup {k + 1}]
  <2>1. f \in [S -> More] /\ \A w \in More : \E s \in S : f[s] = w
    OBVIOUS
  <2>2. ASSUME NEW s \in S, NEW t \in S, f[s] = f[t] PROVE s = t
    <3>1. s \cup {k + 1} = t \cup {k + 1} /\ k + 1 \notin s /\ k + 1 \notin t
      BY <2>2
    <3> QED BY <3>1
  <2>3. f \in Bijection(S, More)
    <3>1. f \in Injection(S, More)
      BY <2>1, <2>2 DEF Injection, IsInjective
    <3>2. f \in Surjection(S, More)
      BY <2>1 DEF Surjection
    <3> QED BY <3>1, <3>2 DEF Bijection
  <2>4. ExistsBijection(S, More)
    BY <2>3 DEF ExistsBijection
  <2> HIDE DEF S, More
  <2> QED BY <1>1, <2>4, FS_Bijection
<1>5. {} \in S
  OBVIOUS
<1> HIDE DEF S, T, More
<1>6. Cardinality(S) \in Nat \ {0}
  BY <1>1, <1>5, FS_CardinalityType, FS_EmptySet
<1>7. Cardinality(T) = Cardinality(S) + Cardinality(More) - Cardinality({})
  BY <1>1, <1>2, <1>3, <1>4, FS_Union
<1> QED BY <1>1, <1>4, <1>6, <1>7, FS_EmptySet

LEMMA SizeBeyondInt ==
  /\ 2 ^ (Width - 1) \in Nat \ {0} /\ 2 ^ Width \in Nat \ {0}
  /\ 2 ^ Width = 2 * 2 ^ (Width - 1)
<1>1. Width - 1 \in Nat /\ (Width - 1) + 1 = Width
  BY SizeAssumption
<1>2. 2 ^ (Width - 1) \in Nat \ {0} /\ 2 ^ ((Width - 1) + 1) = 2 * 2 ^ (Width - 1)
  BY <1>1, Doubles
<1> QED BY <1>1, <1>2

LEMMA AsIntIsInt ==
  ASSUME NEW size \in Nat
  PROVE  AsInt(size) \in Int
BY SizeBeyondInt DEF AsInt

LEMMA ReturnedIsSize ==
  ASSUME NEW last, NEW read \in Nat
  PROVE  Returned(last, read) \in Nat
<1>1. \A a \in Int, w \in Nat \ {0} : a % w \in Nat
  OBVIOUS
<1>2. read - 1 \in Int
  OBVIOUS
<1>3. (read - 1) % 2 ^ Width \in Nat
  BY <1>1, <1>2, SizeBeyondInt
<1> QED BY <1>3 DEF Returned

-----------------------------------------------------------------------------
(* Texts and their pieces *)

LEMMA TextIsBytes ==
  ASSUME NEW text \in Text
  PROVE  text \in Seq(Byte)
<1>1. text \in Seq(Range(text)) /\ Range(text) \subseteq Byte
  BY TextAssumption DEF Byte
<1> QED BY <1>1, SeqMonotonic

LEMMA PrefixIs ==
  ASSUME NEW S, NEW s \in Seq(S), NEW k \in 0 .. Len(s)
  PROVE  /\ SubSeq(s, 1, k) \in Seq(S) /\ Len(SubSeq(s, 1, k)) = k
         /\ \A i \in 1 .. k : SubSeq(s, 1, k)[i] = s[i]
<1>1. Len(s) \in Nat /\ \A i \in 1 .. Len(s) : s[i] \in S
  BY LenProperties, ElementOfSeq
<1>2. 1 \in Int /\ k \in Int /\ \A i \in 1 .. k : s[i] \in S
  BY <1>1
<1>3. /\ SubSeq(s, 1, k) \in Seq(S)
      /\ Len(SubSeq(s, 1, k)) = IF 1 <= k THEN k - 1 + 1 ELSE 0
      /\ \A i \in 1 .. k - 1 + 1 : SubSeq(s, 1, k)[i] = s[1 + i - 1]
  BY <1>2, SubSeqProperties
<1>4. k - 1 + 1 = k /\ \A i \in 1 .. k : 1 + i - 1 = i
  OBVIOUS
<1>5. (IF 1 <= k THEN k - 1 + 1 ELSE 0) = k
  BY <1>1
<1> QED BY <1>3, <1>4, <1>5

LEMMA PrintedIs ==
  ASSUME NEW text \in Text
  PROVE  /\ Printed(text) \in Seq(Byte) /\ Len(Printed(text)) <= Len(text)
         /\ Len(text) \in Nat
<1>1. text \in Seq(Byte) /\ Len(text) \in Nat
  BY TextIsBytes, LenProperties
<1>2. CASE Len(text) < MaxWriteBuf
  BY <1>1, <1>2 DEF Printed
<1>3. CASE ~(Len(text) < MaxWriteBuf)
  <2>1. MaxWriteBuf - 1 \in 0 .. Len(text) /\ Printed(text) = SubSeq(text, 1, MaxWriteBuf - 1)
    BY <1>1, <1>3, SizeAssumption DEF Printed
  <2>2. /\ SubSeq(text, 1, MaxWriteBuf - 1) \in Seq(Byte)
        /\ Len(SubSeq(text, 1, MaxWriteBuf - 1)) = MaxWriteBuf - 1
    BY <1>1, <2>1, PrefixIs
  <2> QED BY <1>1, <2>1, <2>2
<1> QED BY <1>2, <1>3

\* What write() accepts continues what it accepted before.
LEMMA PieceFollows ==
  ASSUME NEW s \in Seq(Byte), NEW w \in 0 .. Len(s), NEW k \in 1 .. Len(s) - w
  PROVE  LET rest == SubSeq(s, w + 1, Len(s))
         IN  /\ SubSeq(rest, 1, k) \in Seq(Byte) /\ Len(SubSeq(rest, 1, k)) = k
             /\ SubSeq(s, 1, w) \o SubSeq(rest, 1, k) = SubSeq(s, 1, w + k)
<1> DEFINE rest == SubSeq(s, w + 1, Len(s))
<1>1. Len(s) \in Nat /\ w \in Nat /\ k \in Nat /\ w + k <= Len(s)
  BY LenProperties
<1>2. /\ w + 1 \in 1 .. Len(s) /\ Len(s) \in 1 .. Len(s)
      /\ 1 \in 1 .. Len(s) - (w + 1) + 1 /\ k \in 1 .. Len(s) - (w + 1) + 1
  BY <1>1
<1>3. SubSeq(rest, 1, k) = SubSeq(s, w + 1 + 1 - 1, w + 1 + k - 1)
  BY <1>2, SubSeqOfSubSeq
<1>4. SubSeq(rest, 1, k) = SubSeq(s, w + 1, w + k)
  <2>1. w + 1 + 1 - 1 = w + 1 /\ w + 1 + k - 1 = w + k
    BY <1>1
  <2> QED BY <1>3, <2>1
<1>5. /\ 1 \in 1 .. Len(s) + 1 /\ w \in 1 - 1 .. Len(s) /\ w + k \in w .. Len(s)
  BY <1>1
<1>6. SubSeq(s, 1, w) \o SubSeq(s, w + 1, w + k) = SubSeq(s, 1, w + k)
  BY <1>5, ConcatAdjacentSubSeq
<1>7. \A i \in w + 1 .. w + k : s[i] \in Byte
  <2>1. \A i \in w + 1 .. w + k : i \in 1 .. Len(s)
    BY <1>1
  <2> QED BY <2>1, ElementOfSeq
<1>8. w + 1 \in Int /\ w + k \in Int /\ w + 1 <= w + k /\ w + k - (w + 1) + 1 = k
  BY <1>1
<1>9. SubSeq(s, w + 1, w + k) \in Seq(Byte) /\ Len(SubSeq(s, w + 1, w + k)) = k
  BY <1>7, <1>8, SubSeqProperties
<1> QED BY <1>4, <1>6, <1>9

-----------------------------------------------------------------------------
(* The invariant is inductive *)

LEMMA InitIInv == Init => IInv
<1> SUFFICES ASSUME Init PROVE IInv
  OBVIOUS
<1>1. /\ pipe = <<>> /\ open = TRUE /\ wpc = "idle" /\ buf = <<>> /\ wbc = 0 /\ n = 0
      /\ wret = 0 /\ out = <<>> /\ calls = 0 /\ rpc = "idle" /\ dest = <<Garbage>>
      /\ rbc = 0 /\ rret = 0 /\ line = <<>>
  BY DEF Init
<1>2. <<>> \in Seq(Byte) /\ Len(<<>>) = 0
  BY EmptySeq
<1>3. <<Garbage>> \in Seq(Cell) /\ Len(<<Garbage>>) = 1
  BY DEF Cell
<1>4. 1 \in 1 .. 2 ^ Width - 1
  <2>1. 2 ^ (Width - 1) >= 1 /\ 2 ^ Width = 2 * 2 ^ (Width - 1) /\ 2 ^ (Width - 1) \in Nat
    BY SizeBeyondInt
  <2> QED BY <2>1
<1>5. SubSeq(<<>>, 1, 0) = <<>>
  BY SubSeqEmpty
<1>6. TypeOK
  BY <1>1, <1>2, <1>3, SizeAssumption DEF TypeOK
<1>7. Typed
  BY <1>1, <1>2, <1>3, <1>4, SizeAssumption DEF Typed
<1>8. Writer /\ Reader
  BY <1>1, <1>5 DEF Writer, Reader
<1> QED BY <1>6, <1>7, <1>8 DEF IInv

LEMMA StartKeeps ==
  ASSUME IInv, NEW text \in Seq(Byte), NEW r \in Int, r # -1, Start(text, r)
  PROVE  IInv'
<1>1. /\ wpc' = "writing" /\ buf' = text /\ wbc' = 0 /\ n' = r /\ out' = <<>>
      /\ calls' = calls + 1 /\ calls < Calls
      /\ UNCHANGED <<pipe, open, wret, rpc, dest, rbc, c, rret, line>>
  BY DEF Start, pipeVars, reader
<1>2. <<>> \in Seq(Byte) /\ SubSeq(text, 1, 0) = <<>> /\ Len(text) \in Nat
  BY EmptySeq, SubSeqEmpty, LenProperties
<1>3. calls' \in 0 .. Calls /\ calls' > 0
  BY <1>1, SizeAssumption DEF IInv, Typed
<1>4. TypeOK'
  BY <1>1, <1>2, <1>3 DEF IInv, TypeOK
<1>5. Typed'
  BY <1>1, <1>2, <1>3 DEF IInv, Typed
<1>6. Writer'
  BY <1>1, <1>2, <1>3 DEF Writer
<1>7. Reader'
  BY <1>1 DEF IInv, Reader
<1> QED BY <1>4, <1>5, <1>6, <1>7 DEF IInv

LEMMA WriteSomeKeeps ==
  ASSUME IInv, NEW k \in Pieces, WriteSome(k)
  PROVE  IInv'
<1> DEFINE piece == SubSeq(Rest, 1, k)
<1>1. /\ wpc = "writing" /\ wbc < Len(buf) /\ Len(pipe) + k <= Capacity
      /\ pipe' = pipe \o piece /\ out' = out \o piece /\ wbc' = wbc + k
      /\ UNCHANGED <<open, wpc, buf, n, wret, calls, rpc, dest, rbc, c, rret, line>>
  BY DEF WriteSome, reader
<1>2. /\ buf \in Seq(Byte) /\ Len(buf) \in Nat /\ wbc \in 0 .. Len(buf)
      /\ pipe \in Seq(Byte) /\ Len(pipe) \in Nat /\ out = SubSeq(buf, 1, wbc)
  BY LenProperties DEF IInv, Typed, Writer
<1>3. k \in 1 .. Len(buf) - wbc
  <2>1. k \in 1 .. Len(Rest)
    BY DEF Pieces
  <2>2. wbc + 1 \in Int /\ Len(buf) \in Int /\ \A i \in wbc + 1 .. Len(buf) : i \in 1 .. Len(buf)
    BY <1>2
  <2>3. \A i \in wbc + 1 .. Len(buf) : buf[i] \in Byte
    BY <1>2, <2>2, ElementOfSeq
  <2>4. Len(Rest) = IF wbc + 1 <= Len(buf) THEN Len(buf) - (wbc + 1) + 1 ELSE 0
    BY <2>2, <2>3, SubSeqProperties DEF Rest
  <2>5. Len(Rest) = Len(buf) - wbc
    BY <1>1, <1>2, <2>4
  <2> QED BY <2>1, <2>5
<1>4. /\ piece \in Seq(Byte) /\ Len(piece) = k
      /\ SubSeq(buf, 1, wbc) \o piece = SubSeq(buf, 1, wbc + k)
  BY <1>2, <1>3, PieceFollows DEF Rest
<1> HIDE DEF piece
<1>5. pipe \o piece \in Seq(Byte) /\ Len(pipe \o piece) = Len(pipe) + k
  BY <1>2, <1>4, ConcatProperties
<1>6. wbc + k \in 0 .. Len(buf)
  BY <1>2, <1>3
<1>7. TypeOK'
  BY <1>1, <1>2, <1>5, <1>6 DEF IInv, TypeOK
<1>8. out' = SubSeq(buf, 1, wbc + k) /\ out' \in Seq(Byte)
  BY <1>1, <1>2, <1>4, <1>6, PrefixIs
<1>9. Typed'
  BY <1>1, <1>5, <1>6, <1>8 DEF IInv, Typed
<1>10. Writer'
  BY <1>1, <1>8 DEF IInv, Writer
<1>11. Reader'
  BY <1>1 DEF IInv, Reader
<1> QED BY <1>7, <1>9, <1>10, <1>11 DEF IInv

LEMMA WriterReturnsKeeps ==
  ASSUME IInv, WriteFails \/ WriteReturns
  PROVE  IInv'
<1>1. /\ wpc = "writing" /\ wpc' = "idle"
      /\ UNCHANGED <<pipe, open, buf, wbc, n, out, calls, rpc, dest, rbc, c, rret, line>>
      /\ wret' = -1 \/ (wbc >= Len(buf) /\ wret' = n)
  BY DEF WriteFails, WriteReturns, pipeVars, reader
<1>2. TypeOK'
  BY <1>1 DEF IInv, TypeOK
<1>3. Typed'
  BY <1>1 DEF IInv, Typed
<1>4. ASSUME wret' # -1 PROVE out = buf
  <2>1. wbc = Len(buf) /\ out = SubSeq(buf, 1, wbc) /\ buf \in Seq(Byte)
    BY <1>1, <1>4, LenProperties DEF IInv, Typed, Writer
  <2> QED BY <2>1, SubSeqFull
<1>5. Writer'
  BY <1>1, <1>4 DEF IInv, Writer
<1>6. Reader'
  BY <1>1 DEF IInv, Reader
<1> QED BY <1>2, <1>3, <1>5, <1>6 DEF IInv

LEMMA CloseKeeps ==
  ASSUME IInv, Close
  PROVE  IInv'
<1>1. /\ open' = FALSE
      /\ UNCHANGED <<pipe, wpc, buf, wbc, n, wret, out, calls, rpc, dest, rbc, c, rret, line>>
  BY DEF Close, writer, reader
<1>2. TypeOK'
  BY <1>1 DEF IInv, TypeOK
<1>3. Typed' /\ Writer' /\ Reader'
  BY <1>1 DEF IInv, Typed, Writer, Reader
<1> QED BY <1>2, <1>3 DEF IInv

LEMMA ReadLineKeeps ==
  ASSUME IInv, NEW destSz \in DestSizes, ReadLine(destSz)
  PROVE  IInv'
<1>1. /\ rpc' = "reading" /\ rbc' = 0 /\ c' = NUL /\ line' = <<>>
      /\ dest' = [i \in 1 .. destSz |-> Garbage]
      /\ UNCHANGED <<pipe, open, wpc, buf, wbc, n, wret, out, calls, rret>>
  BY DEF ReadLine, pipeVars, writer
<1>2. destSz \in 1 .. 2 ^ Width - 1 /\ destSz \in Nat
  BY SizeAssumption, SizeBeyondInt
<1>3. <<>> \in Seq(Byte) /\ Len(<<>>) = 0
  BY EmptySeq
<1>4. dest' \in Seq(Cell) /\ Len(dest') = destSz
  <2>1. dest' \in [1 .. destSz -> Cell]
    BY <1>1 DEF Cell
  <2>2. dest' \in Seq(Cell)
    BY <1>2, <2>1, SeqDef
  <2> QED BY <1>2, <2>1, <2>2, LenProperties
<1>5. TypeOK'
  BY <1>1, <1>2, <1>3, <1>4 DEF IInv, TypeOK
<1>6. Typed'
  BY <1>1, <1>2, <1>3, <1>4 DEF IInv, Typed
<1>7. Writer'
  BY <1>1 DEF IInv, Writer
<1>8. Reader'
  BY <1>1, <1>3 DEF Reader
<1> QED BY <1>5, <1>6, <1>7, <1>8 DEF IInv

\* What follows the loop of io_read_line() writes one NUL within the buffer.
LEMMA FinishIs ==
  ASSUME NEW last, NEW read \in Nat, NEW b \in Seq(Cell), Len(b) \in Nat \ {0},
         Finish(last, read, b)
  PROVE  LET bc == Returned(last, read)
             at == IF bc >= Len(b) THEN Len(b) - 1 ELSE bc
         IN  /\ at \in 0 .. Len(b) - 1 /\ dest' = [b EXCEPT ![at + 1] = NUL]
             /\ dest' \in Seq(Cell) /\ Len(dest') = Len(b)
             /\ rpc' = "idle" /\ rret' = AsInt(bc) /\ rret' \in Int
<1> DEFINE bc == Returned(last, read)
           at == IF bc >= Len(b) THEN Len(b) - 1 ELSE bc
<1>1. bc \in Nat
  BY ReturnedIsSize
<1>2. rpc' = "idle" /\ rret' = AsInt(bc) /\ dest' = [b EXCEPT ![at + 1] = NUL]
  BY DEF Finish
<1>3. AsInt(bc) \in Int
  BY <1>1, AsIntIsInt
<1> HIDE DEF bc
<1>4. at \in 0 .. Len(b) - 1 /\ at + 1 \in 1 .. Len(b)
  BY <1>1
<1> HIDE DEF at
<1>5. NUL \in Cell
  BY DEF Cell
<1>6. [b EXCEPT ![at + 1] = NUL] \in Seq(Cell) /\ Len([b EXCEPT ![at + 1] = NUL]) = Len(b)
  BY <1>4, <1>5, ExceptSeq
<1> QED BY <1>2, <1>3, <1>4, <1>6 DEF bc, at

\* The buffer with the byte that was read, if there is room for it.
WithByte(h) == IF rbc < Len(dest) THEN [dest EXCEPT ![rbc + 1] = h] ELSE dest

LEMMA WithByteIs ==
  ASSUME Typed, NEW h \in Byte
  PROVE  /\ WithByte(h) \in Seq(Cell) /\ Len(WithByte(h)) = Len(dest)
         /\ \A i \in 1 .. Len(dest) :
              WithByte(h)[i] = IF i = rbc + 1 THEN h ELSE dest[i]
<1>1. rbc \in Nat /\ Len(dest) \in Nat /\ dest \in Seq(Cell) /\ h \in Cell
  BY LenProperties DEF Typed, Cell
<1>2. CASE rbc < Len(dest)
  <2>1. rbc + 1 \in 1 .. Len(dest) /\ WithByte(h) = [dest EXCEPT ![rbc + 1] = h]
    BY <1>1, <1>2 DEF WithByte
  <2> QED BY <1>1, <2>1, ExceptSeq
<1>3. CASE ~(rbc < Len(dest))
  <2>1. WithByte(h) = dest /\ \A i \in 1 .. Len(dest) : i # rbc + 1
    BY <1>1, <1>3 DEF WithByte
  <2> QED BY <1>1, <2>1
<1> QED BY <1>2, <1>3

LEMMA ReadByteIs ==
  ASSUME IInv, ReadByte
  PROVE  LET h == Head(pipe)
         IN  /\ rpc = "reading" /\ h \in Byte
             /\ pipe' \in Seq(Byte) /\ Len(pipe') <= Capacity
             /\ line' = Append(line, h) /\ line' \in Seq(Byte) /\ Len(line') = Len(line) + 1
             /\ \A i \in 1 .. Len(line) : line'[i] = line[i]
             /\ line'[Len(line) + 1] = h
             /\ c' = h /\ rbc' = rbc + 1
             /\ IF h \in LineTerm THEN Finish(h, rbc + 1, WithByte(h))
                                  ELSE dest' = WithByte(h) /\ UNCHANGED <<rpc, rret>>
             /\ UNCHANGED <<open, wpc, buf, wbc, n, wret, out, calls>>
<1>1. /\ rpc = "reading" /\ pipe # <<>> /\ pipe' = Tail(pipe) /\ c' = Head(pipe)
      /\ line' = Append(line, Head(pipe)) /\ rbc' = rbc + 1
      /\ UNCHANGED <<open, wpc, buf, wbc, n, wret, out, calls>>
  BY DEF ReadByte, writer
<1>2. IF Head(pipe) \in LineTerm
        THEN Finish(Head(pipe), rbc + 1, WithByte(Head(pipe)))
        ELSE dest' = WithByte(Head(pipe)) /\ UNCHANGED <<rpc, rret>>
  BY DEF ReadByte, WithByte
<1>3. pipe \in Seq(Byte) /\ line \in Seq(Byte) /\ Len(pipe) <= Capacity /\ Len(pipe) \in Nat
  BY LenProperties DEF IInv, Typed, TypeOK
<1>4. Head(pipe) \in Byte /\ Tail(pipe) \in Seq(Byte) /\ Len(Tail(pipe)) = Len(pipe) - 1
  BY <1>1, <1>3, HeadTailProperties
<1>5. Len(pipe') <= Capacity
  BY <1>1, <1>3, <1>4, SizeAssumption
<1>6. /\ Append(line, Head(pipe)) \in Seq(Byte)
      /\ Len(Append(line, Head(pipe))) = Len(line) + 1
      /\ \A i \in 1 .. Len(line) : Append(line, Head(pipe))[i] = line[i]
      /\ Append(line, Head(pipe))[Len(line) + 1] = Head(pipe)
  BY <1>3, <1>4, AppendProperties
<1> QED BY <1>1, <1>2, <1>4, <1>5, <1>6

LEMMA ReadByteKeeps ==
  ASSUME IInv, ReadByte
  PROVE  IInv'
<1> DEFINE h == Head(pipe)
<1>1. /\ rpc = "reading" /\ h \in Byte
      /\ pipe' \in Seq(Byte) /\ Len(pipe') <= Capacity
      /\ line' \in Seq(Byte) /\ Len(line') = Len(line) + 1
      /\ \A i \in 1 .. Len(line) : line'[i] = line[i]
      /\ line'[Len(line) + 1] = h
      /\ c' = h /\ rbc' = rbc + 1
      /\ UNCHANGED <<open, wpc, buf, wbc, n, wret, out, calls>>
  BY ReadByteIs
<1>2. IF h \in LineTerm THEN Finish(h, rbc + 1, WithByte(h))
                        ELSE dest' = WithByte(h) /\ UNCHANGED <<rpc, rret>>
  BY ReadByteIs
<1>3. /\ Len(line) \in Nat /\ rbc = Len(line) /\ Len(dest) \in Nat \ {0}
      /\ Len(dest) \in 1 .. 2 ^ Width - 1 /\ Len(dest) \in DestSizes \cup {1}
  BY LenProperties, SizeBeyondInt DEF IInv, Typed, TypeOK
<1> HIDE DEF h
<1>4. /\ WithByte(h) \in Seq(Cell) /\ Len(WithByte(h)) = Len(dest)
      /\ \A i \in 1 .. Len(dest) : WithByte(h)[i] = IF i = rbc + 1 THEN h ELSE dest[i]
  BY <1>1, WithByteIs DEF IInv
<1>5. /\ dest' \in Seq(Cell) /\ Len(dest') = Len(dest) /\ rret' \in Int
      /\ rpc' \in {"idle", "reading"}
      /\ rpc' = "reading" => dest' = WithByte(h) /\ h \notin LineTerm
  <2>1. CASE h \in LineTerm
    <3>1. Finish(h, rbc + 1, WithByte(h)) /\ rbc + 1 \in Nat
      BY <1>2, <1>3, <2>1
    <3>2. dest' \in Seq(Cell) /\ Len(dest') = Len(WithByte(h)) /\ rpc' = "idle" /\ rret' \in Int
      BY <1>3, <1>4, <3>1, FinishIs
    <3> QED BY <1>4, <3>2
  <2>2. CASE h \notin LineTerm
    BY <1>1, <1>2, <1>4, <2>2 DEF IInv, TypeOK
  <2> QED BY <2>1, <2>2
<1>6. TypeOK'
  BY <1>1, <1>3, <1>5 DEF IInv, TypeOK
<1>7. Typed'
  BY <1>1, <1>3, <1>5 DEF IInv, Typed
<1>8. Writer'
  BY <1>1 DEF IInv, Writer
<1>9. ASSUME rpc' = "reading" PROVE Reader'
  <2>1. /\ dest' = WithByte(h) /\ h \notin LineTerm
        /\ \A i \in 1 .. Len(line) : line[i] \notin LineTerm
        /\ \A i \in 1 .. Len(line) : i <= Len(dest) => dest[i] = line[i]
    BY <1>1, <1>5, <1>9 DEF IInv, Reader
  <2>2. \A i \in 1 .. Len(line') : i \in 1 .. Len(line) \/ i = Len(line) + 1
    BY <1>1, <1>3
  <2>3. \A i \in 1 .. Len(line') : line'[i] \notin LineTerm
    BY <1>1, <2>1, <2>2
  <2>4. c' # NUL
    BY <1>1, <2>1
  <2>5. line' # <<>>
    BY <1>1, <1>3, EmptySeq
  <2>6. ASSUME NEW i \in 1 .. Len(line'), i <= Len(dest') PROVE dest'[i] = line'[i]
    <3>1. i \in 1 .. Len(dest)
      BY <1>3, <1>5, <2>6
    <3>2. CASE i = Len(line) + 1
      BY <1>1, <1>3, <1>4, <2>1, <3>1, <3>2
    <3>3. CASE i \in 1 .. Len(line)
      <4>1. i # rbc + 1
        BY <1>3, <3>3
      <4> QED BY <1>1, <1>4, <2>1, <3>1, <3>3, <4>1
    <3> QED BY <2>2, <3>2, <3>3
  <2> QED BY <2>3, <2>4, <2>5, <2>6 DEF Reader
<1>10. Reader'
  BY <1>9 DEF Reader
<1> QED BY <1>6, <1>7, <1>8, <1>10 DEF IInv

LEMMA ReadEndsKeeps ==
  ASSUME IInv, ReadEof \/ ReadFails
  PROVE  IInv'
<1>1. /\ Len(dest) \in Nat \ {0} /\ rbc \in Nat /\ dest \in Seq(Cell)
      /\ UNCHANGED <<pipe, open, wpc, buf, wbc, n, wret, out, calls, rbc, c, line>>
  BY LenProperties DEF IInv, Typed, ReadEof, ReadFails, pipeVars, writer
<1>2. dest' \in Seq(Cell) /\ Len(dest') = Len(dest) /\ rpc' = "idle" /\ rret' \in Int
  <2>1. CASE ReadEof
    <3>1. Finish(c, rbc, dest)
      BY <2>1 DEF ReadEof
    <3> QED BY <1>1, <3>1, FinishIs
  <2>2. CASE ReadFails
    BY <1>1, <2>2 DEF ReadFails
  <2> QED BY <2>1, <2>2
<1>3. TypeOK'
  BY <1>1, <1>2 DEF IInv, TypeOK
<1>4. Typed'
  BY <1>1, <1>2 DEF IInv, Typed
<1>5. Writer' /\ Reader'
  BY <1>1, <1>2 DEF IInv, Writer, Reader
<1> QED BY <1>3, <1>4, <1>5 DEF IInv

LEMMA NextIInv == IInv /\ [Next]_vars => IInv'
<1> SUFFICES ASSUME IInv, [Next]_vars PROVE IInv'
  OBVIOUS
<1>1. ASSUME NEW text \in Text, WriteAll(text) \/ Vfprintf(text) PROVE IInv'
  <2>1. CASE WriteAll(text)
    <3>1. Start(text, 1) /\ text \in Seq(Byte) /\ 1 \in Int /\ 1 # -1
      BY <2>1, TextIsBytes DEF WriteAll
    <3> QED BY <3>1, StartKeeps
  <2>2. CASE Vfprintf(text)
    <3>1. /\ Start(Printed(text), Len(text)) /\ Printed(text) \in Seq(Byte)
          /\ Len(text) \in Int /\ Len(text) # -1
      BY <2>2, PrintedIs DEF Vfprintf
    <3> QED BY <3>1, StartKeeps
  <2> QED BY <1>1, <2>1, <2>2
<1>2. CASE Writing
  BY <1>2, WriteSomeKeeps, WriterReturnsKeeps DEF Writing
<1>3. CASE WriteFails
  BY <1>3, WriterReturnsKeeps
<1>4. CASE Served
  BY <1>4, ReadLineKeeps DEF Served
<1>5. CASE Reading
  BY <1>5, ReadByteKeeps, ReadEndsKeeps DEF Reading
<1>6. CASE UNCHANGED vars
  <2>1. UNCHANGED <<pipe, open, wpc, buf, wbc, n, wret, out, calls, rpc, dest, rbc, c, rret, line>>
    BY <1>6 DEF vars, pipeVars, writer, reader
  <2>2. TypeOK'
    BY <2>1 DEF IInv, TypeOK
  <2> QED BY <2>1, <2>2 DEF IInv, Typed, Writer, Reader
<1> QED BY <1>1, <1>2, <1>3, <1>4, <1>5, <1>6, CloseKeeps, ReadEndsKeeps DEF Next

LEMMA Inductive == Spec => []IInv
BY InitIInv, NextIInv, PTL DEF Spec

\* However write() cuts the buffer up and whenever it fails, io_writeall() has
\* written a prefix of it, each byte once, and all of it when it reports success.
THEOREM WritesKeepOrder == Spec => []WritesInOrder
<1>1. IInv => WritesInOrder
  BY DEF IInv, Writer, WritesInOrder
<1> QED BY <1>1, Inductive, PTL

-----------------------------------------------------------------------------
(* No length wraps around *)

\* What the calls write, texts of up to m bytes, fits an int: io_read_line()
\* counts in a size_t and returns an int.
FitsInt(m) == (\A text \in Text : Len(text) <= m) /\ Calls * m < 2 ^ (Width - 1)

Unwritten == IF wpc = "writing" THEN Len(buf) - wbc ELSE 0

Ahead(m) == Len(line) + Len(pipe) + Unwritten <= calls * m

LEMMA LengthsAre ==
  ASSUME IInv
  PROVE  /\ Len(line) \in Nat /\ Len(pipe) \in Nat /\ Len(buf) \in Nat
         /\ wbc \in 0 .. Len(buf) /\ Unwritten \in Nat /\ calls \in 0 .. Calls
         /\ Len(dest) \in Nat \ {0}
BY LenProperties, SizeBeyondInt DEF IInv, Typed, Unwritten

LEMMA AheadInit ==
  ASSUME NEW m \in Nat, Init
  PROVE  Ahead(m)
<1>1. Len(line) = 0 /\ Len(pipe) = 0 /\ Unwritten = 0 /\ calls = 0
  BY EmptySeq DEF Init, Unwritten
<1>2. 0 * m = 0
  OBVIOUS
<1> QED BY <1>1, <1>2 DEF Ahead

LEMMA AheadNext ==
  ASSUME NEW m \in Nat, FitsInt(m), IInv, IInv', Ahead(m), [Next]_vars
  PROVE  Ahead(m)'
<1>1. /\ Len(line) \in Nat /\ Len(pipe) \in Nat /\ Len(buf) \in Nat /\ wbc \in 0 .. Len(buf)
      /\ Unwritten \in Nat /\ calls \in Nat
  BY LengthsAre, SizeAssumption
<1>2. calls * m \in Nat /\ (calls + 1) * m = calls * m + m
  BY <1>1
<1>3. ASSUME Len(line') <= Len(line), Len(pipe') <= Len(pipe), Unwritten' <= Unwritten,
             calls' = calls
      PROVE  Ahead(m)'
  <2>1. Len(line') \in Nat /\ Len(pipe') \in Nat
    BY LenProperties DEF IInv, Typed
  <2>2. Unwritten' \in Nat
    <3>1. buf' \in Seq(Byte) /\ wbc' \in 0 .. Len(buf')
      BY DEF IInv, Typed
    <3>2. Len(buf') \in Nat
      BY <3>1, LenProperties
    <3> QED BY <3>1, <3>2 DEF Unwritten
  <2>3. \A i, j, k, x, y, z, w \in Nat :
          i + j + k <= w /\ x <= i /\ y <= j /\ z <= k => x + y + z <= w
    OBVIOUS
  <2>4. Len(line) + Len(pipe) + Unwritten <= calls * m
    BY DEF Ahead
  <2>5. Len(line') + Len(pipe') + Unwritten' <= calls * m
    BY <1>1, <1>2, <1>3, <2>1, <2>2, <2>3, <2>4
  <2> QED BY <1>3, <2>5 DEF Ahead
<1>4. ASSUME NEW text \in Text, WriteAll(text) \/ Vfprintf(text) PROVE Ahead(m)'
  <2>1. PICK t \in Seq(Byte), r \in Int : Start(t, r) /\ Len(t) <= Len(text)
    <3>1. text \in Seq(Byte) /\ Len(text) \in Nat
      BY TextIsBytes, LenProperties
    <3> QED BY <1>4, <3>1, PrintedIs DEF WriteAll, Vfprintf
  <2>2. /\ wpc = "idle" /\ wpc' = "writing" /\ buf' = t /\ wbc' = 0 /\ calls' = calls + 1
        /\ line' = line /\ pipe' = pipe
    BY <2>1 DEF Start, pipeVars, reader
  <2>3. Len(t) \in Nat /\ Len(text) \in Nat /\ Len(text) <= m
    BY <2>1, TextIsBytes, LenProperties DEF FitsInt
  <2>4. Unwritten = 0 /\ Unwritten' = Len(t)
    BY <2>2, <2>3 DEF Unwritten
  <2>5. Len(t) <= m
    BY <2>1, <2>3
  <2>6. Len(line) + Len(pipe) <= calls * m
    BY <1>1, <2>4 DEF Ahead
  <2>7. Len(line) + Len(pipe) + Len(t) <= calls * m + m
    BY <1>1, <1>2, <2>3, <2>5, <2>6
  <2> QED BY <1>2, <2>2, <2>4, <2>7 DEF Ahead
<1>5. ASSUME NEW k \in Pieces, WriteSome(k) PROVE Ahead(m)'
  <2>1. /\ wpc = "writing" /\ wpc' = "writing" /\ wbc' = wbc + k /\ buf' = buf
        /\ line' = line /\ calls' = calls /\ pipe' = pipe \o SubSeq(Rest, 1, k)
    BY <1>5 DEF WriteSome, reader
  <2>2. /\ pipe \in Seq(Byte) /\ buf \in Seq(Byte) /\ k \in 1 .. Len(Rest)
        /\ wbc < Len(buf)
    BY <1>5 DEF IInv, Typed, Pieces, WriteSome
  <2>3. Len(Rest) \in Nat /\ \A i \in 1 .. Len(Rest) : Rest[i] \in Byte
    <3>1. \A i \in wbc + 1 .. Len(buf) : i \in 1 .. Len(buf)
      BY <1>1
    <3>2. \A i \in wbc + 1 .. Len(buf) : buf[i] \in Byte
      BY <2>2, <3>1, ElementOfSeq
    <3>3. wbc + 1 \in Int /\ Len(buf) \in Int
      BY <1>1
    <3>4. Rest \in Seq(Byte)
      BY <3>2, <3>3, SubSeqProperties DEF Rest
    <3> QED BY <3>4, LenProperties, ElementOfSeq
  <2>4. k \in Nat /\ 1 <= k /\ \A i \in 1 .. k : Rest[i] \in Byte
    BY <2>2, <2>3
  <2>5. SubSeq(Rest, 1, k) \in Seq(Byte) /\ Len(SubSeq(Rest, 1, k)) = k
    <3>1. /\ SubSeq(Rest, 1, k) \in Seq(Byte)
          /\ Len(SubSeq(Rest, 1, k)) = IF 1 <= k THEN k - 1 + 1 ELSE 0
      BY <2>4, SubSeqProperties
    <3> QED BY <2>4, <3>1
  <2>6. Len(pipe') = Len(pipe) + k
    BY <2>1, <2>2, <2>5, ConcatProperties
  <2>7. Unwritten = Len(buf) - wbc /\ Unwritten' = Len(buf) - (wbc + k)
    BY <2>1 DEF Unwritten
  <2>8. Len(pipe') + Unwritten' = Len(pipe) + Unwritten
    BY <1>1, <2>4, <2>6, <2>7
  <2> QED BY <1>1, <2>1, <2>4, <2>6, <2>7, <2>8 DEF Ahead
<1>6. CASE WriteFails \/ WriteReturns
  <2>1. Len(line') = Len(line) /\ Len(pipe') = Len(pipe) /\ Unwritten' = 0 /\ calls' = calls
    BY <1>6 DEF WriteFails, WriteReturns, pipeVars, reader, Unwritten
  <2> QED BY <1>1, <1>3, <2>1
<1>7. CASE Close \/ ReadFails \/ ReadEof
  <2>1. Len(line') = Len(line) /\ Len(pipe') = Len(pipe) /\ Unwritten' = Unwritten /\ calls' = calls
    BY <1>7 DEF Close, ReadFails, ReadEof, pipeVars, writer, reader, Unwritten
  <2> QED BY <1>1, <1>3, <2>1
<1>8. ASSUME NEW destSz \in DestSizes, ReadLine(destSz) PROVE Ahead(m)'
  <2>1. Len(line') = 0 /\ Len(pipe') = Len(pipe) /\ Unwritten' = Unwritten /\ calls' = calls
    BY <1>8, EmptySeq DEF ReadLine, pipeVars, writer, Unwritten
  <2> QED BY <1>1, <1>3, <2>1
<1>9. CASE ReadByte
  <2>1. /\ Len(line') = Len(line) + 1 /\ Unwritten' = Unwritten /\ calls' = calls
    BY <1>9, ReadByteIs DEF Unwritten
  <2>2. Len(pipe') = Len(pipe) - 1
    <3>1. pipe \in Seq(Byte) /\ pipe # <<>> /\ pipe' = Tail(pipe)
      BY <1>9 DEF ReadByte, IInv, Typed
    <3> QED BY <3>1, HeadTailProperties
  <2> QED BY <1>1, <1>2, <2>1, <2>2 DEF Ahead
<1>10. CASE UNCHANGED vars
  <2>1. Len(line') = Len(line) /\ Len(pipe') = Len(pipe) /\ Unwritten' = Unwritten /\ calls' = calls
    BY <1>10 DEF vars, pipeVars, writer, reader, Unwritten
  <2> QED BY <1>1, <1>3, <2>1
<1> QED
  BY <1>4, <1>5, <1>6, <1>7, <1>8, <1>9, <1>10 DEF Next, Writing, Reading, Served

LEMMA LineFitsInt ==
  ASSUME NEW m \in Nat, FitsInt(m), IInv, Ahead(m)
  PROVE  Len(line) + Len(pipe) < 2 ^ (Width - 1)
<1>1. /\ Len(line) \in Nat /\ Len(pipe) \in Nat /\ Unwritten \in Nat
      /\ calls \in Nat /\ Calls \in Nat /\ calls <= Calls
  BY LengthsAre, SizeAssumption
<1>2. calls * m \in Nat /\ Calls * m \in Nat /\ calls * m <= Calls * m
  <2>1. \A i \in Nat, j \in Nat, w \in Nat :
          i <= j => i * w \in Nat /\ j * w \in Nat /\ i * w <= j * w
    OBVIOUS
  <2> QED BY <1>1, <2>1
<1> QED BY <1>1, <1>2, SizeBeyondInt DEF Ahead, FitsInt

-----------------------------------------------------------------------------
(* What io_read_line() returns *)

\* A buffer that holds what fits of a line becomes the string of it.
LEMMA Terminated ==
  ASSUME NEW b \in Seq(Cell), Len(b) \in Nat \ {0}, NEW s \in Seq(Byte),
         \A i \in 1 .. Len(s) : i <= Len(b) => b[i] = s[i],
         NEW at, at = IF Len(s) < Len(b) THEN Len(s) ELSE Len(b) - 1
  PROVE  SubSeq([b EXCEPT ![at + 1] = NUL], 1, at + 1) = Append(SubSeq(s, 1, at), NUL)
<1> DEFINE z == [b EXCEPT ![at + 1] = NUL]
           l == SubSeq(z, 1, at + 1)
           r == Append(SubSeq(s, 1, at), NUL)
<1>1. Len(s) \in Nat /\ at \in Nat /\ at \in 0 .. Len(s) /\ at + 1 \in 1 .. Len(b)
  BY LenProperties
<1>2. /\ z \in Seq(Cell) /\ Len(z) = Len(b)
      /\ \A j \in 1 .. Len(b) : z[j] = IF j = at + 1 THEN NUL ELSE b[j]
  <2>1. NUL \in Cell
    BY DEF Cell
  <2> QED BY <1>1, <2>1, ExceptSeq
<1> HIDE DEF z
<1>3. /\ l \in Seq(Cell) /\ Len(l) = at + 1 /\ \A i \in 1 .. at + 1 : l[i] = z[i]
  <2>1. at + 1 \in 0 .. Len(z)
    BY <1>1, <1>2
  <2> QED BY <1>2, <2>1, PrefixIs
<1>4. /\ SubSeq(s, 1, at) \in Seq(Cell) /\ Len(SubSeq(s, 1, at)) = at
      /\ \A i \in 1 .. at : SubSeq(s, 1, at)[i] = s[i]
  <2>1. s \in Seq(Cell)
    BY SeqMonotonic DEF Cell
  <2> QED BY <1>1, <2>1, PrefixIs
<1>5. /\ r \in Seq(Cell) /\ Len(r) = at + 1
      /\ \A i \in 1 .. at : r[i] = s[i]
      /\ r[at + 1] = NUL
  <2>1. NUL \in Cell
    BY DEF Cell
  <2> QED BY <1>4, <2>1, AppendProperties
<1> HIDE DEF l, r
<1>6. ASSUME NEW i \in 1 .. at + 1 PROVE l[i] = r[i]
  <2>1. CASE i = at + 1
    BY <1>1, <1>2, <1>3, <1>5, <2>1
  <2>2. CASE i # at + 1
    <3>1. i \in 1 .. at /\ i \in 1 .. Len(s) /\ i \in 1 .. Len(b) /\ i <= Len(b)
      BY <1>1, <2>2
    <3>2. l[i] = b[i]
      BY <1>2, <1>3, <2>2, <3>1
    <3> QED BY <1>5, <3>1, <3>2
  <2> QED BY <2>1, <2>2
<1>7. l = r
  BY <1>3, <1>5, <1>6, SeqEqual
<1> QED BY <1>7 DEF l, r, z

\* A line of s that ends: its length is returned and its beginning stored.
LEMMA LineEnds ==
  ASSUME NEW last, NEW read \in Nat, NEW b \in Seq(Cell), Len(b) \in Nat \ {0},
         Finish(last, read, b), NEW s \in Seq(Byte), Len(s) < 2 ^ (Width - 1),
         \A i \in 1 .. Len(s) : i <= Len(b) => b[i] = s[i],
         Returned(last, read) = Len(s)
  PROVE  /\ rret' = Len(s)
         /\ LET kept == IF rret' < Len(dest') THEN rret' ELSE Len(dest') - 1
            IN  SubSeq(dest', 1, kept + 1) = Append(SubSeq(s, 1, kept), NUL)
<1>1. Len(s) \in Nat
  BY LenProperties
<1>2. PICK at : at = IF Len(s) < Len(b) THEN Len(s) ELSE Len(b) - 1
  OBVIOUS
<1>3. at = IF Len(s) >= Len(b) THEN Len(b) - 1 ELSE Len(s)
  BY <1>1, <1>2
<1>4. /\ dest' = [b EXCEPT ![at + 1] = NUL] /\ Len(dest') = Len(b) /\ rret' = AsInt(Len(s))
  BY <1>3, FinishIs
<1>5. rret' = Len(s)
  BY <1>1, <1>4, SizeBeyondInt DEF AsInt
<1>6. SubSeq(dest', 1, at + 1) = Append(SubSeq(s, 1, at), NUL)
  BY <1>2, <1>4, Terminated
<1> QED BY <1>2, <1>4, <1>5, <1>6

\* The NUL that ended a line is not counted.
LEMMA ReturnedAfterNul ==
  ASSUME NEW read \in Nat \ {0}, read - 1 < 2 ^ Width
  PROVE  Returned(NUL, read) = read - 1
<1>1. read - 1 \in Nat /\ 2 ^ Width \in Nat \ {0}
  BY SizeBeyondInt
<1>2. \A a \in Nat, w \in Nat \ {0} : a < w => a % w = a
  OBVIOUS
<1>3. (read - 1) % 2 ^ Width = read - 1
  BY <1>1, <1>2
<1> QED BY <1>3 DEF Returned

\* At the end of the input, nothing was read: SIZE_MAX, which is -1 as an int.
LEMMA ReturnedAtEnd ==
  /\ Returned(NUL, 0) = 2 ^ Width - 1
  /\ AsInt(2 ^ Width - 1) = -1
<1>1. \A w \in Nat \ {0} : (0 - 1) % w = w - 1
  OBVIOUS
<1>2. (0 - 1) % 2 ^ Width = 2 ^ Width - 1
  BY <1>1, SizeBeyondInt
<1>3. 2 ^ Width - 1 >= 2 ^ (Width - 1)
  BY SizeBeyondInt
<1> QED BY <1>2, <1>3, SizeBeyondInt DEF Returned, AsInt

LineStep ==
  IF line' = <<>> THEN rret' = -1 /\ dest'[Len(dest')] = NUL
  ELSE /\ rret' = Len(Content')
       /\ LET kept == IF rret' < Len(dest') THEN rret' ELSE Len(dest') - 1
          IN  SubSeq(dest', 1, kept + 1) = Append(SubSeq(Content', 1, kept), NUL)

LEMMA ReadByteEnds ==
  ASSUME NEW m \in Nat, FitsInt(m), IInv, Ahead(m), ReadByte, rpc' = "idle"
  PROVE  LineStep
<1> DEFINE h == Head(pipe)
<1>1. /\ rpc = "reading" /\ h \in Byte
      /\ line' = Append(line, h)
      /\ line' \in Seq(Byte) /\ Len(line') = Len(line) + 1
      /\ \A i \in 1 .. Len(line) : line'[i] = line[i]
      /\ line'[Len(line) + 1] = h
  BY ReadByteIs
<1>2. IF h \in LineTerm THEN Finish(h, rbc + 1, WithByte(h))
                        ELSE dest' = WithByte(h) /\ UNCHANGED <<rpc, rret>>
  BY ReadByteIs
<1>3. pipe # <<>> /\ pipe \in Seq(Byte)
  BY DEF ReadByte, IInv, Typed
<1> HIDE DEF h
<1>4. h \in LineTerm /\ Finish(h, rbc + 1, WithByte(h))
  BY <1>1, <1>2
<1>5. /\ Len(line) \in Nat /\ rbc = Len(line) /\ Len(dest) \in Nat \ {0}
      /\ line \in Seq(Byte)
      /\ \A i \in 1 .. Len(line) : i <= Len(dest) => dest[i] = line[i]
  BY <1>1, LengthsAre DEF IInv, Typed, Reader
<1>6. Len(line) + 1 < 2 ^ (Width - 1)
  <2>1. Len(pipe) \in Nat /\ Len(pipe) # 0
    BY <1>3, EmptySeq
  <2>2. Len(line) + Len(pipe) < 2 ^ (Width - 1)
    BY LineFitsInt
  <2> QED BY <1>5, <2>1, <2>2, SizeBeyondInt
<1>7. /\ WithByte(h) \in Seq(Cell) /\ Len(WithByte(h)) = Len(dest)
      /\ \A i \in 1 .. Len(dest) : WithByte(h)[i] = IF i = rbc + 1 THEN h ELSE dest[i]
  BY <1>1, WithByteIs DEF IInv
<1>8. line' # <<>> /\ Last(line)' = h
  BY <1>1, <1>5, EmptySeq DEF Last
<1>9. CASE h = NUL
  <2>1. Content' = line
    <3>1. Content' = Front(line)'
      BY <1>8, <1>9 DEF Content
    <3>2. Front(line)' = SubSeq(line', 1, Len(line') - 1)
      BY DEF Front
    <3>3. Len(line') - 1 = Len(line)
      BY <1>1, <1>5
    <3>4. Front(line)' = SubSeq(line', 1, Len(line))
      BY <3>2, <3>3
    <3>5. Len(line) \in 0 .. Len(line')
      BY <1>1, <1>5
    <3>6. /\ SubSeq(line', 1, Len(line)) \in Seq(Byte)
          /\ Len(SubSeq(line', 1, Len(line))) = Len(line)
          /\ \A i \in 1 .. Len(line) : SubSeq(line', 1, Len(line))[i] = line'[i]
      BY <1>1, <3>5, PrefixIs
    <3>7. SubSeq(line', 1, Len(line)) = line
      BY <1>1, <1>5, <3>6, SeqEqual
    <3> QED BY <3>1, <3>4, <3>7
  <2>2. Returned(h, rbc + 1) = Len(line)
    <3>1. rbc + 1 \in Nat \ {0} /\ (rbc + 1) - 1 = Len(line) /\ (rbc + 1) - 1 < 2 ^ Width
      BY <1>5, <1>6, SizeBeyondInt
    <3> QED BY <1>9, <3>1, ReturnedAfterNul
  <2>3. \A i \in 1 .. Len(line) : i <= Len(WithByte(h)) => WithByte(h)[i] = line[i]
    <3>1. ASSUME NEW i \in 1 .. Len(line), i <= Len(dest) PROVE WithByte(h)[i] = line[i]
      <4>1. i # rbc + 1 /\ i \in 1 .. Len(dest)
        BY <1>5, <3>1
      <4> QED BY <1>5, <1>7, <3>1, <4>1
    <3> QED BY <1>7, <3>1
  <2>4. rbc + 1 \in Nat /\ Len(WithByte(h)) \in Nat \ {0} /\ Len(line) < 2 ^ (Width - 1)
    BY <1>5, <1>6, <1>7, SizeBeyondInt
  <2>5. /\ rret' = Len(line)
        /\ LET kept == IF rret' < Len(dest') THEN rret' ELSE Len(dest') - 1
           IN  SubSeq(dest', 1, kept + 1) = Append(SubSeq(line, 1, kept), NUL)
    BY <1>4, <1>5, <1>7, <2>2, <2>3, <2>4, LineEnds
  <2> QED BY <1>8, <2>1, <2>5 DEF LineStep
<1>10. CASE h # NUL
  <2>1. Content' = line'
    BY <1>8, <1>10 DEF Content
  <2>2. Returned(h, rbc + 1) = Len(line')
    BY <1>1, <1>5, <1>10 DEF Returned
  <2>3. \A i \in 1 .. Len(line') : i <= Len(WithByte(h)) => WithByte(h)[i] = line'[i]
    <3>1. ASSUME NEW i \in 1 .. Len(line'), i <= Len(dest) PROVE WithByte(h)[i] = line'[i]
      <4>1. i \in 1 .. Len(dest)
        BY <3>1, <1>1, <1>5
      <4>2. CASE i = rbc + 1
        BY <1>1, <1>5, <1>7, <4>1, <4>2
      <4>3. CASE i # rbc + 1
        <5>1. i \in 1 .. Len(line)
          BY <1>1, <1>5, <4>3
        <5> QED BY <1>1, <1>5, <1>7, <3>1, <4>1, <4>3, <5>1
      <4> QED BY <4>2, <4>3
    <3> QED BY <1>7, <3>1
  <2>4. rbc + 1 \in Nat /\ Len(WithByte(h)) \in Nat \ {0} /\ Len(line') < 2 ^ (Width - 1)
    BY <1>1, <1>5, <1>6, <1>7
  <2>5. /\ rret' = Len(line')
        /\ LET kept == IF rret' < Len(dest') THEN rret' ELSE Len(dest') - 1
           IN  SubSeq(dest', 1, kept + 1) = Append(SubSeq(line', 1, kept), NUL)
    BY <1>1, <1>4, <1>7, <2>2, <2>3, <2>4, LineEnds
  <2> QED BY <1>8, <2>1, <2>5 DEF LineStep
<1> QED BY <1>9, <1>10

LEMMA ReadEofEnds ==
  ASSUME NEW m \in Nat, FitsInt(m), IInv, Ahead(m), ReadEof
  PROVE  LineStep
<1>1. rpc = "reading" /\ Finish(c, rbc, dest) /\ line' = line
  BY DEF ReadEof
<1>2. /\ Len(line) \in Nat /\ rbc = Len(line) /\ Len(dest) \in Nat \ {0}
      /\ line \in Seq(Byte) /\ dest \in Seq(Cell) /\ Len(dest) \in 1 .. 2 ^ Width - 1
  BY LengthsAre DEF IInv, Typed
<1>3. /\ \A i \in 1 .. Len(line) : line[i] \notin LineTerm
      /\ line = <<>> => c = NUL
      /\ line # <<>> => c # NUL
      /\ \A i \in 1 .. Len(line) : i <= Len(dest) => dest[i] = line[i]
  BY <1>1 DEF IInv, Reader
<1>4. CASE line = <<>>
  <2>1. c = NUL /\ rbc = 0
    BY <1>2, <1>3, <1>4, EmptySeq
  <2>2. Returned(c, rbc) = 2 ^ Width - 1 /\ AsInt(2 ^ Width - 1) = -1
    BY <2>1, ReturnedAtEnd
  <2>3. (IF 2 ^ Width - 1 >= Len(dest) THEN Len(dest) - 1 ELSE 2 ^ Width - 1) = Len(dest) - 1
    BY <1>2, SizeBeyondInt
  <2>4. /\ rret' = -1 /\ dest' = [dest EXCEPT ![Len(dest) - 1 + 1] = NUL]
        /\ Len(dest') = Len(dest)
    BY <1>1, <1>2, <2>2, <2>3, FinishIs
  <2>5. Len(dest) - 1 + 1 = Len(dest) /\ Len(dest) \in DOMAIN dest
    BY <1>2, LenProperties
  <2> QED BY <1>1, <1>4, <2>4, <2>5 DEF LineStep
<1>5. CASE line # <<>>
  <2>1. Len(line) \in 1 .. Len(line)
    BY <1>2, <1>5, EmptySeq
  <2>2. Last(line) # NUL
    BY <1>3, <2>1 DEF Last
  <2>3. Content' = line
    BY <1>1, <2>2 DEF Content
  <2>4. Returned(c, rbc) = Len(line)
    BY <1>2, <1>3, <1>5 DEF Returned
  <2>5. Len(line) < 2 ^ (Width - 1)
    <3>1. Len(pipe) \in Nat /\ Len(line) + Len(pipe) < 2 ^ (Width - 1)
      BY LineFitsInt, LengthsAre
    <3> QED BY <1>2, <3>1, SizeBeyondInt
  <2>6. /\ rret' = Len(line)
        /\ LET kept == IF rret' < Len(dest') THEN rret' ELSE Len(dest') - 1
           IN  SubSeq(dest', 1, kept + 1) = Append(SubSeq(line, 1, kept), NUL)
    BY <1>1, <1>2, <1>3, <2>4, <2>5, LineEnds
  <2> QED BY <1>1, <1>5, <2>3, <2>6 DEF LineStep
<1> QED BY <1>4, <1>5

\* io_read_line() returns the line and its length, or its beginning and a length
\* that is not less than the buffer's size, and -1 only at the end, as long as
\* what is written fits an int.
THEOREM LinesAreRead ==
  ASSUME NEW CONSTANT m \in Nat, FitsInt(m)
  PROVE  Spec => LineOrBeginning
<1> DEFINE Step == rpc = "reading" /\ Reading /\ rpc' = "idle" => LineStep
<1>1. Init => Ahead(m)
  BY AheadInit
<1>2. IInv /\ IInv' /\ Ahead(m) /\ [Next]_vars => Ahead(m)'
  BY AheadNext
<1>3. IInv /\ Ahead(m) => Step
  BY ReadByteEnds, ReadEofEnds DEF Reading
<1>4. LineOrBeginning <=> [][Step]_vars
  BY DEF LineOrBeginning, LineStep
<1> HIDE DEF Step
<1> QED BY <1>1, <1>2, <1>3, <1>4, Inductive, PTL DEF Spec

-----------------------------------------------------------------------------
(* Logging *)

\* The colour of the program's logger is what was asked for; while its
\* messages go to syslog the connection is its own, or the library's where the
\* environment sends that one's messages there.
Connected ==
  /\ app.fancy = asked
  /\ (lib.open \/ ~lib.stderr) => env.syslog
  /\ ~app.stderr => conn = ident \/ (env.syslog /\ conn = LibIdent)
  /\ ~app.stderr => ident \in Ident

LogInv == LogTypeOK /\ Connected /\ FancyWasAsked /\ KeepsIdent

\* The invariant holds before the first message.
LEMMA InitLogInv == LogInit => LogInv
<1> SUFFICES ASSUME LogInit PROVE LogInv
  OBVIOUS
<1>1. app.fancy = FALSE /\ lib.fancy = FALSE
  BY DEF LogInit
<1>2. app.open = FALSE /\ lib.open = FALSE
  BY DEF LogInit
<1>3. app.stderr = TRUE /\ lib.stderr = TRUE
  BY DEF LogInit
<1>4. IsLogger(app) /\ IsLogger(lib)
  BY <1>1, <1>2, <1>3 DEF LogInit, IsLogger
<1>5. said.by = "nobody" /\ said.to = "nowhere" /\ said.colour = FALSE
  BY DEF LogInit, Silent
<1>6. LogTypeOK
  BY <1>4, <1>5 DEF LogInit, LogTypeOK
<1>7. Connected
  BY <1>1, <1>2, <1>3 DEF LogInit, Connected
<1> QED BY <1>5, <1>6, <1>7 DEF LogInv, FancyWasAsked, KeepsIdent

\* A change of the target, the colour or the level of the program's logger.
LEMMA SettingKeepsLogInv ==
  ASSUME LogInv,
         \/ \E id \in Ident : log_syslog(id)
         \/ log_stderr
         \/ \E fancy \in BOOLEAN : log_setfancy(fancy)
         \/ \E lvl \in Level : log_setlvl(lvl)
  PROVE  LogInv'
<1> USE IdentAssumption, EnvironmentAssumption
    DEF LogInv, LogTypeOK, Connected, FancyWasAsked, KeepsIdent, IsLogger, Silent
<1>1. ASSUME NEW id \in Ident, log_syslog(id) PROVE LogInv'
  <2>1. app'.open = TRUE /\ app'.fancy = FALSE /\ app'.stderr = FALSE
    BY <1>1 DEF log_syslog, Syslog
  <2>2. DOMAIN app' = {"open", "stderr", "lvl", "fancy"}
    BY <1>1 DEF log_syslog, Syslog
  <2>3. said'.by = "nobody" /\ said'.to = "nowhere" /\ said'.colour = FALSE
    BY <1>1 DEF log_syslog
  <2>4. LogTypeOK'
    BY <1>1, <2>1, <2>2, <2>3 DEF log_syslog
  <2>5. Connected'
    BY <1>1, <2>1 DEF log_syslog
  <2> QED BY <2>3, <2>4, <2>5
<1>2. CASE log_stderr
  BY <1>2 DEF log_stderr, Stderr
<1>3. CASE \E fancy \in BOOLEAN : log_setfancy(fancy)
  BY <1>3 DEF log_setfancy, SetFancy
<1>4. CASE \E lvl \in Level : log_setlvl(lvl)
  BY <1>4 DEF log_setlvl
<1> QED BY <1>1, <1>2, <1>3, <1>4

\* A message of the program.
LEMMA MessageKeepsLogInv ==
  ASSUME LogInv, NEW lvl \in Level, log_log(lvl)
  PROVE  LogInv'
<1> USE IdentAssumption, EnvironmentAssumption
    DEF LogInv, LogTypeOK, Connected, FancyWasAsked, KeepsIdent, IsLogger, Silent
<1>1. CASE lvl > app.lvl
  <2>1. said'.by = "nobody" /\ said'.to = "nowhere" /\ said'.colour = FALSE
    BY <1>1 DEF log_log
  <2>2. UNCHANGED <<env, conn, app, lib, ident, asked>>
    BY <1>1 DEF log_log
  <2> QED BY <2>1, <2>2
<1>2. CASE ~(lvl > app.lvl) /\ app.stderr
  <2>1. said'.by = "app" /\ said'.to = "stderr" /\ said'.colour = app.fancy
    BY <1>2 DEF log_log, Emit
  <2>2. UNCHANGED <<env, conn, app, lib, ident, asked>>
    BY <1>2 DEF log_log, Emit
  <2>3. FancyWasAsked'
    BY <2>1, <2>2
  <2> QED BY <2>1, <2>2, <2>3
<1>3. CASE ~(lvl > app.lvl) /\ ~app.stderr
  <2>1. /\ said'.by = "app" /\ said'.to = "syslog" /\ said'.colour = FALSE
        /\ said'.ident = conn' /\ conn' = IF conn = Closed THEN Progname ELSE conn
    BY <1>3 DEF log_log, Emit
  <2>2. UNCHANGED <<env, app, lib, ident, asked>>
    BY <1>3 DEF log_log, Emit
  <2>3. conn # Closed /\ conn' = conn
    BY <1>3, <2>1
  <2>4. FancyWasAsked' /\ KeepsIdent'
    BY <1>3, <2>1, <2>2, <2>3
  <2> QED BY <2>1, <2>2, <2>3, <2>4
<1> QED BY <1>1, <1>2, <1>3

\* What bsnslog_init() leaves: a logger on syslog, or one on stderr, as the
\* environment has it, that never opened a connection for nothing.
LEMMA SetUpLogger ==
  ASSUME LogInv
  PROVE  /\ IsLogger(SetUp)
         /\ env.syslog => SetUp.open /\ ~SetUp.stderr
         /\ ~env.syslog => SetUp.stderr /\ SetUp.open = lib.open
BY EnvironmentAssumption
   DEF SetUp, Syslog, Stderr, SetFancy, LogInv, LogTypeOK, IsLogger, Connected

\* A message of the library, which may be its first one.
LEMMA LibraryKeepsLogInv ==
  ASSUME LogInv, NEW lvl \in Level, NEW f \in File, bsnslog_log(lvl, f)
  PROVE  LogInv'
<1> DEFINE first == lib.lvl = Unset
           now == CASE ~first -> conn
                    [] first /\ env.syslog -> LibIdent
                    [] first /\ ~env.syslog -> IF lib.open THEN Closed ELSE conn
<1>1. /\ UNCHANGED <<env, app, ident, asked>>
      /\ lib' = IF first THEN SetUp ELSE lib
      /\ \/ said' = Silent /\ conn' = now
         \/ Emit("lib", lib', now)
  BY DEF bsnslog_log
<1>2. IsLogger(lib')
  BY <1>1, SetUpLogger DEF LogInv, LogTypeOK
<1>3. (lib'.open \/ ~lib'.stderr) => env.syslog
  BY <1>1, SetUpLogger, EnvironmentAssumption DEF LogInv, LogTypeOK, Connected
<1>4. /\ now \in Ident \cup {LibIdent, Progname, Closed}
      /\ now = conn \/ (env.syslog /\ now = LibIdent)
  BY EnvironmentAssumption DEF LogInv, LogTypeOK, Connected
<1>5. ~app.stderr => now = ident \/ (env.syslog /\ now = LibIdent)
  BY <1>4 DEF LogInv, Connected
<1>6. CASE said' = Silent /\ conn' = now
  BY <1>1, <1>2, <1>3, <1>4, <1>5, <1>6
     DEF LogInv, LogTypeOK, Connected, FancyWasAsked, KeepsIdent, Silent
<1>7. CASE Emit("lib", lib', now)
  <2>1. conn' \in {now, Progname} /\ (now # Closed => conn' = now)
    BY <1>7 DEF Emit
  <2>2. said'.by = "lib" /\ said'.to \in {"stderr", "syslog"}
    BY <1>7 DEF Emit
  <2>5. said'.colour \in BOOLEAN
    <3>1. lib'.fancy \in BOOLEAN
      BY <1>2 DEF IsLogger
    <3>2. CASE lib'.stderr
      BY <1>7, <3>1, <3>2 DEF Emit
    <3>3. CASE ~lib'.stderr
      <4>1. said'.colour = FALSE
        BY <1>7, <3>3 DEF Emit
      <4> QED BY <4>1
    <3> QED BY <3>2, <3>3
  <2>3. ~app.stderr => conn' = ident \/ (env.syslog /\ conn' = LibIdent)
    BY <1>5, <2>1, IdentAssumption DEF LogInv, Connected
  <2> QED
    BY <1>1, <1>2, <1>3, <1>4, <2>1, <2>2, <2>3, <2>5
       DEF LogInv, LogTypeOK, Connected, FancyWasAsked, KeepsIdent
<1> QED BY <1>1, <1>6, <1>7

LEMMA NextKeepsLogInv == LogInv /\ [LogNext]_logvars => LogInv'
<1> SUFFICES ASSUME LogInv, [LogNext]_logvars PROVE LogInv'
  OBVIOUS
<1>1. CASE UNCHANGED logvars
  BY <1>1 DEF logvars, LogInv, LogTypeOK, Connected, FancyWasAsked, KeepsIdent, IsLogger
<1>2. CASE LogNext
  BY <1>2, SettingKeepsLogInv, MessageKeepsLogInv, LibraryKeepsLogInv DEF LogNext
<1> QED BY <1>1, <1>2

\* The program's messages have colours when they were asked for and carry the
\* ident the program gave, as ProgramsMessages says: log.c and intlog.c share
\* nothing but the connection to syslog.
THEOREM ProgramsMessagesHold == LogSpec => []ProgramsMessages
<1>1. LogInv => ProgramsMessages
  BY DEF LogInv, ProgramsMessages
<1> QED BY InitLogInv, NextKeepsLogInv, <1>1, PTL DEF LogSpec

-----------------------------------------------------------------------------
(* How the library heeds the environment *)

LEMMA LeastOf ==
  ASSUME NEW S \in SUBSET Nat, S # {}
  PROVE  \E x \in S : \A y \in S : x <= y
<1> DEFINE R == OpToRel(<, Nat)
<1>1. IsWellFoundedOn(R, Nat)
  BY NatLessThanWellFounded
<1>2. R = {ss \in Nat \X Nat : ss[1] < ss[2]}
  BY DEF OpToRel
<1> HIDE DEF R
<1>3. PICK x \in S : \A y \in S : ~(<<y, x>> \in R)
  BY <1>1, WFMin
<1>4. \A y \in S : ~(y < x)
  BY <1>2, <1>3
<1> QED BY <1>3, <1>4

\* What the loop over the tokens computes, token by token.
Loop(after, tokens, count) ==
  after = [k \in 0 .. count |->
             IF k = 0 THEN [lvl |-> LOG_ERR, map |-> <<>>] ELSE Heed(after[k - 1], tokens[k])]

LEMMA LoopExists ==
  ASSUME NEW tokens, NEW count \in Nat
  PROVE  \E after : Loop(after, tokens, count)
<1> DEFINE S == {m \in Nat : ~\E after : Loop(after, tokens, m)}
<1> SUFFICES ASSUME S # {} PROVE FALSE
  OBVIOUS
<1>1. PICK m \in S : \A y \in S : m <= y
  BY LeastOf
<1>2. m \in Nat /\ ~\E after : Loop(after, tokens, m)
  BY <1>1
<1>3. CASE m = 0
  <2> DEFINE first == [lvl |-> LOG_ERR, map |-> <<>>]
             a == [k \in 0 .. 0 |-> first]
  <2>1. a = [k \in 0 .. 0 |-> IF k = 0 THEN first ELSE Heed(a[k - 1], tokens[k])]
    OBVIOUS
  <2> HIDE DEF a
  <2>2. Loop(a, tokens, 0)
    BY <2>1 DEF Loop
  <2> QED BY <1>2, <1>3, <2>2
<1>4. CASE m # 0
  <2>1. m - 1 \in Nat /\ m - 1 \notin S
    BY <1>1, <1>2, <1>4
  <2>2. PICK b : Loop(b, tokens, m - 1)
    BY <2>1
  <2> DEFINE a == [k \in 0 .. m |-> IF k = m THEN Heed(b[m - 1], tokens[m]) ELSE b[k]]
  <2>3. /\ a = [k \in 0 .. m |-> a[k]]
        /\ a[m] = Heed(b[m - 1], tokens[m]) /\ \A k \in 0 .. m - 1 : a[k] = b[k]
    BY <1>2, <1>4
  <2> HIDE DEF a
  <2>4. ASSUME NEW k \in 0 .. m
        PROVE  a[k] = IF k = 0 THEN [lvl |-> LOG_ERR, map |-> <<>>]
                      ELSE Heed(a[k - 1], tokens[k])
    <3>1. CASE k = m
      <4>1. m - 1 \in 0 .. m - 1 /\ k # 0
        BY <1>2, <1>4, <3>1
      <4> QED BY <2>3, <3>1, <4>1
    <3>2. CASE k # m
      <4>1. k \in 0 .. m - 1 /\ (k # 0 => k - 1 \in 0 .. m - 1)
        BY <1>2, <3>2
      <4>2. b[k] = IF k = 0 THEN [lvl |-> LOG_ERR, map |-> <<>>]
                   ELSE Heed(b[k - 1], tokens[k])
        BY <2>2, <4>1 DEF Loop
      <4> QED BY <2>3, <4>1, <4>2
    <3> QED BY <3>1, <3>2
  <2>5. Loop(a, tokens, m)
    BY <2>3, <2>4 DEF Loop
  <2> QED BY <1>2, <2>5
<1> QED BY <1>3, <1>4

LEMMA SettingsIs ==
  ASSUME NEW tokens, Len(tokens) \in Nat
  PROVE  \E after : Loop(after, tokens, Len(tokens)) /\ Settings(tokens) = after[Len(tokens)]
<1> DEFINE after == CHOOSE a : Loop(a, tokens, Len(tokens))
<1>1. Settings(tokens) = after[Len(tokens)]
  BY DEF Settings, Loop
<1>2. Loop(after, tokens, Len(tokens))
  BY LoopExists
<1> QED BY <1>1, <1>2

\* p is the last of the first count tokens that sets a level for f.
Sets(tokens, f, i) == tokens[i].file = f /\ tokens[i].lvl # NotANumber
LastAt(tokens, f, count, p) ==
  /\ p \in 1 .. count /\ Sets(tokens, f, p)
  /\ \A j \in p + 1 .. count : ~Sets(tokens, f, j)
NoneAt(tokens, f, count) == \A j \in 1 .. count : ~Sets(tokens, f, j)

\* What the loop has after count tokens: the last setting, where there is one.
Heeded(set, tokens, f, count) ==
  IF f = Other
    THEN /\ NoneAt(tokens, f, count) => set.lvl = LOG_ERR
         /\ \A p : LastAt(tokens, f, count, p) => set.lvl = tokens[p].lvl
    ELSE /\ NoneAt(tokens, f, count) => f \notin DOMAIN set.map
         /\ \A p : LastAt(tokens, f, count, p) =>
              f \in DOMAIN set.map /\ set.map[f] = tokens[p].lvl

IsSet(set) == set = [lvl |-> set.lvl, map |-> set.map]

\* What one more token does.
LEMMA HeedIs ==
  ASSUME NEW set, IsSet(set), NEW t
  PROVE  LET s == Heed(set, t)
         IN  /\ IsSet(s)
             /\ s.lvl = IF t.lvl # NotANumber /\ t.file = Other THEN t.lvl ELSE set.lvl
             /\ s.map = IF t.lvl # NotANumber /\ t.file # Other
                        THEN [f \in DOMAIN set.map \cup {t.file} |->
                                IF f = t.file THEN t.lvl ELSE set.map[f]]
                        ELSE set.map
<1>1. CASE t.lvl = NotANumber
  BY <1>1 DEF Heed
<1>2. CASE t.lvl # NotANumber /\ t.file = Other
  <2>1. Heed(set, t) = [set EXCEPT !.lvl = t.lvl]
    BY <1>2 DEF Heed
  <2>2. [set EXCEPT !.lvl = t.lvl] = [lvl |-> t.lvl, map |-> set.map]
    BY DEF IsSet
  <2> QED BY <1>2, <2>1, <2>2 DEF IsSet
<1>3. CASE t.lvl # NotANumber /\ t.file # Other
  <2> DEFINE m == [f \in DOMAIN set.map \cup {t.file} |->
                     IF f = t.file THEN t.lvl ELSE set.map[f]]
  <2>1. Heed(set, t) = [set EXCEPT !.map = m]
    BY <1>3 DEF Heed
  <2> HIDE DEF m
  <2>2. [set EXCEPT !.map = m] = [lvl |-> set.lvl, map |-> m]
    BY DEF IsSet
  <2>3. IsSet(Heed(set, t)) /\ Heed(set, t).lvl = set.lvl /\ Heed(set, t).map = m
    BY <2>1, <2>2 DEF IsSet
  <2> QED BY <1>3, <2>3 DEF m
<1> QED BY <1>1, <1>2, <1>3

LEMMA HeedKeeps ==
  ASSUME NEW tokens, NEW f, NEW count \in Nat \ {0}, NEW set, IsSet(set),
         Heeded(set, tokens, f, count - 1)
  PROVE  IsSet(Heed(set, tokens[count])) /\ Heeded(Heed(set, tokens[count]), tokens, f, count)
<1> DEFINE t == tokens[count]
           s == Heed(set, t)
<1>1. /\ IsSet(s)
      /\ s.lvl = IF t.lvl # NotANumber /\ t.file = Other THEN t.lvl ELSE set.lvl
      /\ s.map = IF t.lvl # NotANumber /\ t.file # Other
                 THEN [g \in DOMAIN set.map \cup {t.file} |->
                         IF g = t.file THEN t.lvl ELSE set.map[g]]
                 ELSE set.map
  BY HeedIs
<1> HIDE DEF s
<1>2. CASE Sets(tokens, f, count)
  <2>1. ~NoneAt(tokens, f, count)
    BY <1>2 DEF NoneAt
  <2>2. ASSUME NEW p, LastAt(tokens, f, count, p) PROVE p = count
    BY <1>2, <2>2 DEF LastAt
  <2>3. t.file = f /\ t.lvl # NotANumber
    BY <1>2 DEF Sets
  <2>4. CASE f = Other
    <3>1. s.lvl = t.lvl
      BY <1>1, <2>3, <2>4
    <3> QED BY <1>1, <2>1, <2>2, <2>4, <3>1 DEF Heeded, s
  <2>5. CASE f # Other
    <3>1. f \in DOMAIN s.map /\ s.map[f] = t.lvl
      BY <1>1, <2>3, <2>5
    <3> QED BY <1>1, <2>1, <2>2, <2>5, <3>1 DEF Heeded, s
  <2> QED BY <2>4, <2>5
<1>3. CASE ~Sets(tokens, f, count)
  <2>1. NoneAt(tokens, f, count) => NoneAt(tokens, f, count - 1)
    BY DEF NoneAt
  <2>2. ASSUME NEW p, LastAt(tokens, f, count, p) PROVE LastAt(tokens, f, count - 1, p)
    <3>1. p # count /\ p \in 1 .. count /\ \A j \in p + 1 .. count : ~Sets(tokens, f, j)
      BY <1>3, <2>2 DEF LastAt
    <3>2. p \in 1 .. count - 1 /\ \A j \in p + 1 .. count - 1 : j \in p + 1 .. count
      BY <3>1
    <3> QED BY <2>2, <3>1, <3>2 DEF LastAt
  <2>3. ~(t.file = f /\ t.lvl # NotANumber)
    BY <1>3 DEF Sets
  <2>4. CASE f = Other
    <3>1. s.lvl = set.lvl
      BY <1>1, <2>3, <2>4
    <3> QED BY <1>1, <2>1, <2>2, <2>4, <3>1 DEF Heeded, s
  <2>5. CASE f # Other
    <3>1. (f \in DOMAIN s.map <=> f \in DOMAIN set.map)
          /\ (f \in DOMAIN set.map => s.map[f] = set.map[f])
      BY <1>1, <2>3
    <3> QED BY <1>1, <2>1, <2>2, <2>5, <3>1 DEF Heeded, s
  <2> QED BY <2>4, <2>5
<1> QED BY <1>2, <1>3

\* After all tokens the last setting counts.
LEMMA LastCounts ==
  ASSUME NEW tokens, Len(tokens) \in Nat, NEW f
  PROVE  Heeded(Settings(tokens), tokens, f, Len(tokens))
<1> DEFINE count == Len(tokens)
<1>1. PICK after : Loop(after, tokens, count) /\ Settings(tokens) = after[count]
  BY SettingsIs
<1> DEFINE S == {m \in Nat : m <= count /\ ~(IsSet(after[m]) /\ Heeded(after[m], tokens, f, m))}
<1>2. S = {}
  <2> SUFFICES ASSUME S # {} PROVE FALSE
    OBVIOUS
  <2>1. PICK m \in S : \A y \in S : m <= y
    BY LeastOf
  <2>2. m \in Nat /\ m <= count /\ ~(IsSet(after[m]) /\ Heeded(after[m], tokens, f, m))
    BY <2>1
  <2>3. after[m] = IF m = 0 THEN [lvl |-> LOG_ERR, map |-> <<>>]
                   ELSE Heed(after[m - 1], tokens[m])
    BY <1>1, <2>2 DEF Loop
  <2>4. CASE m = 0
    <3>1. after[m] = [lvl |-> LOG_ERR, map |-> <<>>]
      BY <2>3, <2>4
    <3>2. after[m].lvl = LOG_ERR /\ after[m].map = <<>> /\ IsSet(after[m])
      BY <3>1 DEF IsSet
    <3>3. DOMAIN <<>> = {}
      OBVIOUS
    <3>4. \A p : ~LastAt(tokens, f, m, p)
      BY <2>4 DEF LastAt
    <3> QED BY <2>2, <3>2, <3>3, <3>4 DEF Heeded
  <2>5. CASE m # 0
    <3>1. m - 1 \in Nat /\ m - 1 <= count /\ m - 1 \notin S /\ m \in Nat \ {0}
      BY <2>1, <2>2, <2>5
    <3>2. IsSet(after[m - 1]) /\ Heeded(after[m - 1], tokens, f, m - 1)
      BY <3>1
    <3>3. IsSet(after[m]) /\ Heeded(after[m], tokens, f, m)
      BY <2>3, <2>5, <3>1, <3>2, HeedKeeps
    <3> QED BY <2>2, <3>3
  <2> QED BY <2>4, <2>5
<1>3. count \in Nat /\ count \notin S
  BY <1>2
<1> QED BY <1>1, <1>3

LEMMA LastSetIs ==
  ASSUME NEW tokens, Len(tokens) \in Nat, NEW f, NEW otherwise
  PROVE  /\ NoneAt(tokens, f, Len(tokens)) => LastSet(tokens, f, otherwise) = otherwise
         /\ \A p : LastAt(tokens, f, Len(tokens), p) =>
                     LastSet(tokens, f, otherwise) = tokens[p].lvl
<1> DEFINE count == Len(tokens)
           I == {i \in 1 .. count : tokens[i].file = f /\ tokens[i].lvl # NotANumber}
           found == IF I # {} THEN Max(I) ELSE 0
<1>1. SelectLastInSeq(tokens, LAMBDA t : t.file = f /\ t.lvl # NotANumber) = found
  BY DEF SelectLastInSeq
<1>2. LastSet(tokens, f, otherwise) = IF found = 0 THEN otherwise ELSE tokens[found].lvl
  BY <1>1 DEF LastSet
<1>3. ASSUME NoneAt(tokens, f, count) PROVE found = 0
  BY <1>3 DEF NoneAt, Sets
<1>4. ASSUME NEW p, LastAt(tokens, f, count, p) PROVE found = p /\ found # 0
  <2>1. p \in I /\ \A j \in I : p >= j
    <3>1. p \in 1 .. count /\ tokens[p].file = f /\ tokens[p].lvl # NotANumber
      BY <1>4 DEF LastAt, Sets
    <3>2. ASSUME NEW j \in I, ~(p >= j) PROVE FALSE
      <4>1. j \in p + 1 .. count
        BY <3>1, <3>2
      <4> QED BY <1>4, <3>2, <4>1 DEF LastAt, Sets
    <3> QED BY <3>1, <3>2
  <2>2. Max(I) \in I /\ \A j \in I : Max(I) >= j
    <3> HIDE DEF I
    <3>1. \E x \in I : \A j \in I : x >= j
      BY <2>1
    <3> QED BY <3>1 DEF Max
  <2>3. PICK m \in I : m = Max(I) /\ \A j \in I : m >= j
    BY <2>2
  <2>4. m = p /\ p \in 1 .. count
    BY <2>1, <2>3
  <2>5. found = m
    BY <2>3
  <2> HIDE DEF found
  <2> QED BY <2>4, <2>5
<1> QED BY <1>2, <1>3, <1>4

LEMMA NoneOrLast ==
  ASSUME NEW tokens, NEW f, NEW count \in Nat
  PROVE  NoneAt(tokens, f, count) \/ \E p : LastAt(tokens, f, count, p)
<1> SUFFICES ASSUME ~NoneAt(tokens, f, count) PROVE \E p : LastAt(tokens, f, count, p)
  OBVIOUS
<1> DEFINE S == {k \in Nat : \E p \in 1 .. count : k = count - p /\ Sets(tokens, f, p)}
<1>1. S # {}
  <2>1. PICK p \in 1 .. count : Sets(tokens, f, p)
    BY DEF NoneAt
  <2>2. count - p \in Nat
    OBVIOUS
  <2> QED BY <2>1, <2>2
<1>2. PICK k \in S : \A y \in S : k <= y
  BY <1>1, LeastOf
<1>3. PICK p \in 1 .. count : k = count - p /\ Sets(tokens, f, p)
  BY <1>2
<1>4. ASSUME NEW j \in p + 1 .. count, Sets(tokens, f, j) PROVE FALSE
  <2>1. j \in 1 .. count /\ count - j \in Nat /\ count - j < k
    BY <1>3
  <2>2. count - j \in S
    BY <1>4, <2>1
  <2> QED BY <1>2, <2>1, <2>2
<1> QED BY <1>3, <1>4 DEF LastAt

\* The environment's settings are what intlog.c goes by, once it has any.
KnowsSettings ==
  /\ env \in Environment
  /\ lib.lvl # Unset =>
       lib.lvl = Settings(env.tokens).lvl /\ lvlmap = Settings(env.tokens).map

\* The threshold for a file's messages, from the settings.
LEMMA ThresholdIs ==
  ASSUME NEW e \in Environment, NEW f \in File, NEW log, NEW map,
         log.lvl = Settings(e.tokens).lvl, map = Settings(e.tokens).map
  PROVE  /\ Threshold(log, map, f) = LastSet(e.tokens, f, LastSet(e.tokens, Other, LOG_ERR))
         /\ Threshold(log, map, f) \in Int
<1> DEFINE ts == e.tokens
           count == Len(ts)
           set == Settings(ts)
           default == LastSet(ts, Other, LOG_ERR)
<1>1. /\ ts \in Seq([file : File \cup {Other}, lvl : Int \cup {NotANumber}])
      /\ count \in Nat /\ LOG_ERR \in Int /\ f # Other
  <2>1. ts \in Seq([file : File \cup {Other}, lvl : Int \cup {NotANumber}])
    BY EnvironmentAssumption
  <2>2. count \in Nat
    BY <2>1, LenProperties
  <2>3. LOG_ERR \in Int /\ f # Other
    BY LevelAssumption, FileAssumption
  <2> QED BY <2>1, <2>2, <2>3
<1>2. ASSUME NEW g, NEW p, LastAt(ts, g, count, p) PROVE ts[p].lvl \in Int
  <2>1. p \in 1 .. count /\ ts[p].lvl # NotANumber
    BY <1>2 DEF LastAt, Sets
  <2>2. ts[p] \in [file : File \cup {Other}, lvl : Int \cup {NotANumber}]
    BY <1>1, <2>1, ElementOfSeq
  <2> QED BY <2>1, <2>2
<1>3. Heeded(set, ts, f, count) /\ Heeded(set, ts, Other, count)
  BY <1>1, LastCounts
<1>4. set.lvl = default /\ set.lvl \in Int
  <2>1. CASE NoneAt(ts, Other, count)
    BY <1>1, <1>3, <2>1, LastSetIs DEF Heeded
  <2>2. ASSUME NEW p, LastAt(ts, Other, count, p) PROVE set.lvl = default /\ set.lvl \in Int
    BY <1>1, <1>2, <1>3, <2>2, LastSetIs DEF Heeded
  <2> QED BY <1>1, <2>1, <2>2, NoneOrLast
<1> HIDE DEF default, set
<1>5. log.lvl = set.lvl /\ map = set.map
  BY DEF set
<1>6. CASE NoneAt(ts, f, count)
  <2>1. f \notin DOMAIN map /\ LastSet(ts, f, default) = default
    BY <1>1, <1>3, <1>5, <1>6, LastSetIs DEF Heeded
  <2> QED BY <1>4, <1>5, <2>1 DEF Threshold, default
<1>7. ASSUME NEW p, LastAt(ts, f, count, p)
      PROVE  /\ Threshold(log, map, f) = LastSet(ts, f, default)
             /\ Threshold(log, map, f) \in Int
  <2>1. f \in DOMAIN map /\ map[f] = ts[p].lvl /\ LastSet(ts, f, default) = ts[p].lvl
    BY <1>1, <1>3, <1>5, <1>7, LastSetIs DEF Heeded
  <2>2. ts[p].lvl \in Int
    BY <1>2, <1>7
  <2> QED BY <2>1, <2>2 DEF Threshold
<1>8. Threshold(log, map, f) = LastSet(ts, f, default) /\ Threshold(log, map, f) \in Int
  BY <1>1, <1>6, <1>7, NoneOrLast DEF default
<1> QED BY <1>8 DEF default

\* bsnslog_init() leaves the level the environment sets.
LEMMA SetUpLevel ==
  ASSUME IsLogger(lib)
  PROVE  SetUp.lvl = Settings(env.tokens).lvl
<1> DEFINE v == Settings(env.tokens).lvl
           level == [lib EXCEPT !.lvl = v]
           target == IF env.syslog THEN Syslog(level) ELSE Stderr(level)
<1>1. "lvl" \in DOMAIN lib
  BY DEF IsLogger
<1> HIDE DEF v
<1>2. level.lvl = v /\ DOMAIN level = DOMAIN lib
  BY <1>1
<1> HIDE DEF level
<1>3. target.lvl = v /\ DOMAIN target = DOMAIN lib
  BY <1>1, <1>2 DEF Syslog, Stderr
<1>4. SetUp = SetFancy(target, env.fancy)
  BY DEF SetUp, level, v
<1> HIDE DEF target
<1>5. SetFancy(target, env.fancy).lvl = v
  BY <1>1, <1>3 DEF SetFancy
<1> QED BY <1>4, <1>5 DEF v

\* After a message of the library, the settings are those of the environment.
LEMMA LibraryKnows ==
  ASSUME KnowsSettings, IsLogger(lib), NEW lvl \in Level, NEW f \in File, bsnslog_log(lvl, f)
  PROVE  /\ lib'.lvl = Settings(env.tokens).lvl /\ lvlmap' = Settings(env.tokens).map
         /\ KnowsSettings'
<1>1. /\ lib' = IF lib.lvl = Unset THEN SetUp ELSE lib
      /\ lvlmap' = IF lib.lvl = Unset THEN Settings(env.tokens).map ELSE lvlmap
      /\ env' = env
  BY DEF bsnslog_log
<1>2. lib'.lvl = Settings(env.tokens).lvl /\ lvlmap' = Settings(env.tokens).map
  BY <1>1, SetUpLevel DEF KnowsSettings
<1> QED BY <1>1, <1>2 DEF KnowsSettings

LEMMA StepKnows ==
  ASSUME KnowsSettings, IsLogger(lib), [LogNext]_logvars
  PROVE  KnowsSettings'
<1>1. CASE \E lvl \in Level, f \in File : bsnslog_log(lvl, f)
  BY <1>1, LibraryKnows
<1>2. CASE UNCHANGED <<env, lib, lvlmap>>
  BY <1>2 DEF KnowsSettings
<1>3. ASSUME NEW id \in Ident, log_syslog(id) PROVE UNCHANGED <<env, lib, lvlmap>>
  BY <1>3 DEF log_syslog
<1>4. log_stderr => UNCHANGED <<env, lib, lvlmap>>
  BY DEF log_stderr
<1>5. ASSUME NEW fancy \in BOOLEAN, log_setfancy(fancy) PROVE UNCHANGED <<env, lib, lvlmap>>
  BY <1>5 DEF log_setfancy
<1>6. ASSUME NEW lvl \in Level, log_setlvl(lvl) \/ log_log(lvl)
      PROVE  UNCHANGED <<env, lib, lvlmap>>
  BY <1>6 DEF log_setlvl, log_log
<1>7. CASE UNCHANGED logvars
  BY <1>2, <1>7 DEF logvars
<1> QED BY <1>1, <1>2, <1>3, <1>4, <1>5, <1>6, <1>7 DEF LogNext

Decides ==
  \A lvl \in Level, f \in File :
    bsnslog_log(lvl, f) =>
      (said'.by = "lib") =
        (lvl <= LastSet(env.tokens, f, LastSet(env.tokens, Other, LOG_ERR)))

LEMMA MessageDecided ==
  ASSUME KnowsSettings, IsLogger(lib)
  PROVE  Decides
<1> SUFFICES ASSUME NEW lvl \in Level, NEW f \in File, bsnslog_log(lvl, f)
             PROVE  (said'.by = "lib") =
                      (lvl <= LastSet(env.tokens, f, LastSet(env.tokens, Other, LOG_ERR)))
  BY DEF Decides
<1> DEFINE bound == LastSet(env.tokens, f, LastSet(env.tokens, Other, LOG_ERR))
<1>1. lib'.lvl = Settings(env.tokens).lvl /\ lvlmap' = Settings(env.tokens).map
  BY LibraryKnows
<1>2. Threshold(lib', lvlmap', f) = bound /\ Threshold(lib', lvlmap', f) \in Int
  BY <1>1, ThresholdIs DEF KnowsSettings
<1> HIDE DEF bound
<1>3. lvl \in Int /\ bound \in Int
  BY <1>2, LevelAssumption
<1>4. \/ lvl > bound /\ said' = Silent
      \/ ~(lvl > bound) /\ \E cn : Emit("lib", lib', cn)
  BY <1>2 DEF bsnslog_log
<1>5. CASE lvl > bound /\ said' = Silent
  <2>1. (said'.by = "lib") = FALSE
    BY <1>5 DEF Silent
  <2>2. (lvl <= bound) = FALSE
    BY <1>3, <1>5
  <2> QED BY <2>1, <2>2 DEF bound
<1>6. CASE ~(lvl > bound) /\ \E cn : Emit("lib", lib', cn)
  <2>1. (said'.by = "lib") = TRUE
    <3>1. PICK cn : Emit("lib", lib', cn)
      BY <1>6
    <3>2. said'.by = "lib"
      BY <3>1 DEF Emit
    <3> QED BY <3>2
  <2>2. (lvl <= bound) = TRUE
    BY <1>3, <1>6
  <2> QED BY <2>1, <2>2 DEF bound
<1> QED BY <1>4, <1>5, <1>6

\* Which of the library's messages are written is what LIBSRSBSNS_DEBUG says:
\* its last setting for the message's file, else its last number, else LOG_ERR,
\* from the message on that makes bsnslog_log() read it, whatever level it sets.
THEOREM EnvironmentIsHeeded == LogSpec => EnvironmentDecides
<1>1. LogInit => KnowsSettings
  BY DEF LogInit, KnowsSettings
<1>2. LogInv => IsLogger(lib)
  BY DEF LogInv, LogTypeOK
<1>3. KnowsSettings /\ LogInv /\ [LogNext]_logvars => KnowsSettings'
  BY <1>2, StepKnows
<1>4. KnowsSettings /\ LogInv => Decides
  BY <1>2, MessageDecided
<1> QED BY InitLogInv, NextKeepsLogInv, <1>1, <1>3, <1>4, PTL DEF LogSpec, EnvironmentDecides, Decides

=============================================================================
