----------------------------- MODULE BufrdProofs ------------------------------
(***************************************************************************)
(* Proofs about Bufrd, for every set of bytes, every size of the buffers   *)
(* and every bound: bufrd_getline() keeps lines apart and within their     *)
(* buffer, and the reader is an ordered stream with one byte of pushback.  *)
(***************************************************************************)
EXTENDS Bufrd, SequenceTheorems, TLAPS

USE NewlineAssumption, ReadSizeAssumption, RequestsAssumption,
    LineSizesAssumption, NoneAssumption

\* No more is stored of a line than was consumed: without it, the stored bytes
\* could agree with the line as far as it goes and still be too many.
IInv == LineFits /\ Len(dest) <= Len(line)

-----------------------------------------------------------------------------
(* Sequences *)

\* The two parts of a sequence are where its cut says.
LEMMA CutInTwo ==
  ASSUME NEW S, NEW s \in Seq(S), NEW t \in Seq(S), Len(s) >= 1
  PROVE  /\ Len(s) \in 1 .. Len(s \o t)
         /\ s = SubSeq(s \o t, 1, Len(s))
         /\ t = SubSeq(s \o t, Len(s) + 1, Len(s \o t))
<1>1. /\ Len(s) \in Nat /\ Len(t) \in Nat
      /\ s \o t \in Seq(S) /\ Len(s \o t) = Len(s) + Len(t)
  BY ConcatProperties, LenProperties
<1>2. SubSeq(s \o t, 1, Len(s)) = SubSeq(s, 1, Len(s))
  BY <1>1, SubSeqOfConcat1
<1>3. SubSeq(s, 1, Len(s)) = s
  BY SubSeqFull
<1>4. t = SubSeq(s \o t, Len(s) + 1, Len(s \o t))
  <2>1. CASE Len(t) = 0
    <3>1. t = <<>>
      BY <2>1, EmptySeq, SeqEqual
    <3>2. SubSeq(s \o t, Len(s) + 1, Len(s \o t)) = <<>>
      BY <1>1, <2>1, SubSeqEmpty
    <3> QED BY <3>1, <3>2
  <2>2. CASE Len(t) >= 1
    <3>1. SubSeq(s \o t, Len(s) + 1, Len(s \o t)) = SubSeq(t, 1, Len(t))
      BY <1>1, <2>2, SubSeqOfConcat2
    <3> QED BY <3>1, SubSeqFull
  <2> QED BY <1>1, <2>1, <2>2
<1> QED BY <1>1, <1>2, <1>3, <1>4

\* A sequence is its first k elements and the others.
LEMMA Parts ==
  ASSUME NEW S, NEW s \in Seq(S), NEW k \in 0 .. Len(s)
  PROVE  /\ SubSeq(s, 1, k) \in Seq(S) /\ Len(SubSeq(s, 1, k)) = k
         /\ SubSeq(s, k + 1, Len(s)) \in Seq(S)
         /\ SubSeq(s, 1, k) \o SubSeq(s, k + 1, Len(s)) = s
<1>1. Len(s) \in Nat /\ \A i \in 1 .. Len(s) : s[i] \in S
  BY LenProperties, ElementOfSeq
<1>2. SubSeq(s, 1, k) \in Seq(S) /\ Len(SubSeq(s, 1, k)) = k
  BY <1>1, SubSeqProperties
<1>3. SubSeq(s, k + 1, Len(s)) \in Seq(S)
  BY <1>1, SubSeqProperties
<1>4. SubSeq(s, 1, k) \o SubSeq(s, k + 1, Len(s)) = SubSeq(s, 1, Len(s))
  <2>1. 1 \in 1 .. Len(s) + 1 /\ k \in 1 - 1 .. Len(s) /\ Len(s) \in k .. Len(s)
    BY <1>1
  <2> QED BY <2>1, ConcatAdjacentSubSeq
<1> QED BY <1>2, <1>3, <1>4, SubSeqFull

\* What follows the first k elements of s \o t, for a k that reaches into t.
LEMMA RestOfConcat ==
  ASSUME NEW S, NEW s \in Seq(S), NEW t \in Seq(S), NEW k \in Len(s) .. Len(s \o t)
  PROVE  SubSeq(t, k - Len(s) + 1, Len(t)) = SubSeq(s \o t, k + 1, Len(s \o t))
<1> DEFINE p == Len(s)
           m == Len(t)
<1>1. p \in Nat /\ m \in Nat /\ Len(s \o t) = p + m /\ s \o t \in Seq(S)
  BY ConcatProperties, LenProperties
<1>2. CASE k = p + m
  <2>1. SubSeq(t, k - p + 1, m) = <<>>
    <3>1. k - p + 1 = m + 1
      BY <1>1, <1>2
    <3>2. SubSeq(t, m + 1, m) = <<>>
      BY <1>1, SubSeqEmpty
    <3> QED BY <3>1, <3>2
  <2>2. SubSeq(s \o t, p + m + 1, p + m) = <<>>
    <3>1. p + m + 1 > p + m /\ p + m + 1 \in Int /\ p + m \in Int
      BY <1>1
    <3> QED BY <1>1, <3>1, SubSeqEmpty
  <2> QED BY <1>1, <1>2, <2>1, <2>2
<1>3. CASE k < p + m
  <2> HIDE DEF p, m
  <2>1. /\ k + 1 \in p + 1 .. p + m
        /\ p + m \in p + 1 .. p + m
        /\ (k + 1) - p = k - p + 1
        /\ (p + m) - p = m
    BY <1>1, <1>3 DEF p
  <2>2. \A i, j \in p + 1 .. p + m :
          SubSeq(s \o t, i, j) = SubSeq(t, i - p, j - p)
    BY SubSeqOfConcat2, ConcatProperties DEF p, m
  <2>3. SubSeq(s \o t, k + 1, p + m) = SubSeq(t, (k + 1) - p, (p + m) - p)
    BY <2>1, <2>2
  <2>4. SubSeq(s \o t, k + 1, p + m) = SubSeq(t, k - p + 1, m)
    BY <2>1, <2>3
  <2> QED BY <1>1, <2>4 DEF p, m
<1> QED BY <1>1, <1>2, <1>3

LEMMA NotEmpty ==
  ASSUME NEW S, NEW s \in Seq(S)
  PROVE  Len(s) \in Nat /\ ((s = <<>>) <=> (Len(s) = 0))
BY LenProperties, EmptySeq, SeqEqual

-----------------------------------------------------------------------------
(* What a read delivers *)

LEMMA PushedIsSeq ==
  ASSUME TypeOK
  PROVE  /\ Pushed \in Seq(Byte) /\ Len(Pushed) \in {0, 1}
         /\ (unget = None) <=> (Pushed = <<>>)
         /\ Buffered <=> (Pushed # <<>> \/ q # <<>>)
BY DEF TypeOK, Pushed, Buffered

\* What bufrd_read() delivers, followed by what it leaves, is what there was.
LEMMA DeliverKeeps ==
  ASSUME TypeOK, NEW n \in Nat \ {0}, NEW s \in Seq(Byte),
         Pushed # <<>> \/ s # <<>>, Deliver(n, s)
  PROVE  /\ out' \in Seq(Byte) /\ q' \in Seq(Byte) /\ Pushed' = <<>>
         /\ unget' \in Byte \cup {None}
         /\ Len(out') \in 1 .. n
         /\ out' \o q' = Pushed \o s
<1> DEFINE all == Pushed \o s
           k == Lesser(n, Len(all))
<1>1. /\ all \in Seq(Byte) /\ Len(all) = Len(Pushed) + Len(s)
      /\ Len(Pushed) \in {0, 1} /\ Len(s) \in Nat /\ Pushed \in Seq(Byte)
  BY PushedIsSeq, ConcatProperties, LenProperties
<1>2. Len(all) > 0
  BY <1>1, NotEmpty
<1>3. k \in 1 .. n /\ k \in 1 .. Len(all)
  BY <1>1, <1>2 DEF Lesser
<1>4. /\ out' = SubSeq(all, 1, k) /\ q' = SubSeq(s, k - Len(Pushed) + 1, Len(s))
      /\ unget' = None
  BY DEF Deliver
<1>5. Pushed' = <<>>
  BY <1>4 DEF Pushed
<1> HIDE DEF k
<1>6. SubSeq(s, k - Len(Pushed) + 1, Len(s)) = SubSeq(all, k + 1, Len(all))
  <2>1. k \in Len(Pushed) .. Len(all)
    <3>1. Len(Pushed) = 0 \/ Len(Pushed) = 1
      BY <1>1
    <3>2. k \in 1 .. Len(all) /\ Len(all) \in Nat
      BY <1>1, <1>3
    <3>3. 1 .. Len(all) \subseteq 0 .. Len(all)
      BY <3>2
    <3> QED BY <3>1, <3>2, <3>3
  <2>2. \A j \in Len(Pushed) .. Len(Pushed \o s) :
          SubSeq(s, j - Len(Pushed) + 1, Len(s)) = SubSeq(Pushed \o s, j + 1, Len(Pushed \o s))
    <3>1. Pushed \in Seq(Byte)
      BY <1>1
    <3> QED BY <3>1, RestOfConcat
  <2> QED BY <2>1, <2>2
<1> HIDE DEF all
<1>7. /\ out' \in Seq(Byte) /\ Len(out') = k /\ q' \in Seq(Byte) /\ out' \o q' = all
  <2>1. out' = SubSeq(all, 1, k) /\ q' = SubSeq(all, k + 1, Len(all))
    BY <1>4, <1>6
  <2>2. k \in 0 .. Len(all)
    BY <1>1, <1>3
  <2> QED BY <1>1, <2>1, <2>2, Parts
<1>8. unget' \in Byte \cup {None}
  BY <1>4
<1> QED BY <1>3, <1>5, <1>7, <1>8 DEF all

Rest == Pushed \o q \o wire

\* One step of bufrd_read(): the beginning of the stream is delivered, whether
\* it was pushed back, queued or still to be read, or nothing happens.
Delivered(n) ==
  /\ out' \in Seq(Byte) /\ Len(out') \in 1 .. n
  /\ out' \o Rest' = Rest

Kept == /\ wire' \in Seq(Byte) /\ q' \in Seq(Byte) /\ unget' \in Byte \cup {None}
        /\ out' \in Seq(Byte)

LEMMA ReadBufferedDelivers ==
  ASSUME TypeOK, NEW n \in Nat, ReadBuffered(n)
  PROVE  Kept /\ Delivered(n)
<1>1. /\ wire \in Seq(Byte) /\ q \in Seq(Byte) /\ wire' = wire /\ n \in Nat \ {0}
      /\ Deliver(n, q) /\ Pushed \in Seq(Byte) /\ (Pushed # <<>> \/ q # <<>>)
  BY PushedIsSeq DEF TypeOK, ReadBuffered
<1>2. /\ out' \in Seq(Byte) /\ q' \in Seq(Byte) /\ Pushed' = <<>>
      /\ unget' \in Byte \cup {None} /\ Len(out') \in 1 .. n
      /\ out' \o q' = Pushed \o q
  BY <1>1, DeliverKeeps
<1>3. Rest' = q' \o wire
  BY <1>1, <1>2, ConcatEmptySeq DEF Rest
<1>4. out' \o (q' \o wire) = (Pushed \o q) \o wire
  <2>1. out' \in Seq(Byte) /\ q' \in Seq(Byte) /\ wire \in Seq(Byte)
    BY <1>1, <1>2
  <2>2. out' \o (q' \o wire) = (out' \o q') \o wire
    BY <2>1, ConcatAssociative
  <2> QED BY <1>2, <2>2
<1> QED BY <1>1, <1>2, <1>3, <1>4 DEF Rest, Kept, Delivered

LEMMA ReadThroughDelivers ==
  ASSUME TypeOK, NEW n \in Nat, ReadThrough(n)
  PROVE  Kept /\ Delivered(n)
<1>1. /\ wire \in Seq(Byte) /\ q = <<>> /\ Pushed = <<>> /\ n \in Nat \ {0}
      /\ Len(wire) \in Nat
  BY PushedIsSeq, LenProperties DEF TypeOK, ReadThrough
<1>2. PICK r \in Received : Deliver(n, QueuedAfter(r)) /\ wire' = SubSeq(wire, r + 1, Len(wire))
  BY DEF ReadThrough
<1>3. r \in 1 .. Len(wire)
  BY <1>1 DEF Received, Lesser
<1> DEFINE s == SubSeq(wire, 1, r)
<1>4. s \in Seq(Byte) /\ Len(s) = r /\ wire' \in Seq(Byte) /\ s \o wire' = wire
  BY <1>1, <1>2, <1>3, Parts
<1>5. s # <<>>
  <2>1. s \in Seq(Byte) /\ Len(s) # 0
    BY <1>3, <1>4
  <2> HIDE DEF s
  <2> QED BY <2>1, NotEmpty
<1>6. QueuedAfter(r) = s
  BY <1>1, <1>4, ConcatEmptySeq DEF QueuedAfter
<1> HIDE DEF s
<1>7. /\ out' \in Seq(Byte) /\ q' \in Seq(Byte) /\ Pushed' = <<>>
      /\ unget' \in Byte \cup {None} /\ Len(out') \in 1 .. n
      /\ out' \o q' = <<>> \o s
  BY <1>1, <1>2, <1>4, <1>5, <1>6, DeliverKeeps
<1>8. out' \o q' = s
  BY <1>4, <1>7, ConcatEmptySeq
<1>9. Rest' = q' \o wire'
  BY <1>4, <1>7, ConcatEmptySeq DEF Rest
<1>10. out' \o (q' \o wire') = s \o wire'
  <2>1. out' \in Seq(Byte) /\ q' \in Seq(Byte) /\ wire' \in Seq(Byte)
    BY <1>4, <1>7
  <2>2. out' \o (q' \o wire') = (out' \o q') \o wire'
    BY <2>1, ConcatAssociative
  <2> QED BY <1>8, <2>2
<1>11. Rest = wire
  BY <1>1, ConcatEmptySeq, EmptySeq DEF Rest
<1> QED BY <1>4, <1>7, <1>9, <1>10, <1>11 DEF Kept, Delivered

Unread == out' = <<>> /\ UNCHANGED <<wire, q, unget>>

LEMMA ReadStepDelivers ==
  ASSUME TypeOK, NEW n \in Nat, ReadStep(n)
  PROVE  Kept /\ (Delivered(n) \/ Unread)
<1>1. CASE ReadBuffered(n)
  BY <1>1, ReadBufferedDelivers
<1>2. CASE ReadThrough(n)
  BY <1>2, ReadThroughDelivers
<1>3. CASE (AtEOF(n) \/ Failed(n)) /\ UNCHANGED <<wire, q, unget>>
  BY <1>3, EmptySeq DEF AtEOF, Failed, Kept, Unread, TypeOK
<1> QED BY <1>1, <1>2, <1>3 DEF ReadStep

LEMMA GetCharStepDelivers ==
  ASSUME TypeOK, GetCharStep
  PROVE  Kept /\ eof' \in BOOLEAN /\ (Delivered(1) \/ Unread)
<1>1. CASE (ReadBuffered(1) \/ ReadThrough(1)) /\ UNCHANGED eof
  <2>1. ReadStep(1) /\ ~Unread
    BY <1>1, ReadBufferedDelivers, ReadThroughDelivers, EmptySeq DEF ReadStep, Unread, Delivered
  <2> QED BY <1>1, <2>1, ReadStepDelivers DEF TypeOK
<1>2. CASE /\ AtEOF(1) \/ Failed(1)
           /\ eof' \in BOOLEAN
           /\ UNCHANGED <<wire, q, unget>>
  BY <1>2, EmptySeq DEF AtEOF, Failed, Kept, Unread, TypeOK
<1> QED BY <1>1, <1>2 DEF GetCharStep, EofAfter

-----------------------------------------------------------------------------
(* Lines *)

\* After every call but bufrd_getline() there is no line.
LEMMA NoLineIInv ==
  ASSUME TypeOK, Kept, NoLine, pc' = "idle", eof' \in BOOLEAN
  PROVE  IInv'
BY EmptySeq DEF NoLine, Kept, IInv, LineFits, LineStopsAtNewline, TypeOK

LEMMA ReadIInv ==
  ASSUME IInv, NEW n \in Requests, Read(n)
  PROVE  IInv'
<1>1. TypeOK /\ n \in Nat
  BY DEF IInv, LineFits
<1>2. Kept
  BY <1>1, ReadStepDelivers DEF Read
<1> QED BY <1>1, <1>2, NoLineIInv DEF Read, TypeOK

LEMMA GetCharIInv ==
  ASSUME IInv, GetChar
  PROVE  IInv'
<1>1. TypeOK
  BY DEF IInv, LineFits
<1>2. Kept /\ eof' \in BOOLEAN
  BY <1>1, GetCharStepDelivers DEF GetChar
<1> QED BY <1>1, <1>2, NoLineIInv DEF GetChar

LEMMA UngetCharIInv ==
  ASSUME IInv, NEW c \in Byte \cup {None}, UngetChar(c)
  PROVE  IInv'
<1>1. TypeOK
  BY DEF IInv, LineFits
<1>2. Kept
  BY <1>1 DEF UngetChar, Kept, TypeOK
<1> QED BY <1>1, <1>2, NoLineIInv DEF UngetChar, TypeOK

LEMMA ArriveIInv ==
  ASSUME IInv, NEW b \in Byte, Arrive(b)
  PROVE  IInv'
<1>1. wire' \in Seq(Byte) /\ UNCHANGED <<q, unget, eof, out, pc, destsz, dest, line>>
  BY AppendProperties DEF IInv, LineFits, TypeOK, Arrive, reader, getline
<1> QED BY <1>1 DEF IInv, LineFits, LineStopsAtNewline, TypeOK

LEMMA GetLineCallIInv ==
  ASSUME IInv, NEW sz \in LineSizes, GetLineCall(sz)
  PROVE  IInv'
<1>1. /\ pc' = "line" /\ destsz' = sz /\ dest' = <<>> /\ line' = <<>>
      /\ sz \in Nat \ {0}
      /\ UNCHANGED <<wire, q, unget, eof, out>>
  BY DEF GetLineCall, reader
<1>2. /\ <<>> \in Seq(Byte) /\ Len(<<>>) = 0 /\ DOMAIN <<>> = {}
      /\ <<>> = SubSeq(<<>>, 1, 0)
  BY EmptySeq, SubSeqEmpty
<1> QED BY <1>1, <1>2 DEF IInv, LineFits, LineStopsAtNewline, TypeOK

\* A byte is added to the line, and stored while there is room for it and for
\* the final NUL.
LEMMA GetLineStepIInv ==
  ASSUME IInv, GetLineStep
  PROVE  IInv'
<1>1. /\ TypeOK /\ pc = "line" /\ destsz \in Nat \ {0}
      /\ dest \in Seq(Byte) /\ line \in Seq(Byte)
      /\ Len(dest) \in Nat /\ Len(line) \in Nat /\ Len(dest) <= Len(line)
      /\ dest = SubSeq(line, 1, Len(dest))
      /\ destsz > 1 => dest = line
  BY LenProperties DEF IInv, LineFits, TypeOK, GetLineStep
<1>2. \A i \in 1 .. Len(line) : line[i] # Newline
  BY <1>1, LenProperties DEF IInv, LineFits, LineStopsAtNewline
<1>3. Kept /\ eof' \in BOOLEAN /\ (Delivered(1) \/ Unread)
  BY <1>1, GetCharStepDelivers DEF GetLineStep
<1>4. CASE out' = <<>>
  <2>1. pc' = "idle" /\ UNCHANGED <<destsz, dest, line>>
    BY <1>4 DEF GetLineStep
  <2> QED BY <1>1, <1>3, <2>1 DEF Kept, IInv, LineFits, LineStopsAtNewline, TypeOK
<1>5. CASE out' # <<>>
  <2>1. out' \in Seq(Byte) /\ Len(out') = 1
    BY <1>3, <1>5 DEF Delivered, Unread
  <2>2. line' = line \o out' /\ pc' = IF EndsLine(out'[1]) THEN "idle" ELSE "line"
    BY <1>5 DEF GetLineStep
  <2>3. /\ line' \in Seq(Byte) /\ Len(line') = Len(line) + 1
        /\ \A i \in 1 .. Len(line) : line'[i] = line[i]
        /\ line'[Len(line) + 1] = out'[1]
    <3>1. /\ line' \in Seq(Byte) /\ Len(line') = Len(line) + Len(out')
          /\ \A i \in 1 .. Len(line) + Len(out') :
               line'[i] = IF i <= Len(line) THEN line[i] ELSE out'[i - Len(line)]
      <4>1. line \in Seq(Byte) /\ out' \in Seq(Byte) /\ line' = line \o out'
        BY <1>1, <2>1, <2>2
      <4> QED BY <4>1, ConcatProperties
    <3>2. Len(line) + 1 \in 1 .. Len(line) + Len(out') /\ (Len(line) + 1) - Len(line) = 1
      BY <1>1, <2>1
    <3> QED BY <1>1, <2>1, <3>1, <3>2
  <2>4. LineStopsAtNewline'
    <3>1. \A i \in 1 .. Len(line') - 1 : line'[i] # Newline
      BY <1>1, <1>2, <2>3
    <3>2. pc' = "line" => out'[1] # Newline
      BY <2>2 DEF EndsLine
    <3>3. DOMAIN line' = 1 .. Len(line) + 1
      BY <2>3, LenProperties
    <3>4. pc' = "line" => \A i \in DOMAIN line' : line'[i] # Newline
      BY <1>1, <1>2, <2>3, <3>2, <3>3
    <3> QED BY <3>1, <3>4 DEF LineStopsAtNewline
  <2>5. /\ dest' \in Seq(Byte) /\ destsz' \in Nat \ {0} /\ Len(dest') <= Len(line')
        /\ dest' = SubSeq(line', 1, Len(dest'))
        /\ destsz' > 1 => dest' = line'
    <3>1. CASE Fits
      <4>1. dest' = line' /\ destsz' = destsz - 1 /\ destsz > 1
        BY <1>1, <1>5, <2>2, <3>1 DEF GetLineStep, Fits
      <4> QED BY <1>1, <2>3, <4>1, SubSeqFull
    <3>2. CASE ~Fits
      <4>1. UNCHANGED <<dest, destsz>> /\ destsz = 1
        BY <1>1, <1>5, <3>2 DEF GetLineStep, Fits
      <4>2. SubSeq(line', 1, Len(dest)) = SubSeq(line, 1, Len(dest))
        <5>1. CASE Len(dest) = 0
          BY <1>1, <5>1, SubSeqEmpty
        <5>2. CASE Len(dest) > 0
          <6>1. 1 \in 1 .. Len(line) /\ Len(dest) \in 1 .. Len(line)
            BY <1>1, <5>2
          <6> QED BY <1>1, <2>1, <2>2, <6>1, SubSeqOfConcat1
        <5> QED BY <1>1, <5>1, <5>2
      <4> QED BY <1>1, <2>3, <4>1, <4>2
    <3> QED BY <3>1, <3>2
  <2>6. TypeOK'
    BY <1>1, <1>3, <2>2, <2>3, <2>5 DEF Kept, TypeOK
  <2> QED BY <2>4, <2>5, <2>6 DEF IInv, LineFits
<1> QED BY <1>4, <1>5

LEMMA InitIInv == Init => IInv
<1> SUFFICES ASSUME Init PROVE IInv
  OBVIOUS
<1>1. <<>> \in Seq(Byte) /\ Len(<<>>) = 0
  BY EmptySeq
<1>2. TypeOK
  BY <1>1 DEF Init, TypeOK
<1> QED BY <1>1, <1>2 DEF Init, IInv, LineFits, LineStopsAtNewline

LEMMA NextIInv == IInv /\ [Next]_vars => IInv'
<1> SUFFICES ASSUME IInv, [Next]_vars PROVE IInv'
  OBVIOUS
<1>1. CASE UNCHANGED vars
  BY <1>1 DEF vars, reader, getline, IInv, LineFits, LineStopsAtNewline, TypeOK
<1> QED
  BY <1>1, ReadIInv, GetCharIInv, UngetCharIInv, ArriveIInv, GetLineCallIInv, GetLineStepIInv
     DEF Next, Consuming, Producing

\* A line is consumed up to its newline and no further, its beginning is
\* stored, all of it while there is room, and the final NUL has its place, for
\* every size of the caller's buffer.
THEOREM LinesFit == Spec => []LineFits
<1>1. IInv => LineFits
  BY DEF IInv
<1> QED BY InitIInv, NextIInv, <1>1, PTL DEF Spec

-----------------------------------------------------------------------------
(* The stream *)

\* What is delivered is the beginning of what was to be delivered.
LEMMA DeliveredIsTaken ==
  ASSUME NEW n, Rest' \in Seq(Byte), Delivered(n)
  PROVE  \E k \in 1 .. Len(Rest) : Stream!Take(k)
<1>1. out' \in Seq(Byte) /\ Len(out') >= 1 /\ Rest = out' \o Rest'
  BY LenProperties DEF Delivered
<1>2. /\ Len(out') \in 1 .. Len(Rest)
      /\ out' = SubSeq(Rest, 1, Len(out'))
      /\ Rest' = SubSeq(Rest, Len(out') + 1, Len(Rest))
  BY <1>1, CutInTwo
<1>3. Stream!Take(Len(out'))
  BY <1>2 DEF Stream!Take, Rest
<1> QED BY <1>2, <1>3

LEMMA UnreadFails ==
  ASSUME Unread
  PROVE  Stream!Fail
BY DEF Unread, Stream!Fail, Pushed

LEMMA RestIsSeq == TypeOK => Rest \in Seq(Byte)
BY PushedIsSeq, ConcatProperties DEF TypeOK, Rest

LEMMA ArriveRefines ==
  ASSUME TypeOK, NEW b \in Byte, Arrive(b)
  PROVE  Stream!Arrive(b)
<1>1. /\ wire' = Append(wire, b) /\ q' = q /\ Pushed' = Pushed /\ out' = out
  BY DEF Arrive, reader, Pushed
<1>2. Pushed \o q \in Seq(Byte) /\ wire \in Seq(Byte) /\ <<b>> \in Seq(Byte)
  BY PushedIsSeq, ConcatProperties DEF TypeOK
<1>3. (Pushed \o q) \o (wire \o <<b>>) = Rest \o <<b>>
  BY <1>2, ConcatAssociative DEF Rest
<1>4. Append(wire, b) = wire \o <<b>> /\ Append(Rest, b) = Rest \o <<b>>
  BY <1>2, RestIsSeq, AppendIsConcat
<1>5. Rest' = Append(Rest, b)
  BY <1>1, <1>3, <1>4 DEF Rest
<1> QED BY <1>1, <1>5 DEF Stream!Arrive, Rest

\* A second byte pushed back, and the end of file pushed back, change nothing.
LEMMA UngetCharRefines ==
  ASSUME TypeOK, NEW c \in Byte \cup {None}, UngetChar(c)
  PROVE  (\E b \in Byte : Stream!PushBack(b)) \/ UNCHANGED Stream!svars
<1>1. UNCHANGED <<wire, q, out>> /\ unget' = IF unget = None THEN c ELSE unget
  BY DEF UngetChar
<1>2. CASE unget # None \/ c = None
  <2>1. Pushed' = Pushed
    BY <1>1, <1>2 DEF Pushed
  <2> QED BY <1>1, <2>1 DEF Stream!svars
<1>3. CASE unget = None /\ c # None
  <2>1. Pushed = <<>> /\ Pushed' = <<c>> /\ c \in Byte
    BY <1>1, <1>3 DEF Pushed
  <2>2. <<c>> \in Seq(Byte) /\ q \in Seq(Byte) /\ wire \in Seq(Byte)
    BY <2>1 DEF TypeOK
  <2>3. Rest = q \o wire
    BY <2>1, <2>2, ConcatEmptySeq DEF Rest
  <2>4. Rest' = (<<c>> \o q) \o wire
    BY <1>1, <2>1 DEF Rest
  <2>5. (<<c>> \o q) \o wire = <<c>> \o (q \o wire)
    BY <2>2, ConcatAssociative
  <2>6. Rest' = <<c>> \o Rest
    BY <2>3, <2>4, <2>5
  <2>7. Stream!PushBack(c)
    BY <1>1, <2>6 DEF Stream!PushBack, Rest
  <2> QED BY <2>1, <2>7
<1> QED BY <1>2, <1>3

\* Reads of any size, single characters, pushed back ones and lines take the
\* bytes in the order in which they arrived, each once, wherever they wait.
THEOREM BufrdIsByteStream == Spec => ImplementsByteStream
<1>1. Init => Stream!SInit
  <2> SUFFICES ASSUME Init PROVE Stream!SInit
    OBVIOUS
  <2>1. Pushed = <<>> /\ q = <<>> /\ wire = <<>> /\ out = <<>>
    BY DEF Init, Pushed
  <2> QED BY <2>1, EmptySeq, ConcatEmptySeq DEF Stream!SInit
<1>2. IInv /\ IInv' /\ [Next]_vars => [Stream!SNext]_(Stream!svars)
  <2> SUFFICES ASSUME IInv, IInv', [Next]_vars PROVE [Stream!SNext]_(Stream!svars)
    OBVIOUS
  <2>1. TypeOK
    BY DEF IInv, LineFits
  <2>2. Rest' \in Seq(Byte)
    <3>1. TypeOK'
      BY DEF IInv, LineFits
    <3>2. (Rest \in Seq(Byte))'
      BY <3>1, RestIsSeq, PTL
    <3> QED BY <3>2
  <2>3. ASSUME NEW n \in Nat, Delivered(n) \/ Unread PROVE Stream!SNext
    BY <2>2, <2>3, DeliveredIsTaken, UnreadFails DEF Stream!SNext, Rest
  <2>4. ASSUME NEW n \in Requests, Read(n) PROVE Stream!SNext
    BY <2>1, <2>3, <2>4, ReadStepDelivers DEF Read
  <2>5. CASE GetChar \/ GetLineStep
    BY <2>1, <2>3, <2>5, GetCharStepDelivers DEF GetChar, GetLineStep
  <2>6. ASSUME NEW b \in Byte, Arrive(b) PROVE Stream!SNext
    BY <2>1, <2>6, ArriveRefines DEF Stream!SNext
  <2>7. ASSUME NEW c \in Byte \cup {None}, UngetChar(c)
        PROVE  [Stream!SNext]_(Stream!svars)
    BY <2>1, <2>7, UngetCharRefines DEF Stream!SNext
  <2>8. ASSUME NEW sz \in LineSizes, GetLineCall(sz) PROVE UNCHANGED Stream!svars
    BY <2>8 DEF GetLineCall, reader, Stream!svars, Pushed
  <2>9. CASE UNCHANGED vars
    BY <2>9 DEF vars, reader, Stream!svars, Pushed
  <2> QED
    BY <2>4, <2>5, <2>6, <2>7, <2>8, <2>9 DEF Next, Consuming, Producing
<1> QED
  BY InitIInv, NextIInv, <1>1, <1>2, PTL DEF Spec, ImplementsByteStream, Stream!SSpec

=============================================================================
