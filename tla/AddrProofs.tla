------------------------------ MODULE AddrProofs ------------------------------
(***************************************************************************)
(* Proofs about addr.c, for every finite set of descriptors, length of the *)
(* address list, timeout and bound on the clock's steps: what io_select()  *)
(* reports is so (IoSelect); addr_mksocket() loses no socket, the one it   *)
(* returns can be used, and its waits exceed the timeouts by no more than  *)
(* the clock moved meanwhile (Mksocket); and all of it holds of a program  *)
(* that prepares hostspecs between its sockets (Addr).  Before it, for all *)
(* texts and sizes of buffers: hostspecs are understood (Hostspec).        *)
(***************************************************************************)
EXTENDS Addr, SequenceTheorems, FiniteSetTheorems, WellFoundedInduction, TLAPS

-----------------------------------------------------------------------------
(* Hostspecs: a text and its parts, character by character *)

Char == {"[", "]", ":"} \cup UNION {Range(s) : s \in Name \cup Addr6 \cup Service}

\* The characters of a text are among those of hosts, services and the marks.
LEMMA TextIs ==
  ASSUME NEW s \in Name \cup Addr6 \cup Service
  PROVE  s \in Seq(Char) /\ Len(s) \in Nat
<1>1. s \in Seq(Range(s)) /\ Range(s) \subseteq Char
  BY TextAssumption DEF Char
<1>2. Len(s) \in Nat /\ s \in [1 .. Len(s) -> Range(s)]
  BY <1>1, LenProperties
<1>3. s \in [1 .. Len(s) -> Char]
  BY <1>1, <1>2
<1> QED BY <1>2, <1>3, SeqDef

LEMMA OneIs ==
  ASSUME NEW S, NEW x \in S
  PROVE  <<x>> \in Seq(S) /\ Len(<<x>>) = 1 /\ <<x>>[1] = x
<1>1. <<x>> = [i \in 1 .. 1 |-> x]
  OBVIOUS
<1>2. [i \in 1 .. 1 |-> x] \in [1 .. 1 -> S]
  OBVIOUS
<1>3. \A T, m : m \in Nat => [1 .. m -> T] \subseteq Seq(T)
  BY SeqDef
<1> QED BY <1>1, <1>2, <1>3

\* Two strings have the same characters at two stretches.
Alike(t, a, u, b, len) == \A j \in 0 .. len - 1 : t[a + j] = u[b + j]
Cut(s, a, b) == SubSeq(s, a, b)

LEMMA SameStretch ==
  ASSUME NEW t \in Seq(Char), NEW u \in Seq(Char),
         NEW a \in Nat \ {0}, NEW b \in Nat \ {0}, NEW len \in Nat,
         NEW a2 \in Int, NEW b2 \in Int, a2 = a + len - 1, b2 = b + len - 1,
         a2 <= Len(t), b2 <= Len(u), Alike(t, a, u, b, len)
  PROVE  Cut(t, a, a2) = Cut(u, b, b2)
<1>1. /\ Len(t) \in Nat /\ \A j \in 1 .. Len(t) : t[j] \in Char
      /\ Len(u) \in Nat /\ \A j \in 1 .. Len(u) : u[j] \in Char
  BY LenProperties, ElementOfSeq
<1>2. /\ \A j \in a .. a2 : t[j] \in Char
      /\ \A j \in b .. b2 : u[j] \in Char
  BY <1>1
<1> DEFINE x == SubSeq(t, a, a2)
           y == SubSeq(u, b, b2)
<1>3. /\ x \in Seq(Char)
      /\ Len(x) = IF a <= a2 THEN a2 - a + 1 ELSE 0
      /\ \A j \in 1 .. a2 - a + 1 : x[j] = t[a + j - 1]
  BY <1>2, SubSeqProperties
<1>4. /\ y \in Seq(Char)
      /\ Len(y) = IF b <= b2 THEN b2 - b + 1 ELSE 0
      /\ \A j \in 1 .. b2 - b + 1 : y[j] = u[b + j - 1]
  BY <1>2, SubSeqProperties
<1> HIDE DEF x, y
<1>5. Len(x) = len /\ Len(y) = len
  BY <1>3, <1>4
<1>6. ASSUME NEW j \in 1 .. len PROVE x[j] = y[j]
  <2>1. j - 1 \in 0 .. len - 1 /\ a + (j - 1) = a + j - 1 /\ b + (j - 1) = b + j - 1
    OBVIOUS
  <2>2. x[j] = t[a + j - 1] /\ y[j] = u[b + j - 1]
    BY <1>3, <1>4
  <2> QED BY <2>1, <2>2 DEF Alike
<1>7. x = y
  BY <1>3, <1>4, <1>5, <1>6, SeqEqual
<1> QED BY <1>7 DEF x, y, Cut

\* A string that is the whole of another's stretch.
LEMMA WholeStretch ==
  ASSUME NEW t \in Seq(Char), NEW u \in Seq(Char), NEW a \in Nat \ {0},
         a + Len(u) <= Len(t) + 1,
         \A j \in 1 .. Len(u) : t[a + j - 1] = u[j]
  PROVE  SubSeq(t, a, a + Len(u) - 1) = u
<1>1. Len(u) \in Nat
  BY LenProperties
<1>2. \A j \in 0 .. Len(u) - 1 : t[a + j] = u[1 + j]
  <2> SUFFICES ASSUME NEW j \in 0 .. Len(u) - 1 PROVE t[a + j] = u[1 + j]
    OBVIOUS
  <2>1. 1 + j \in 1 .. Len(u) /\ a + (1 + j) - 1 = a + j
    BY <1>1
  <2> QED BY <2>1
<1>3. Alike(t, a, u, 1, Len(u)) /\ Len(u) = 1 + Len(u) - 1 /\ Len(u) \in Int
  BY <1>1, <1>2 DEF Alike
<1> DEFINE a2 == a + Len(u) - 1
<1>4. a2 \in Int /\ a2 <= Len(t)
  BY <1>1, LenProperties
<1>5. SubSeq(t, a, a2) = SubSeq(u, 1, Len(u))
  <2>1. Cut(t, a, a2) = Cut(u, 1, Len(u))
    BY <1>1, <1>3, <1>4, SameStretch
  <2> QED BY <2>1 DEF Cut
<1> QED BY <1>5, SubSeqFull

\* The place strchr() finds.
LEMMA StrchrAt ==
  ASSUME NEW s, NEW c, NEW i \in Int, NEW p \in i .. Len(s), s[p] = c,
         \A j \in i .. p - 1 : s[j] # c
  PROVE  Strchr(s, c, i) = p
<1> DEFINE I == {j \in i .. Len(s) : s[j] = c}
<1>1. Strchr(s, c, i) = IF I # {} THEN Min(I) ELSE 0
  BY DEF Strchr, SelectInSubSeq
<1>2. p \in I /\ p \in Int
  OBVIOUS
<1>3. \A j \in I : p <= j
  <2> SUFFICES ASSUME NEW j \in I, ~(p <= j) PROVE FALSE
    OBVIOUS
  <2>1. j \in i .. p - 1 /\ s[j] = c
    OBVIOUS
  <2> QED BY <2>1
<1>4. \A j \in I : j \in Int
  OBVIOUS
<1> HIDE DEF I
<1>5. \E q \in I : \A j \in I : q <= j
  BY <1>2, <1>3
<1>6. Min(I) \in I /\ \A j \in I : Min(I) <= j
  BY <1>5 DEF Min
<1>7. Min(I) = p
  <2>1. PICK m \in I : m = Min(I)
    BY <1>6
  <2>2. m \in Int /\ p <= m /\ m <= p
    BY <1>2, <1>3, <1>4, <1>6, <2>1
  <2> QED BY <1>2, <2>1, <2>2
<1> QED BY <1>1, <1>2, <1>7

LEMMA StrchrNone ==
  ASSUME NEW s, NEW c, NEW i, \A j \in i .. Len(s) : s[j] # c
  PROVE  Strchr(s, c, i) = 0
BY DEF Strchr, SelectInSubSeq

\* Host and service never hold a bracket, and only IPv6 addresses a colon.
LEMMA PartsHold ==
  /\ \A s \in Name \cup Addr6 \cup Service :
       \A j \in 1 .. Len(s) : s[j] # "[" /\ s[j] # "]"
  /\ \A s \in Name \cup Service : ~Contains(s, ":") /\ \A j \in 1 .. Len(s) : s[j] # ":"
  /\ \A s \in Addr6 : Contains(s, ":")
BY NamesAssumption DEF Contains

\* Where the host's part of the text ends: behind the "]", if there is one.
HostEnd(s) == IF s.host \in Addr6 THEN Len(s.host) + 1 ELSE Len(s.host)

\* What u, the text from behind a "[" on, consists of.
Shape(s, u) ==
  /\ u \in Seq(Char)
  /\ \A j \in 1 .. Len(s.host) : u[j] = s.host[j]
  /\ s.host \in Addr6 => u[Len(s.host) + 1] = "]"
  /\ Len(u) = IF s.service = <<>> THEN HostEnd(s) ELSE HostEnd(s) + 1 + Len(s.service)
  /\ s.service # <<>> =>
       /\ u[HostEnd(s) + 1] = ":"
       /\ \A j \in 1 .. Len(s.service) : u[HostEnd(s) + 1 + j] = s.service[j]

Spoken == [host : Name \cup Addr6, service : Service]

LEMMA MarkIs ==
  ASSUME NEW c \in {"[", "]", ":"}
  PROVE  <<c>> \in Seq(Char) /\ Len(<<c>>) = 1 /\ <<c>>[1] = c
<1>1. c \in Char
  BY DEF Char
<1> QED BY <1>1, OneIs

\* u is h, ":" and the service v.
WithService(u, h, v) ==
  /\ u \in Seq(Char) /\ Len(u) = Len(h) + 1 + Len(v)
  /\ \A j \in 1 .. Len(h) : u[j] = h[j]
  /\ u[Len(h) + 1] = ":"
  /\ \A j \in 1 .. Len(v) : u[Len(h) + 1 + j] = v[j]

LEMMA ServiceBehind ==
  ASSUME NEW h \in Seq(Char), NEW v \in Service
  PROVE  WithService(h \o <<":">> \o v, h, v)
<1>1. v \in Seq(Char) /\ Len(v) \in Nat /\ Len(h) \in Nat
  BY TextIs, LenProperties
<1> DEFINE g == h \o <<":">>
<1>2. <<":">> \in Seq(Char) /\ Len(<<":">>) = 1 /\ <<":">>[1] = ":"
  BY MarkIs
<1>3. /\ g \in Seq(Char) /\ Len(g) = Len(h) + 1
      /\ \A j \in 1 .. Len(h) + 1 : g[j] = IF j <= Len(h) THEN h[j] ELSE <<":">>[j - Len(h)]
  BY <1>2, ConcatProperties
<1> DEFINE u == g \o v
<1>4. /\ u \in Seq(Char) /\ Len(u) = Len(g) + Len(v)
      /\ \A j \in 1 .. Len(g) + Len(v) : u[j] = IF j <= Len(g) THEN g[j] ELSE v[j - Len(g)]
  BY <1>1, <1>3, ConcatProperties
<1>5. u = h \o <<":">> \o v
  OBVIOUS
<1> HIDE DEF g, u
<1>6. ASSUME NEW j \in 1 .. Len(h) PROVE u[j] = h[j]
  <2>1. j \in 1 .. Len(h) + 1 /\ j \in 1 .. Len(g) + Len(v) /\ j <= Len(g)
    BY <1>1, <1>3
  <2>2. u[j] = g[j] /\ g[j] = h[j]
    BY <1>3, <1>4, <2>1
  <2> QED BY <2>2
<1>7. u[Len(h) + 1] = ":"
  <2> DEFINE j == Len(h) + 1
  <2>1. j \in 1 .. Len(h) + 1 /\ j \in 1 .. Len(g) + Len(v) /\ j <= Len(g) /\ ~(j <= Len(h))
        /\ j - Len(h) = 1
    BY <1>1, <1>3
  <2> HIDE DEF j
  <2>2. u[j] = g[j]
    BY <1>4, <2>1
  <2>3. g[j] = <<":">>[1]
    BY <1>3, <2>1
  <2> QED BY <1>2, <2>2, <2>3 DEF j
<1>8. ASSUME NEW j \in 1 .. Len(v) PROVE u[Len(h) + 1 + j] = v[j]
  <2> DEFINE i == Len(h) + 1 + j
  <2>1. i \in 1 .. Len(g) + Len(v) /\ ~(i <= Len(g)) /\ i - Len(g) = j
    BY <1>1, <1>3
  <2> HIDE DEF i
  <2>2. u[i] = v[j]
    BY <1>4, <2>1
  <2> QED BY <2>2 DEF i
<1>9. Len(u) = Len(h) + 1 + Len(v)
  BY <1>3, <1>4
<1> QED BY <1>4, <1>5, <1>6, <1>7, <1>8, <1>9 DEF WithService

LEMMA SpokenIs ==
  ASSUME NEW s \in Spoken
  PROVE  /\ s.host \in Name \cup Addr6 /\ s.service \in Service
         /\ s.host \in Seq(Char) /\ Len(s.host) \in Nat
         /\ s.service \in Seq(Char) /\ Len(s.service) \in Nat
         /\ s.service = <<>> <=> Len(s.service) = 0
         /\ Contains(s.host, ":") <=> s.host \in Addr6
<1>1. s.host \in Name \cup Addr6 /\ s.service \in Service
  BY DEF Spoken
<1>2. /\ s.host \in Seq(Char) /\ Len(s.host) \in Nat
      /\ s.service \in Seq(Char) /\ Len(s.service) \in Nat
  BY <1>1, TextIs
<1>3. s.service = <<>> <=> Len(s.service) = 0
  BY <1>2, EmptySeq
<1>4. Contains(s.host, ":") <=> s.host \in Addr6
  BY <1>1, PartsHold
<1> QED BY <1>1, <1>2, <1>3, <1>4

\* A name or an IPv4 address is written without brackets.
LEMMA NameShape ==
  ASSUME NEW s \in Spoken, s.host \notin Addr6
  PROVE  Shape(s, Inner(Written(s))) /\ Inner(Written(s)) = Written(s)
<1> DEFINE h == s.host
           v == s.service
           t == Written(s)
<1>1. /\ h \in Name /\ v \in Service
      /\ h \in Seq(Char) /\ Len(h) \in Nat
      /\ v \in Seq(Char) /\ Len(v) \in Nat
      /\ v = <<>> <=> Len(v) = 0
      /\ ~Contains(h, ":")
  BY SpokenIs
<1>2. t = IF v = <<>> THEN h ELSE h \o <<":">> \o v
  BY <1>1 DEF Written
<1>3. /\ t \in Seq(Char)
      /\ Len(t) = IF v = <<>> THEN Len(h) ELSE Len(h) + 1 + Len(v)
      /\ \A j \in 1 .. Len(h) : t[j] = h[j]
      /\ v # <<>> => /\ t[Len(h) + 1] = ":"
                     /\ \A j \in 1 .. Len(v) : t[Len(h) + 1 + j] = v[j]
  <2>1. CASE v = <<>>
    BY <1>1, <1>2, <2>1
  <2>2. CASE v # <<>>
    <3>1. t = h \o <<":">> \o v
      BY <1>2, <2>2
    <3>2. WithService(t, h, v)
      BY <1>1, <3>1, ServiceBehind
    <3> QED BY <2>2, <3>2 DEF WithService
  <2> QED BY <2>1, <2>2
<1>4. h \notin Addr6
  OBVIOUS
<1>5. Shape(s, t)
  <2>1. HostEnd(s) = Len(h)
    BY <1>4 DEF HostEnd
  <2> QED BY <1>3, <1>4, <2>1 DEF Shape
<1>6. ASSUME t # <<>> PROVE Head(t) # "["
  <2>1. Len(t) \in Nat \ {0}
    BY <1>3, <1>6, EmptySeq
  <2>a. Head(t) = t[1]
    BY <1>3, <1>6, <2>1
  <2>2. CASE Len(h) = 0
    <3>1. v # <<>> /\ t[1] = ":"
      BY <1>3, <2>1, <2>2
    <3> QED BY <2>a, <3>1
  <2>3. CASE Len(h) # 0
    <3>1. 1 \in 1 .. Len(h)
      BY <1>1, <2>3
    <3>2. t[1] = h[1] /\ h[1] # "["
      BY <1>1, <1>3, <3>1, PartsHold
    <3> QED BY <2>a, <3>2
  <2> QED BY <2>2, <2>3
<1>7. Inner(t) = t
  BY <1>6 DEF Inner
<1> QED BY <1>5, <1>7

\* An IPv6 address is written in brackets, of which the first is skipped.
LEMMA SixShape ==
  ASSUME NEW s \in Spoken, s.host \in Addr6
  PROVE  /\ Shape(s, Inner(Written(s)))
         /\ Len(Inner(Written(s))) + 1 = Len(Written(s))
<1> DEFINE h == s.host
           v == s.service
           t == Written(s)
           b == <<"[">> \o h
           e == b \o <<"]">>
<1>1. /\ h \in Addr6 /\ v \in Service
      /\ h \in Seq(Char) /\ Len(h) \in Nat
      /\ v \in Seq(Char) /\ Len(v) \in Nat
      /\ v = <<>> <=> Len(v) = 0
      /\ Contains(h, ":")
  BY SpokenIs
<1>2. /\ <<"[">> \in Seq(Char) /\ Len(<<"[">>) = 1 /\ <<"[">>[1] = "["
      /\ <<"]">> \in Seq(Char) /\ Len(<<"]">>) = 1 /\ <<"]">>[1] = "]"
  BY MarkIs
<1>3. /\ b \in Seq(Char) /\ Len(b) = 1 + Len(h)
      /\ \A j \in 1 .. 1 + Len(h) : b[j] = IF j <= 1 THEN <<"[">>[j] ELSE h[j - 1]
  BY <1>1, <1>2, ConcatProperties
<1>4. /\ e \in Seq(Char) /\ Len(e) = Len(b) + 1
      /\ \A j \in 1 .. Len(b) + 1 : e[j] = IF j <= Len(b) THEN b[j] ELSE <<"]">>[j - Len(b)]
  BY <1>2, <1>3, ConcatProperties
<1>5. t = IF v = <<>> THEN e ELSE e \o <<":">> \o v
  BY <1>1 DEF Written
<1>a. Len(h) \in Nat /\ Len(v) \in Nat
  BY <1>1
<1> HIDE DEF b, e, t, h, v
<1>6. e[1] = "["
  <2>1. 1 \in 1 .. Len(b) + 1 /\ 1 \in 1 .. 1 + Len(h) /\ 1 <= Len(b)
    BY <1>1, <1>3
  <2>2. e[1] = b[1] /\ b[1] = <<"[">>[1]
    BY <1>3, <1>4, <2>1
  <2> QED BY <1>2, <2>2
<1>7. ASSUME NEW j \in 1 .. Len(h) PROVE e[j + 1] = h[j]
  <2> DEFINE i == j + 1
  <2>1. i \in 1 .. Len(b) + 1 /\ i \in 1 .. 1 + Len(h) /\ i <= Len(b) /\ ~(i <= 1) /\ i - 1 = j
    BY <1>1, <1>3
  <2> HIDE DEF i
  <2>2. e[i] = b[i] /\ b[i] = h[j]
    BY <1>3, <1>4, <2>1
  <2> QED BY <2>2 DEF i
<1>8. e[Len(h) + 2] = "]" /\ Len(e) = Len(h) + 2
  <2> DEFINE i == Len(h) + 2
  <2>1. i \in 1 .. Len(b) + 1 /\ ~(i <= Len(b)) /\ i - Len(b) = 1
    BY <1>1, <1>3
  <2> HIDE DEF i
  <2>2. e[i] = "]"
    BY <1>2, <1>4, <2>1
  <2>3. Len(e) = i
    BY <1>1, <1>3, <1>4 DEF i
  <2> QED BY <2>2, <2>3 DEF i
<1>9. /\ t \in Seq(Char)
      /\ Len(t) = IF v = <<>> THEN Len(h) + 2 ELSE Len(h) + 2 + 1 + Len(v)
      /\ \A j \in 1 .. Len(h) + 2 : t[j] = e[j]
      /\ v # <<>> => /\ t[Len(h) + 2 + 1] = ":"
                     /\ \A j \in 1 .. Len(v) : t[Len(h) + 2 + 1 + j] = v[j]
  <2>1. CASE v = <<>>
    BY <1>4, <1>5, <1>8, <2>1
  <2>2. CASE v # <<>>
    <3>1. t = e \o <<":">> \o v
      BY <1>5, <2>2
    <3>2. WithService(t, e, v)
      BY <1>1, <1>4, <3>1, ServiceBehind
    <3> QED BY <1>8, <2>2, <3>2 DEF WithService
  <2> QED BY <2>1, <2>2
<1>10. Len(t) \in Nat \ {0} /\ t # <<>>
  BY <1>a, <1>9, EmptySeq
<1>11. Head(t) = "["
  <2>1. Head(t) = t[1] /\ 1 \in 1 .. Len(h) + 2
    BY <1>a, <1>9, <1>10
  <2> QED BY <1>6, <1>9, <2>1
<1> DEFINE u == Tail(t)
<1>12. Inner(t) = u
  BY <1>10, <1>11 DEF Inner
<1>13. u \in Seq(Char) /\ Len(u) = Len(t) - 1 /\ \A j \in 1 .. Len(u) : u[j] = t[j + 1]
  BY <1>9, <1>10, HeadTailProperties
<1> HIDE DEF u
<1>14. Len(u) = IF v = <<>> THEN Len(h) + 1 ELSE Len(h) + 1 + 1 + Len(v)
  BY <1>a, <1>9, <1>13
<1>15. ASSUME NEW j \in 1 .. Len(h) PROVE u[j] = h[j]
  <2>1. j \in 1 .. Len(u) /\ j + 1 \in 1 .. Len(h) + 2
    BY <1>a, <1>14
  <2> QED BY <1>7, <1>9, <1>13, <2>1
<1>16. u[Len(h) + 1] = "]"
  <2>1. /\ Len(h) + 1 \in 1 .. Len(u) /\ Len(h) + 2 \in 1 .. Len(h) + 2
        /\ Len(h) + 1 + 1 = Len(h) + 2
    BY <1>a, <1>14
  <2> QED BY <1>8, <1>9, <1>13, <2>1
<1>17. ASSUME v # <<>> PROVE u[Len(h) + 1 + 1] = ":"
  <2>1. /\ Len(h) + 1 + 1 \in 1 .. Len(u)
        /\ Len(h) + 1 + 1 + 1 = Len(h) + 2 + 1
    BY <1>a, <1>14, <1>17
  <2> QED BY <1>9, <1>13, <1>17, <2>1
<1>18. ASSUME v # <<>>, NEW j \in 1 .. Len(v) PROVE u[Len(h) + 1 + 1 + j] = v[j]
  <2>1. /\ Len(h) + 1 + 1 + j \in 1 .. Len(u)
        /\ Len(h) + 1 + 1 + j + 1 = Len(h) + 2 + 1 + j
    BY <1>a, <1>14, <1>18
  <2> QED BY <1>9, <1>13, <1>18, <2>1
<1>19. HostEnd(s) = Len(h) + 1
  BY DEF HostEnd, h
<1>20. Shape(s, u)
  <2>1. v # <<>> => u[Len(h) + 1 + 1] = ":" /\ \A j \in 1 .. Len(v) : u[Len(h) + 1 + 1 + j] = v[j]
    BY <1>17, <1>18
  <2>2. \A j \in 1 .. Len(h) : u[j] = h[j]
    BY <1>15
  <2> QED BY <1>13, <1>14, <1>16, <1>19, <2>1, <2>2 DEF Shape, h, v
<1>21. Len(u) + 1 = Len(t)
  BY <1>10, <1>13
<1> QED BY <1>12, <1>20, <1>21 DEF t

\* How much of u strNcpy() copies into a buffer.
Fits(u, size) == IF Len(u) < size THEN Len(u) ELSE size - 1

LEMMA CopyIs ==
  ASSUME NEW u \in Seq(Char), NEW size \in Nat \ {0}
  PROVE  /\ Fits(u, size) \in 0 .. Len(u)
         /\ StrNcpy(u, size) = SubSeq(u, 1, Fits(u, size))
         /\ StrNcpy(u, size) \in Seq(Char) /\ Len(StrNcpy(u, size)) = Fits(u, size)
         /\ \A j \in 1 .. Fits(u, size) : StrNcpy(u, size)[j] = u[j]
<1> DEFINE n == Fits(u, size)
<1>1. Len(u) \in Nat /\ \A j \in 1 .. Len(u) : u[j] \in Char
  BY LenProperties, ElementOfSeq
<1>2. n \in 0 .. Len(u)
  BY <1>1 DEF Fits
<1>3. StrNcpy(u, size) = SubSeq(u, 1, n)
  BY DEF StrNcpy, Fits
<1> HIDE DEF n
<1>4. \A j \in 1 .. n : u[j] \in Char
  BY <1>1, <1>2
<1> DEFINE c == SubSeq(u, 1, n)
<1>5. /\ c \in Seq(Char)
      /\ Len(c) = IF 1 <= n THEN n - 1 + 1 ELSE 0
      /\ \A j \in 1 .. n - 1 + 1 : c[j] = u[1 + j - 1]
  BY <1>2, <1>4, SubSeqProperties
<1> HIDE DEF c
<1>6. Len(c) = n
  BY <1>2, <1>5
<1>7. ASSUME NEW j \in 1 .. n PROVE c[j] = u[j]
  <2>1. j \in 1 .. n - 1 + 1 /\ 1 + j - 1 = j
    BY <1>2
  <2> QED BY <1>5, <2>1
<1> QED BY <1>2, <1>3, <1>5, <1>6, <1>7 DEF c, n

\* A copy is a beginning, and all of what fits.
LEMMA CopyIsPrefix ==
  ASSUME NEW u \in Seq(Char), NEW size \in Nat \ {0}
  PROVE  /\ IsPrefix(StrNcpy(u, size), u)
         /\ Len(u) < size => StrNcpy(u, size) = u
<1> DEFINE n == Fits(u, size)
           c == StrNcpy(u, size)
<1>1. n \in 0 .. Len(u) /\ c = SubSeq(u, 1, n) /\ c \in Seq(Char) /\ Len(c) = n
  BY CopyIs
<1>2. Len(u) < size => n = Len(u)
  BY DEF Fits
<1> HIDE DEF n, c
<1>3. SubSeq(c, 1, Len(c)) = c /\ SubSeq(u, 1, Len(u)) = u
  BY <1>1, SubSeqFull
<1>4. IsPrefix(c, u)
  BY <1>1, <1>3, LenProperties DEF IsPrefix
<1> QED BY <1>1, <1>2, <1>3, <1>4 DEF c

LEMMA EmptyIsPrefix ==
  ASSUME NEW u \in Seq(Char)
  PROVE  IsPrefix(<<>>, u) /\ \A size \in Nat \ {0} : StrNcpy(<<>>, size) = <<>>
<1>1. Len(<<>>) = 0 /\ Len(u) \in Nat
  BY EmptySeq, LenProperties
<1>2. SubSeq(<<>>, 1, 0) = <<>> /\ SubSeq(u, 1, 0) = <<>>
  BY SubSeqEmpty
<1>3. IsPrefix(<<>>, u)
  BY <1>1, <1>2 DEF IsPrefix
<1>4. ASSUME NEW size \in Nat \ {0} PROVE StrNcpy(<<>>, size) = <<>>
  <2>1. Len(<<>>) < size
    BY <1>1
  <2> QED BY <1>1, <1>2, <2>1 DEF StrNcpy
<1> QED BY <1>3, <1>4

\* A beginning of the copy.
LEMMA BeginIs ==
  ASSUME NEW c \in Seq(Char), NEW h \in Seq(Char), NEW k \in 0 .. Len(h),
         k <= Len(c), \A j \in 1 .. k : c[j] = h[j]
  PROVE  SubSeq(c, 1, k) = SubSeq(h, 1, k) /\ IsPrefix(SubSeq(c, 1, k), h)
<1>1. Len(h) \in Nat /\ Len(c) \in Nat
  BY LenProperties
<1>2. k \in Nat /\ k <= Len(c) /\ k <= Len(h) /\ k = 1 + k - 1
  BY <1>1
<1>3. \A j \in 0 .. k - 1 : c[1 + j] = h[1 + j]
  <2> SUFFICES ASSUME NEW j \in 0 .. k - 1 PROVE c[1 + j] = h[1 + j]
    OBVIOUS
  <2>1. 1 + j \in 1 .. k
    BY <1>2
  <2> QED BY <2>1
<1>4. Alike(c, 1, h, 1, k)
  BY <1>3 DEF Alike
<1>5. SubSeq(c, 1, k) = SubSeq(h, 1, k)
  <2>1. Cut(c, 1, k) = Cut(h, 1, k)
    BY <1>2, <1>4, SameStretch
  <2> QED BY <2>1 DEF Cut
<1>6. Len(SubSeq(h, 1, k)) = k
  <2>1. \A j \in 1 .. k : h[j] \in Char
    BY <1>1, ElementOfSeq
  <2>2. Len(SubSeq(h, 1, k)) = IF 1 <= k THEN k - 1 + 1 ELSE 0
    BY <1>2, <2>1, SubSeqProperties
  <2> QED BY <1>2, <2>2
<1>7. SubSeq(SubSeq(h, 1, k), 1, k) = SubSeq(h, 1, k)
  <2>1. \A j \in 1 .. k : h[j] \in Char
    BY <1>1, ElementOfSeq
  <2>2. SubSeq(h, 1, k) \in Seq(Char)
    BY <1>2, <2>1, SubSeqProperties
  <2> QED BY <1>6, <2>2, SubSeqFull
<1> QED BY <1>2, <1>5, <1>6, <1>7 DEF IsPrefix

LEMMA CopyOfCopyIsPrefix ==
  ASSUME NEW v \in Seq(Char), NEW m \in 0 .. Len(v), NEW size \in Nat \ {0}
  PROVE  IsPrefix(StrNcpy(SubSeq(v, 1, m), size), v)
<1> DEFINE w == SubSeq(v, 1, m)
<1>1. Len(v) \in Nat /\ \A j \in 1 .. m : v[j] \in Char
  BY LenProperties, ElementOfSeq
<1>2. /\ w \in Seq(Char)
      /\ Len(w) = IF 1 <= m THEN m - 1 + 1 ELSE 0
      /\ \A j \in 1 .. m - 1 + 1 : w[j] = v[1 + j - 1]
  BY <1>1, SubSeqProperties
<1> HIDE DEF w
<1>3. Len(w) = m
  BY <1>1, <1>2
<1> DEFINE k == Fits(w, size)
<1>4. k \in 0 .. Len(w) /\ StrNcpy(w, size) = SubSeq(w, 1, k)
  BY <1>2, CopyIs
<1> HIDE DEF k
<1>5. \A j \in 1 .. k : w[j] = v[j]
  <2> SUFFICES ASSUME NEW j \in 1 .. k PROVE w[j] = v[j]
    OBVIOUS
  <2>1. j \in 1 .. m - 1 + 1 /\ 1 + j - 1 = j
    BY <1>1, <1>3, <1>4
  <2> QED BY <1>2, <2>1
<1>6. k \in 0 .. Len(v) /\ k <= Len(w)
  BY <1>1, <1>3, <1>4
<1>7. IsPrefix(SubSeq(w, 1, k), v)
  BY <1>2, <1>5, <1>6, BeginIs
<1> QED BY <1>4, <1>7 DEF w

LEMMA ParsedIs ==
  ASSUME NEW text, NEW hostSz, NEW serviceSz, NEW c, NEW close, NEW colon,
         c = StrNcpy(Inner(text), hostSz),
         close = Strchr(c, "]", 1), colon = Strchr(c, ":", close + 1)
  PROVE  LET r == Parsed(text, hostSz, serviceSz)
         IN  /\ r.host = SubSeq(c, 1, (IF close > 0 THEN close
                                       ELSE IF colon > 0 THEN colon ELSE Len(c) + 1) - 1)
             /\ r.service = IF colon = 0 \/ serviceSz = 0 THEN <<>>
                            ELSE StrNcpy(SubSeq(c, colon + 1, Len(c)), serviceSz)
BY DEF Parsed

\* What is read behind the ":" that follows the host.
LEMMA BehindColon ==
  ASSUME NEW s \in Spoken, NEW u, Shape(s, u), NEW c \in Seq(Char), s.service # <<>>,
         Len(c) \in HostEnd(s) + 1 .. Len(u), \A j \in 1 .. Len(c) : c[j] = u[j]
  PROVE  /\ Len(c) - HostEnd(s) - 1 \in 0 .. Len(s.service)
         /\ SubSeq(c, HostEnd(s) + 2, Len(c)) = SubSeq(s.service, 1, Len(c) - HostEnd(s) - 1)
<1> DEFINE v == s.service
           e == HostEnd(s)
           n == Len(c)
           m == n - e - 1
<1>1. v \in Seq(Char) /\ Len(v) \in Nat /\ e \in Nat
  BY SpokenIs DEF HostEnd
<1>2. /\ Len(u) = e + 1 + Len(v)
      /\ \A j \in 1 .. Len(v) : u[e + 1 + j] = v[j]
  BY DEF Shape
<1>3. n \in e + 1 .. Len(u) /\ \A j \in 1 .. n : c[j] = u[j]
  OBVIOUS
<1> HIDE DEF v, e, n
<1>4. m \in 0 .. Len(v) /\ n \in Nat
  BY <1>1, <1>2, <1>3
<1>5. \A j \in 0 .. m - 1 : c[e + 2 + j] = v[1 + j]
  <2> SUFFICES ASSUME NEW j \in 0 .. m - 1 PROVE c[e + 2 + j] = v[1 + j]
    OBVIOUS
  <2>1. 1 + j \in 1 .. Len(v) /\ e + 2 + j \in 1 .. n /\ e + 2 + j = e + 1 + (1 + j)
    BY <1>1, <1>3, <1>4
  <2> QED BY <1>2, <1>3, <2>1
<1>6. Alike(c, e + 2, v, 1, m)
  BY <1>5 DEF Alike
<1>7. /\ e + 2 \in Nat \ {0} /\ m \in Nat /\ m \in Int /\ n \in Int
      /\ n = (e + 2) + m - 1 /\ m = 1 + m - 1 /\ m <= Len(v)
  BY <1>1, <1>3, <1>4
<1> HIDE DEF m
<1>8. SubSeq(c, e + 2, n) = SubSeq(v, 1, m)
  <2>1. n <= Len(c)
    BY <1>7 DEF n
  <2>2. Cut(c, e + 2, n) = Cut(v, 1, m)
    BY <1>1, <1>6, <1>7, <2>1, SameStretch
  <2> QED BY <2>2 DEF Cut
<1> QED BY <1>4, <1>8 DEF m, n, e, v

\* Names and IPv4 addresses: a beginning of both parts, and the parts themselves
\* when the copy was whole.
LEMMA NameParsed ==
  ASSUME NEW s \in Spoken, s.host \notin Addr6,
         NEW hostSz \in Nat \ {0}, NEW serviceSz \in Nat
  PROVE  LET r == Parsed(Written(s), hostSz, serviceSz)
         IN  /\ IsPrefix(r.host, s.host) /\ IsPrefix(r.service, s.service)
             /\ Len(Written(s)) < hostSz =>
                  r.host = s.host /\ (serviceSz > 0 => r.service = StrNcpy(s.service, serviceSz))
<1> DEFINE h == s.host
           v == s.service
           u == Inner(Written(s))
           c == StrNcpy(u, hostSz)
           n == Fits(u, hostSz)
           r == Parsed(Written(s), hostSz, serviceSz)
<1>1. /\ h \in Name /\ v \in Service
      /\ h \in Seq(Char) /\ Len(h) \in Nat
      /\ v \in Seq(Char) /\ Len(v) \in Nat
      /\ v = <<>> <=> Len(v) = 0
  BY SpokenIs
<1>2. Shape(s, u) /\ u = Written(s)
  BY NameShape
<1>3. HostEnd(s) = Len(h)
  BY DEF HostEnd
<1>4. /\ u \in Seq(Char) /\ \A j \in 1 .. Len(h) : u[j] = h[j]
      /\ Len(u) = IF v = <<>> THEN Len(h) ELSE Len(h) + 1 + Len(v)
      /\ v # <<>> => /\ u[Len(h) + 1] = ":"
                     /\ \A j \in 1 .. Len(v) : u[Len(h) + 1 + j] = v[j]
  BY <1>2, <1>3 DEF Shape
<1>5. /\ n \in 0 .. Len(u) /\ c \in Seq(Char) /\ Len(c) = n
      /\ \A j \in 1 .. n : c[j] = u[j]
  BY <1>4, CopyIs
<1>6. Len(u) < hostSz => n = Len(u)
  BY DEF Fits
<1>7. ASSUME NEW close, NEW colon, close = Strchr(c, "]", 1), colon = Strchr(c, ":", close + 1)
      PROVE  /\ r.host = SubSeq(c, 1, (IF close > 0 THEN close
                                       ELSE IF colon > 0 THEN colon ELSE Len(c) + 1) - 1)
             /\ r.service = IF colon = 0 \/ serviceSz = 0 THEN <<>>
                            ELSE StrNcpy(SubSeq(c, colon + 1, Len(c)), serviceSz)
  BY <1>7, ParsedIs
<1>8. (/\ IsPrefix(r.host, h) /\ IsPrefix(r.service, v)
       /\ Len(u) < hostSz =>
            r.host = h /\ (serviceSz > 0 => r.service = StrNcpy(v, serviceSz)))
  <2> HIDE DEF h, v, u, c, n, r
  <2>a. Len(h) \in Nat /\ Len(v) \in Nat /\ Len(u) \in Nat /\ n \in 0 .. Len(u) /\ Len(c) = n
    BY <1>1, <1>4, <1>5
  <2>1. ASSUME NEW j \in 1 .. Len(c) PROVE c[j] # "]"
    <3>1. CASE j <= Len(h)
      <4>1. j \in 1 .. Len(h) /\ j \in 1 .. n
        BY <2>a, <3>1
      <4> QED BY <1>1, <1>4, <1>5, <4>1, PartsHold
    <3>2. CASE j = Len(h) + 1
      <4>1. v # <<>> /\ j \in 1 .. n
        BY <1>4, <2>a, <3>2
      <4> QED BY <1>4, <1>5, <3>2, <4>1
    <3>3. CASE j > Len(h) + 1
      <4>1. v # <<>> /\ j \in 1 .. n
        BY <1>4, <2>a, <3>3
      <4>2. Len(u) = Len(h) + 1 + Len(v)
        BY <1>4, <4>1
      <4>3. PICK i \in 1 .. Len(v) : j = Len(h) + 1 + i
        <5>1. j - Len(h) - 1 \in 1 .. Len(v) /\ j = Len(h) + 1 + (j - Len(h) - 1)
          BY <2>a, <3>3, <4>2
        <5> QED BY <5>1
      <4>4. c[j] = v[i]
        BY <1>4, <1>5, <4>1, <4>3
      <4> QED BY <1>1, <4>4, PartsHold
    <3> QED BY <2>a, <3>1, <3>2, <3>3
  <2>2. Strchr(c, "]", 1) = 0
    BY <2>1, StrchrNone
  <2>3. CASE n <= Len(h)
    <3>1. \A j \in 1 .. Len(c) : c[j] = h[j] /\ j \in 1 .. Len(h)
      <4> SUFFICES ASSUME NEW j \in 1 .. Len(c) PROVE c[j] = h[j] /\ j \in 1 .. Len(h)
        OBVIOUS
      <4>1. j \in 1 .. n /\ j \in 1 .. Len(h)
        BY <2>a, <2>3
      <4> QED BY <1>4, <1>5, <4>1
    <3>2. \A j \in 0 + 1 .. Len(c) : c[j] # ":"
      BY <1>1, <3>1, PartsHold
    <3>3. Strchr(c, ":", 0 + 1) = 0
      BY <3>2, StrchrNone
    <3>4. r.host = SubSeq(c, 1, Len(c) + 1 - 1) /\ r.service = <<>>
      BY <1>7, <2>2, <3>3
    <3>5. Len(c) + 1 - 1 = n /\ n \in 0 .. Len(h) /\ n <= Len(c)
      BY <2>a, <2>3
    <3>6. r.host = SubSeq(h, 1, n) /\ IsPrefix(r.host, h)
      BY <1>1, <1>5, <2>a, <3>1, <3>4, <3>5, BeginIs
    <3>7. IsPrefix(r.service, v)
      BY <1>1, <3>4, EmptyIsPrefix
    <3>8. ASSUME Len(u) < hostSz
          PROVE  r.host = h /\ (serviceSz > 0 => r.service = StrNcpy(v, serviceSz))
      <4>1. v = <<>> /\ n = Len(h)
        BY <1>4, <1>6, <2>a, <2>3, <3>8
      <4>2. r.host = h
        BY <1>1, <3>6, <4>1, SubSeqFull
      <4>3. serviceSz > 0 => r.service = StrNcpy(v, serviceSz)
        BY <1>1, <3>4, <4>1, EmptyIsPrefix
      <4> QED BY <4>2, <4>3
    <3> QED BY <3>6, <3>7, <3>8
  <2>4. CASE n > Len(h)
    <3>1. v # <<>> /\ Len(h) + 1 \in 1 .. Len(c)
      BY <1>4, <2>a, <2>4
    <3>2. \A j \in 1 .. Len(h) : c[j] = h[j] /\ c[j] # ":"
      <4> SUFFICES ASSUME NEW j \in 1 .. Len(h) PROVE c[j] = h[j] /\ c[j] # ":"
        OBVIOUS
      <4>1. j \in 1 .. n
        BY <2>a, <2>4
      <4> QED BY <1>1, <1>4, <1>5, <4>1, PartsHold
    <3>3. c[Len(h) + 1] = ":"
      BY <1>4, <1>5, <2>a, <3>1
    <3>4. Strchr(c, ":", 0 + 1) = Len(h) + 1
      <4>1. Len(h) + 1 \in 0 + 1 .. Len(c) /\ Len(h) + 1 - 1 = Len(h) /\ 0 + 1 = 1
        BY <2>a, <3>1
      <4> QED BY <3>2, <3>3, <4>1, StrchrAt
    <3>5. /\ r.host = SubSeq(c, 1, Len(h) + 1 - 1)
          /\ r.service = IF serviceSz = 0 THEN <<>>
                         ELSE StrNcpy(SubSeq(c, Len(h) + 1 + 1, Len(c)), serviceSz)
      <4>1. Len(h) + 1 > 0 /\ Len(h) + 1 # 0
        BY <2>a
      <4> QED BY <1>7, <2>2, <3>4, <4>1
    <3>6. Len(h) + 1 - 1 = Len(h) /\ Len(h) \in 0 .. Len(h) /\ Len(h) <= Len(c)
          /\ Len(h) + 1 + 1 = Len(h) + 2
      BY <2>a, <2>4
    <3>7. SubSeq(c, 1, Len(h)) = SubSeq(h, 1, Len(h)) /\ IsPrefix(SubSeq(c, 1, Len(h)), h)
      BY <1>1, <1>5, <3>2, <3>6, BeginIs
    <3>8. r.host = h /\ IsPrefix(r.host, h)
      BY <1>1, <3>5, <3>6, <3>7, SubSeqFull
    <3> DEFINE m == Len(c) - Len(h) - 1
    <3>9. m \in 0 .. Len(v) /\ SubSeq(c, Len(h) + 2, Len(c)) = SubSeq(v, 1, m)
      <4>1. Len(c) \in HostEnd(s) + 1 .. Len(u) /\ \A j \in 1 .. Len(c) : c[j] = u[j]
        BY <1>3, <1>5, <2>a, <3>1
      <4> QED BY <1>2, <1>3, <1>5, <3>1, <4>1, BehindColon DEF v
    <3>10. m = Len(v) \/ ~(Len(u) < hostSz)
      BY <1>4, <1>6, <2>a, <3>1
    <3> HIDE DEF m
    <3>11. CASE serviceSz = 0
      <4>1. r.service = <<>> /\ IsPrefix(<<>>, v) /\ ~(serviceSz > 0)
        BY <1>1, <3>5, <3>11, EmptyIsPrefix
      <4> QED BY <3>8, <4>1
    <3>12. CASE serviceSz # 0
      <4>1. serviceSz \in Nat \ {0} /\ r.service = StrNcpy(SubSeq(v, 1, m), serviceSz)
        BY <3>5, <3>6, <3>9, <3>12
      <4>2. IsPrefix(r.service, v)
        BY <1>1, <3>9, <4>1, CopyOfCopyIsPrefix
      <4>3. Len(u) < hostSz => r.service = StrNcpy(v, serviceSz)
        BY <1>1, <3>10, <4>1, SubSeqFull
      <4> QED BY <3>8, <4>2, <4>3
    <3> QED BY <3>11, <3>12
  <2> QED BY <2>a, <2>3, <2>4
<1> QED BY <1>2, <1>8

\* IPv6 addresses, when the copy is whole.
LEMMA SixParsed ==
  ASSUME NEW s \in Spoken, s.host \in Addr6,
         NEW hostSz \in Nat \ {0}, NEW serviceSz \in Nat,
         Len(Written(s)) < hostSz
  PROVE  LET r == Parsed(Written(s), hostSz, serviceSz)
         IN  r.host = s.host /\ (serviceSz > 0 => r.service = StrNcpy(s.service, serviceSz))
<1> DEFINE h == s.host
           v == s.service
           u == Inner(Written(s))
           c == StrNcpy(u, hostSz)
           r == Parsed(Written(s), hostSz, serviceSz)
<1>1. /\ h \in Addr6 /\ v \in Service
      /\ h \in Seq(Char) /\ Len(h) \in Nat
      /\ v \in Seq(Char) /\ Len(v) \in Nat
      /\ v = <<>> <=> Len(v) = 0
  BY SpokenIs
<1>2. Shape(s, u) /\ Len(u) + 1 = Len(Written(s))
  BY SixShape
<1>3. HostEnd(s) = Len(h) + 1
  BY DEF HostEnd
<1>4. /\ u \in Seq(Char) /\ \A j \in 1 .. Len(h) : u[j] = h[j]
      /\ u[Len(h) + 1] = "]"
      /\ Len(u) = IF v = <<>> THEN Len(h) + 1 ELSE Len(h) + 1 + 1 + Len(v)
      /\ v # <<>> => u[Len(h) + 1 + 1] = ":"
  BY <1>1, <1>2, <1>3 DEF Shape
<1>5. c = u
  <2>1. Len(u) \in Nat
    BY <1>4, LenProperties
  <2>2. Len(u) < hostSz
    <3> DEFINE w == Len(Written(s))
    <3>1. Len(u) + 1 = w /\ w < hostSz
      BY <1>2
    <3> HIDE DEF w, u
    <3> QED BY <2>1, <3>1
  <2> QED BY <1>4, <2>2, CopyIsPrefix
<1>6. ASSUME NEW close, NEW colon, close = Strchr(c, "]", 1), colon = Strchr(c, ":", close + 1)
      PROVE  /\ r.host = SubSeq(c, 1, (IF close > 0 THEN close
                                       ELSE IF colon > 0 THEN colon ELSE Len(c) + 1) - 1)
             /\ r.service = IF colon = 0 \/ serviceSz = 0 THEN <<>>
                            ELSE StrNcpy(SubSeq(c, colon + 1, Len(c)), serviceSz)
  BY <1>6, ParsedIs
<1>7. r.host = h /\ (serviceSz > 0 => r.service = StrNcpy(v, serviceSz))
  <2> HIDE DEF h, v, c, u, r
  <2>a. Len(h) \in Nat /\ Len(v) \in Nat /\ Len(c) \in Nat /\ c \in Seq(Char) /\ Len(c) = Len(u)
        /\ Len(h) + 1 \in 1 .. Len(c)
    BY <1>1, <1>4, <1>5
  <2>1. \A j \in 1 .. Len(h) : c[j] = h[j] /\ c[j] # "]"
    <3> SUFFICES ASSUME NEW j \in 1 .. Len(h) PROVE c[j] = h[j] /\ c[j] # "]"
      OBVIOUS
    <3>1. h[j] # "]"
      BY <1>1, PartsHold
    <3> QED BY <1>4, <1>5, <3>1
  <2>2. Strchr(c, "]", 1) = Len(h) + 1
    <3>1. c[Len(h) + 1] = "]" /\ Len(h) + 1 - 1 = Len(h)
      BY <1>4, <1>5, <2>a
    <3> QED BY <2>1, <2>a, <3>1, StrchrAt
  <2> DEFINE colon == Strchr(c, ":", Len(h) + 1 + 1)
  <2>3. /\ r.host = SubSeq(c, 1, Len(h) + 1 - 1)
        /\ r.service = IF colon = 0 \/ serviceSz = 0 THEN <<>>
                       ELSE StrNcpy(SubSeq(c, colon + 1, Len(c)), serviceSz)
    <3>1. Len(h) + 1 > 0
      BY <2>a
    <3> QED BY <1>6, <2>2, <3>1
  <2>4. r.host = h
    <3>1. Len(h) + 1 - 1 = Len(h) /\ Len(h) \in 0 .. Len(h) /\ Len(h) <= Len(c)
      BY <2>a
    <3>2. SubSeq(c, 1, Len(h)) = SubSeq(h, 1, Len(h))
      BY <1>1, <2>1, <2>a, <3>1, BeginIs
    <3> QED BY <1>1, <2>3, <3>1, <3>2, SubSeqFull
  <2>5. ASSUME serviceSz > 0 PROVE r.service = StrNcpy(v, serviceSz)
    <3>1. serviceSz # 0 /\ serviceSz \in Nat \ {0}
      BY <2>5
    <3>2. CASE v = <<>>
      <4>1. \A j \in Len(h) + 1 + 1 .. Len(c) : c[j] # ":"
        BY <1>4, <2>a, <3>2
      <4>2. colon = 0
        BY <4>1, StrchrNone
      <4>3. StrNcpy(<<>>, serviceSz) = <<>>
        BY <1>1, <3>1, EmptyIsPrefix
      <4> QED BY <2>3, <3>2, <4>2, <4>3
    <3>3. CASE v # <<>>
      <4>1. /\ Len(h) + 1 + 1 \in Len(h) + 1 + 1 .. Len(c)
            /\ Len(c) = Len(h) + 1 + 1 + Len(v)
        BY <1>4, <2>a, <3>3
      <4>2. c[Len(h) + 1 + 1] = ":"
        BY <1>4, <1>5, <3>3
      <4>3. \A j \in Len(h) + 1 + 1 .. Len(h) + 1 + 1 - 1 : c[j] # ":"
        BY <2>a
      <4>4. Len(h) + 1 + 1 \in Int
        BY <2>a
      <4>5. colon = Len(h) + 1 + 1
        BY <4>1, <4>2, <4>3, <4>4, StrchrAt
      <4>6. /\ Len(c) \in HostEnd(s) + 1 .. Len(u)
            /\ Len(c) - HostEnd(s) - 1 = Len(v)
            /\ HostEnd(s) + 2 = Len(h) + 1 + 1 + 1
        BY <1>3, <2>a, <4>1
      <4>7. SubSeq(c, HostEnd(s) + 2, Len(c)) = SubSeq(v, 1, Len(c) - HostEnd(s) - 1)
        BY <1>2, <1>5, <2>a, <3>3, <4>6, BehindColon DEF v
      <4>8. SubSeq(v, 1, Len(v)) = v
        BY <1>1, SubSeqFull
      <4>9. colon # 0 /\ colon + 1 = Len(h) + 1 + 1 + 1
        BY <2>a, <4>5
      <4> HIDE DEF colon
      <4> QED BY <2>3, <3>1, <4>6, <4>7, <4>8, <4>9
    <3> QED BY <3>2, <3>3
  <2> QED BY <2>4, <2>5
<1> QED BY <1>7

LEMMA LeastOf ==
  ASSUME NEW S \in SUBSET Nat, S # {}
  PROVE  \E x \in S : \A y \in S : x <= y
<1> DEFINE R == OpToRel(<, Nat)
<1>1. IsWellFoundedOn(R, Nat)
  BY NatLessThanWellFounded
<1>2. R = {ss \in Nat \X Nat : ss[1] < ss[2]}
  BY DEF OpToRel
<1> HIDE DEF R
<1>3. PICK x \in S : \A y \in S : ~(<<y, x>> \in R)
  BY <1>1, WFMin
<1>4. \A y \in S : ~(y < x)
  BY <1>2, <1>3
<1> QED BY <1>3, <1>4

\* What strtoul() computes, place by place.
Places(f, s, n) ==
  f = [k \in 0 .. n |-> IF k = 0 THEN 0 ELSE 10 * f[k - 1] + Digit[s[k]]]

LEMMA DigitIs ==
  ASSUME NEW d \in DOMAIN Digit
  PROVE  Digit[d] \in Nat
<1>1. d \in Range(Digits) /\ Digit[d] = (CHOOSE i \in DOMAIN Digits : Digits[i] = d) - 1
  BY DEF Digit
<1>2. DOMAIN Digits = 1 .. 10
  BY DEF Digits
<1>3. \E i \in DOMAIN Digits : Digits[i] = d
  BY <1>1 DEF Range
<1>4. PICK i \in 1 .. 10 : i = CHOOSE j \in DOMAIN Digits : Digits[j] = d
  BY <1>2, <1>3
<1>5. Digit[d] = i - 1
  BY <1>1, <1>4
<1>6. i - 1 \in Nat
  OBVIOUS
<1> QED BY <1>5, <1>6

\* There is such a function, and its values are numbers.
LEMMA PlacesExist ==
  ASSUME NEW s, NEW n \in Nat, \A k \in 1 .. n : s[k] \in DOMAIN Digit
  PROVE  \E f : Places(f, s, n) /\ f[n] \in Nat
<1> DEFINE S == {m \in Nat : m <= n /\ ~\E f : Places(f, s, m) /\ f[m] \in Nat}
<1> SUFFICES ASSUME S # {} PROVE FALSE
  OBVIOUS
<1>1. PICK m \in S : \A y \in S : m <= y
  BY LeastOf
<1>2. m \in Nat /\ m <= n /\ ~\E f : Places(f, s, m) /\ f[m] \in Nat
  BY <1>1
<1>3. CASE m = 0
  <2> DEFINE f == [k \in 0 .. 0 |-> 0]
  <2>1. f = [k \in 0 .. 0 |-> IF k = 0 THEN 0 ELSE 10 * f[k - 1] + Digit[s[k]]] /\ f[0] \in Nat
    OBVIOUS
  <2> HIDE DEF f
  <2>2. Places(f, s, 0) /\ f[0] \in Nat
    BY <2>1 DEF Places
  <2> QED BY <1>2, <1>3, <2>2
<1>4. CASE m # 0
  <2>1. m - 1 \in Nat /\ m - 1 \notin S /\ m - 1 <= n
    BY <1>1, <1>2, <1>4
  <2>2. PICK g : Places(g, s, m - 1) /\ g[m - 1] \in Nat
    BY <2>1
  <2>3. Digit[s[m]] \in Nat
    BY <1>2, <1>4, DigitIs
  <2> DEFINE f == [k \in 0 .. m |-> IF k = m THEN 10 * g[m - 1] + Digit[s[m]] ELSE g[k]]
  <2>4. /\ DOMAIN f = 0 .. m /\ f = [k \in 0 .. m |-> f[k]]
        /\ f[m] = 10 * g[m - 1] + Digit[s[m]] /\ \A k \in 0 .. m - 1 : f[k] = g[k]
    BY <1>2, <1>4
  <2> HIDE DEF f
  <2>5. ASSUME NEW k \in 0 .. m
        PROVE  f[k] = IF k = 0 THEN 0 ELSE 10 * f[k - 1] + Digit[s[k]]
    <3>1. CASE k = m
      <4>1. m - 1 \in 0 .. m - 1 /\ k # 0
        BY <1>2, <1>4, <3>1
      <4> QED BY <2>4, <3>1, <4>1
    <3>2. CASE k # m
      <4>1. k \in 0 .. m - 1 /\ (k # 0 => k - 1 \in 0 .. m - 1)
        BY <1>2, <3>2
      <4>2. g[k] = IF k = 0 THEN 0 ELSE 10 * g[k - 1] + Digit[s[k]]
        BY <2>2, <4>1 DEF Places
      <4> QED BY <2>4, <4>1, <4>2
    <3> QED BY <3>1, <3>2
  <2>6. Places(f, s, m)
    BY <2>4, <2>5 DEF Places
  <2>7. f[m] \in Nat
    BY <2>2, <2>3, <2>4
  <2> QED BY <1>2, <2>6, <2>7
<1> QED BY <1>3, <1>4

LEMMA PlacesNatural ==
  ASSUME NEW s, NEW n \in Nat, \A k \in 1 .. n : s[k] \in DOMAIN Digit, NEW f, Places(f, s, n)
  PROVE  f[n] \in Nat
<1> DEFINE S == {m \in Nat : m <= n /\ f[m] \notin Nat}
<1> SUFFICES ASSUME S # {} PROVE FALSE
  OBVIOUS
<1>1. PICK m \in S : \A y \in S : m <= y
  BY LeastOf
<1>2. m \in Nat /\ m <= n /\ f[m] \notin Nat
  BY <1>1
<1>3. f[m] = IF m = 0 THEN 0 ELSE 10 * f[m - 1] + Digit[s[m]]
  BY <1>2 DEF Places
<1>4. m # 0
  BY <1>2, <1>3
<1>5. f[m - 1] \in Nat
  <2>1. m - 1 \in Nat /\ m - 1 <= n /\ m - 1 \notin S
    BY <1>1, <1>2, <1>4
  <2> QED BY <2>1
<1>6. Digit[s[m]] \in Nat
  BY <1>2, <1>4, DigitIs
<1> QED BY <1>2, <1>3, <1>4, <1>5, <1>6

\* The value of the digits at the beginning is a number.
LEMMA StrtoulType ==
  ASSUME NEW s \in Seq(Char)
  PROVE  Strtoul(s) \in Nat
<1> DEFINE I == {i \in 1 .. Len(s) : s[i] \notin DOMAIN Digit}
           other == IF I # {} THEN Min(I) ELSE 0
           digits == IF other = 0 THEN Len(s) ELSE other - 1
           value == CHOOSE f : Places(f, s, digits)
<1>1. SelectInSeq(s, LAMBDA ch : ch \notin DOMAIN Digit) = other
  BY DEF SelectInSeq
<1>2. Strtoul(s) = value[digits]
  BY <1>1 DEF Strtoul, Places
<1>3. digits \in Nat /\ \A k \in 1 .. digits : s[k] \in DOMAIN Digit
  <2>1. Len(s) \in Nat
    BY LenProperties
  <2>2. CASE I = {}
    BY <2>1, <2>2
  <2>3. CASE I # {}
    <3>1. I \in SUBSET Nat
      BY <2>1
    <3>2. \E x \in I : \A y \in I : x <= y
      BY <2>3, <3>1, LeastOf
    <3>3. Min(I) \in I /\ \A y \in I : Min(I) <= y
      BY <3>2 DEF Min
    <3>4. PICK p \in I : p = Min(I) /\ \A y \in I : p <= y
      BY <3>3
    <3>5. p \in 1 .. Len(s) /\ digits = p - 1
      BY <2>1, <2>3, <3>4
    <3>6. \A k \in 1 .. p - 1 : s[k] \in DOMAIN Digit
      BY <2>1, <3>4, <3>5
    <3>7. p - 1 \in Nat
      BY <2>1, <3>5
    <3> HIDE DEF digits
    <3> QED BY <3>5, <3>6, <3>7
  <2> QED BY <2>2, <2>3
<1> HIDE DEF other, digits
<1>4. \E f : Places(f, s, digits)
  BY <1>3, PlacesExist
<1>5. Places(value, s, digits)
  BY <1>4
<1> HIDE DEF value
<1> QED BY <1>2, <1>3, <1>5, PlacesNatural

\* addr_make_sockaddr() of a name or an IPv4 address whose text fits host[256].
LEMMA NameMade ==
  ASSUME NEW s \in Spoken, s.host \notin Addr6, Len(Written(s)) < 256
  PROVE  LET m == MadeSockaddr(Written(s))
         IN  /\ m.ok = (s.host \in Addr4)
             /\ m.ok =>
                  /\ m.addr = s.host
                  /\ Len(s.service) < 6 /\ Strtoul(s.service) < 2 ^ 16 =>
                       m.port = Strtoul(s.service)
<1> DEFINE h == s.host
           v == s.service
           q == Parsed(Written(s), 256, 6)
           p == ParsedP(Written(s), 256)
           m == MadeSockaddr(Written(s))
<1>1. h \in Name /\ v \in Seq(Char) /\ ~Contains(h, ":")
  BY SpokenIs
<1>2. q.host = h /\ q.service = StrNcpy(v, 6)
  <2>1. 256 \in Nat \ {0} /\ 6 \in Nat /\ 6 > 0
    OBVIOUS
  <2> QED BY <2>1, NameParsed
<1>3. p.host = h /\ p.port = Strtoul(q.service) % 2 ^ 16
  BY <1>2 DEF ParsedP
<1> HIDE DEF p, q
<1>4. m = IF h \in Addr4 THEN [ok |-> TRUE, addr |-> h, port |-> p.port]
          ELSE [ok |-> FALSE, addr |-> <<>>, port |-> 0]
  BY <1>1, <1>3 DEF MadeSockaddr, p
<1> HIDE DEF m, h
<1>5. m.ok = (h \in Addr4)
  <2>1. CASE h \in Addr4
    <3>1. m.ok = TRUE
      BY <1>4, <2>1
    <3> QED BY <2>1, <3>1
  <2>2. CASE h \notin Addr4
    <3>1. m.ok = FALSE
      BY <1>4, <2>2
    <3>2. (h \in Addr4) = FALSE
      BY <2>2
    <3> QED BY <3>1, <3>2
  <2> QED BY <2>1, <2>2
<1>6. ASSUME m.ok PROVE m.addr = h /\ m.port = p.port
  BY <1>4, <1>6
<1>7. ASSUME Len(v) < 6, Strtoul(v) < 2 ^ 16 PROVE p.port = Strtoul(v)
  <2>1. q.service = v
    <3>1. 6 \in Nat \ {0}
      OBVIOUS
    <3> QED BY <1>1, <1>2, <1>7, <3>1, CopyIsPrefix
  <2>2. Strtoul(v) \in Nat
    BY <1>1, StrtoulType
  <2>3. 2 ^ 16 = 65536
    OBVIOUS
  <2>4. \A x \in Nat : x < 65536 => x % 65536 = x
    OBVIOUS
  <2> QED BY <1>3, <1>7, <2>1, <2>2, <2>3, <2>4
<1> QED BY <1>5, <1>6, <1>7 DEF m, h

\* The last call, and what it stored.
HostInv ==
  \/ hs = NoCall
  \/ \E s \in Spoken, hostSz \in Nat \ {0}, serviceSz \in Nat :
       hs = [func |-> "parse", spec |-> s, hostSz |-> hostSz, serviceSz |-> serviceSz,
             stored |-> Parsed(Written(s), hostSz, serviceSz)]
  \/ \E s \in Spoken :
       hs = [func |-> "make", spec |-> s, stored |-> MadeSockaddr(Written(s))]

LEMMA StepKeepsHostInv ==
  ASSUME HostInv, [AddrNext]_addrvars
  PROVE  HostInv'
<1>1. CASE Prepare
  <2>1. PICK s \in Spoken :
          \/ \E hostSz \in HostSizes, serviceSz \in ServiceSizes :
               addr_parse_hostspec(s, hostSz, serviceSz)
          \/ addr_make_sockaddr(s)
    BY <1>1 DEF Prepare, HostspecNext, Spoken
  <2>2. CASE addr_make_sockaddr(s)
    BY <2>2 DEF addr_make_sockaddr, HostInv
  <2>3. CASE \E hostSz \in HostSizes, serviceSz \in ServiceSizes :
               addr_parse_hostspec(s, hostSz, serviceSz)
    <3>1. PICK hostSz \in HostSizes, serviceSz \in ServiceSizes :
            addr_parse_hostspec(s, hostSz, serviceSz)
      BY <2>3
    <3>2. hostSz \in Nat \ {0} /\ serviceSz \in Nat
      BY SizesAssumption
    <3> QED BY <3>1, <3>2 DEF addr_parse_hostspec, HostInv
  <2> QED BY <2>1, <2>2, <2>3
<1>2. CASE Use
  BY <1>2 DEF Use, HostInv
<1>3. CASE SocketNext /\ UNCHANGED hs
  BY <1>3 DEF HostInv
<1>4. CASE UNCHANGED addrvars
  BY <1>4 DEF HostInv, addrvars
<1> QED BY <1>1, <1>2, <1>3, <1>4 DEF AddrNext

LEMMA HostInvUnderstands == HostInv => HostspecsUnderstood
<1> SUFFICES ASSUME HostInv PROVE HostspecsUnderstood
  OBVIOUS
<1>1. CASE hs = NoCall
  BY <1>1 DEF NoCall, HostspecsUnderstood, ParseInverts, MakesAddr4
<1>2. ASSUME NEW s \in Spoken, NEW hostSz \in Nat \ {0}, NEW serviceSz \in Nat,
             hs = [func |-> "parse", spec |-> s, hostSz |-> hostSz, serviceSz |-> serviceSz,
                   stored |-> Parsed(Written(s), hostSz, serviceSz)]
      PROVE  HostspecsUnderstood
  <2> DEFINE r == Parsed(Written(s), hostSz, serviceSz)
  <2>1. /\ hs.func = "parse" /\ hs.spec = s /\ hs.hostSz = hostSz
        /\ hs.serviceSz = serviceSz /\ hs.stored = r
    BY <1>2
  <2> HIDE DEF r
  <2>2. s.host \in Name => s.host \notin Addr6
    BY PartsHold
  <2>3. ASSUME s.host \notin Addr6
        PROVE  IsPrefix(r.host, s.host) /\ IsPrefix(r.service, s.service)
    BY <2>3, NameParsed DEF r
  <2>4. ASSUME Len(Written(s)) < hostSz
        PROVE  r.host = s.host /\ (serviceSz > 0 => r.service = StrNcpy(s.service, serviceSz))
    <3>1. CASE s.host \in Addr6
      BY <2>4, <3>1, SixParsed DEF r
    <3>2. CASE s.host \notin Addr6
      BY <2>4, <3>2, NameParsed DEF r
    <3> QED BY <3>1, <3>2
  <2>5. ParseInverts
    BY <2>1, <2>2, <2>3, <2>4 DEF ParseInverts
  <2>6. MakesAddr4
    BY <2>1 DEF MakesAddr4
  <2> QED BY <2>5, <2>6 DEF HostspecsUnderstood
<1>3. ASSUME NEW s \in Spoken,
             hs = [func |-> "make", spec |-> s, stored |-> MadeSockaddr(Written(s))]
      PROVE  HostspecsUnderstood
  <2> DEFINE m == MadeSockaddr(Written(s))
  <2>1. hs.func = "make" /\ hs.spec = s /\ hs.stored = m
    BY <1>3
  <2> HIDE DEF m
  <2>2. s.host \in Name => s.host \notin Addr6
    BY PartsHold
  <2>3. ASSUME s.host \notin Addr6, Len(Written(s)) < 256
        PROVE  /\ m.ok = (s.host \in Addr4)
               /\ m.ok =>
                    /\ m.addr = s.host
                    /\ Len(s.service) < 6 /\ Strtoul(s.service) < 2 ^ 16 =>
                         m.port = Strtoul(s.service)
    BY <2>3, NameMade DEF m
  <2>4. ParseInverts
    BY <2>1 DEF ParseInverts
  <2>5. MakesAddr4
    BY <2>1, <2>2, <2>3 DEF MakesAddr4
  <2> QED BY <2>4, <2>5 DEF HostspecsUnderstood
<1> QED BY <1>1, <1>2, <1>3 DEF HostInv

\* addr_parse_hostspec() gives back the host and the service that were written,
\* as far as the buffers go, and addr_make_sockaddr() finds the IPv4 address and
\* the port: for all names, addresses, services and sizes of buffers.
THEOREM HostspecsAreUnderstood == AddrSpec => []HostspecsUnderstood
<1>1. AddrInit => HostInv
  BY DEF AddrInit, HostInv
<1>2. HostInv /\ [AddrNext]_addrvars => HostInv'
  BY StepKeepsHostInv
<1> QED BY <1>1, <1>2, HostInvUnderstands, PTL DEF AddrSpec

-----------------------------------------------------------------------------
USE FdAssumption, TimeoutsAssumption, StepsAssumption, NotStdin,
    AddrAssumption, TimesAssumption

-----------------------------------------------------------------------------
(* io_select() *)

\* In select() the set holds every descriptor that is asked about, and no wake-up
\* before has left a mark on errno.
Asking ==
  /\ pc = "kernel" => rfds = watch
  /\ pc # "idle" => errno = preverrno

IInv == TypeOK /\ Asking

LEMMA AtLeastZeroType ==
  ASSUME NEW t \in Int
  PROVE  AtLeastZero(t) \in Nat
BY DEF AtLeastZero

\* What is left until a deadline that the clock has moved towards.
LEMMA LaterIs ==
  ASSUME NEW t \in Int, NEW d \in Int
  PROVE  /\ Later(t, d) \in Int /\ Later(t, d) >= t - d /\ Later(t, d) >= -Past
         /\ Later(t, d) = t - d \/ Later(t, d) = -Past
BY DEF Later

LEMMA CountType ==
  ASSUME NEW S \in SUBSET Fd
  PROVE  /\ Cardinality(S) \in Nat /\ Cardinality(S) <= Cardinality(Fd)
         /\ S # {} => Cardinality(S) > 0
<1>1. IsFiniteSet(S) /\ Cardinality(S) <= Cardinality(Fd)
  BY FS_Subset
<1> QED BY <1>1, FS_CardinalityType, FS_EmptySet

LEMMA InitKeeps == Init => IInv
<1>1. Cardinality(Fd) \in Nat
  BY CountType
<1>2. 0 \in -1 .. Cardinality(Fd) /\ 0 \in 0 .. MaxSteps
  BY <1>1
<1>3. Init => ignoreintr \in BOOLEAN
  BY DEF Init
<1> QED BY <1>2, <1>3 DEF Init, IInv, TypeOK, Asking, ErrNo

LEMMA CallKeeps ==
  ASSUME IInv, NEW names \in SUBSET Fd, NEW to \in Int, NEW ign \in BOOLEAN,
         Call(names, to, ign), steps' = 0 \/ UNCHANGED steps
  PROVE  IInv'
BY AtLeastZeroType DEF Call, IInv, TypeOK, Asking

LEMMA TopKeeps ==
  ASSUME IInv, Top
  PROVE  IInv'
<1> USE CountType DEF IInv, TypeOK, Asking, ErrNo, call, env
<1>1. CASE NothingToWatch
  BY <1>1 DEF NothingToWatch
<1>2. CASE DeadlineReached
  BY <1>2 DEF DeadlineReached
<1>3. CASE EnterSelect
  BY <1>3 DEF EnterSelect, Filled
<1> QED BY <1>1, <1>2, <1>3 DEF Top

LEMMA AnswerKeeps ==
  ASSUME IInv, Answer
  PROVE  IInv'
<1> USE DEF IInv, TypeOK, Asking, ErrNo, call, env
<1>1. CASE KernelTimeout
  BY <1>1, CountType DEF KernelTimeout, EndsOnTimeout
<1>2. CASE Selected
  <2>1. rfds' \subseteq watch' /\ watch' \subseteq Fd /\ rfds' \subseteq Fd
    BY <1>2 DEF Selected, Remaining
  <2>2. ret' \in -1 .. Cardinality(Fd)
    BY <1>2, <2>1, CountType DEF Selected
  <2> QED BY <1>2, <2>1, <2>2 DEF Selected
<1> QED BY <1>1, <1>2 DEF Answer

LEMMA InterruptionKeeps ==
  ASSUME IInv, Signal \/ SelectFails
  PROVE  IInv'
<1> USE CountType DEF IInv, TypeOK, Asking, ErrNo, call, env
<1>1. CASE Signal
  BY <1>1 DEF Signal, GoRound
<1>2. CASE SelectFails
  BY <1>2 DEF SelectFails
<1> QED BY <1>1, <1>2

\* Time passes, or the clock is stepped.
LEMMA FollowedKeeps ==
  ASSUME IInv, NEW d \in Int, Followed(d), tout' \in Nat, steps' \in 0 .. MaxSteps,
         UNCHANGED <<pc, call, watch, rfds, ret, errno, ready>>
  PROVE  IInv'
<1>1. left' \in Int
  BY LaterIs DEF Followed, IInv, TypeOK
<1> QED BY <1>1 DEF IInv, TypeOK, Asking, call

LEMMA OutsideKeeps ==
  ASSUME IInv, Tick \/ (\E d \in ClockSteps : StepClock(d))
               \/ \E f \in Fd : BecomeReady(f) \/ BecomeUnready(f)
  PROVE  IInv'
<1>1. CASE Tick
  <2>1. tout' \in Nat /\ UNCHANGED steps
    BY <1>1, AtLeastZeroType DEF Tick, IInv, TypeOK, env
  <2> QED BY <1>1, <2>1, FollowedKeeps DEF Tick, IInv, TypeOK, env
<1>2. ASSUME NEW d \in ClockSteps, StepClock(d) PROVE IInv'
  <2>1. tout' \in Nat /\ steps' \in 0 .. MaxSteps
    BY <1>2 DEF StepClock, IInv, TypeOK
  <2> QED BY <1>2, <2>1, FollowedKeeps DEF StepClock
<1>3. CASE \E f \in Fd : BecomeReady(f) \/ BecomeUnready(f)
  BY <1>3 DEF BecomeReady, BecomeUnready, IInv, TypeOK, Asking, call
<1> QED BY <1>1, <1>2, <1>3

LEMMA NextKeeps == IInv /\ [Next]_vars => IInv'
<1> SUFFICES ASSUME IInv, [Next]_vars PROVE IInv'
  OBVIOUS
<1>1. CASE UNCHANGED vars
  BY <1>1 DEF vars, IInv, TypeOK, Asking
<1>2. ASSUME NEW names \in SUBSET Fd, NEW to \in Timeouts, NEW ign \in BOOLEAN,
             Call(names, to, ign), steps' = 0
      PROVE  IInv'
  BY <1>2, CallKeeps
<1> QED
  BY <1>1, <1>2, TopKeeps, AnswerKeeps, InterruptionKeeps, OutsideKeeps DEF Next

\* Every variable keeps its type: no wake-up leaves a descriptor in the sets
\* that the caller did not name, and what is asked of the kernel is a time.
THEOREM TypeCorrect == Spec => []TypeOK
<1>1. IInv => TypeOK
  BY DEF IInv
<1> QED BY InitKeeps, NextKeeps, <1>1, PTL DEF Spec

-----------------------------------------------------------------------------

Reports ==
  pc # "idle" /\ pc' = "idle" => NotBeforeDeadline /\ SignalsLeaveNoTrace /\ ReadyReported

\* Every way out of io_select().
LEMMA ReturnReports ==
  ASSUME IInv, NothingToWatch \/ DeadlineReached \/ KernelTimeout \/ Selected
               \/ Signal \/ SelectFails
  PROVE  Reports
<1> USE DEF IInv, TypeOK, Asking, ErrNo, call, env, Reports, NotBeforeDeadline,
            SignalsLeaveNoTrace, ReadyReported
<1>1. CASE NothingToWatch
  BY <1>1 DEF NothingToWatch
<1>2. CASE DeadlineReached
  BY <1>2 DEF DeadlineReached
<1>3. CASE KernelTimeout
  BY <1>3 DEF KernelTimeout, EndsOnTimeout
<1>4. CASE Selected
  <2>1. /\ rfds' = watch \cap ready /\ watch' = watch \cap ready
        /\ ret' = Cardinality(watch') /\ watch' # {} /\ watch' \subseteq Fd
        /\ errno' = preverrno /\ UNCHANGED preverrno
    BY <1>4 DEF Selected, Remaining
  <2>2. ret' \in Nat /\ ret' > 0 /\ ret' # 0 /\ ret' >= 0
    BY <2>1, CountType
  <2> QED BY <2>1, <2>2
<1>5. CASE Signal
  BY <1>5 DEF Signal, GoRound
<1>6. CASE SelectFails
  BY <1>6 DEF SelectFails
<1> QED BY <1>1, <1>2, <1>3, <1>4, <1>5, <1>6

\* The other steps return from no call.
LEMMA OthersDoNotReturn ==
  ASSUME \/ \E names, to, ign : Call(names, to, ign)
         \/ EnterSelect \/ Tick \/ (\E d : StepClock(d))
         \/ \E f \in Fd : BecomeReady(f) \/ BecomeUnready(f)
         \/ UNCHANGED vars
  PROVE  Reports
BY DEF Call, EnterSelect, Tick, StepClock, BecomeReady, BecomeUnready, vars, Reports

LEMMA StepReports ==
  ASSUME IInv, [Next]_vars
  PROVE  Reports
BY ReturnReports, OthersDoNotReturn DEF Next, Top, Answer

\* What io_select() reports is so, whatever signals and steps of the clock woke
\* select() before: neither a timeout nor errno nor the caller's array depends
\* on how often the loop went round.
THEOREM ReportsAreTrue == Spec => ReportsTruly
<1>1. IInv /\ [Next]_vars => [Reports]_vars
  BY StepReports
<1> QED
  BY InitKeeps, NextKeeps, <1>1, PTL DEF Spec, ReportsTruly, Reports

-----------------------------------------------------------------------------
(* addr_mksocket() *)

\* addr_mksocket() has a socket for the current address.
Waiting == place \in {"hardleft", "softend", "softleft", "call", "select"}
Holding == place \in {"backend", "finish", "success"} \/ Waiting
Returned == place \in {"idle", "options"}

\* The caller has been told the current address, as much as fits.
Told ==
  /\ sockaddr.of = ai
  /\ addrlen = AddrBytes[sockaddr.family]
  /\ sockaddr.bytes = IF sockaddr.family = "inet" THEN addrlen ELSE SockaddrBytes

\* The loop's position: no socket at its top, one for the current address below.
Walk ==
  /\ place \notin {"idle", "select"} => pc = "idle"
  /\ place = "loop" => list \in 1 .. MaxAddr /\ ai \in 1 .. list + 1 /\ sck = -1
  /\ Holding => list \in 1 .. MaxAddr /\ ai \in 1 .. list /\ sck \in Fd /\ Told
  /\ place \in {"finish", "success"} /\ func # "none" => sck \in connected

Sockets ==
  /\ place = "loop" => open = {}
  /\ Holding => open = {sck}
  /\ place = "success" \/ Returned => nonblock = {}
  /\ Returned => open = IF result \in Fd THEN {result} ELSE {}
  /\ Returned /\ result \in Fd => Told /\ (func # "none" => result \in connected)

\* What the hard timeout's early return leaves undone.
EarlyReturn ==
  /\ place = "options" => result \in Fd \/ (result = 0 /\ Hard /\ hleft <= 0)
  /\ Returned => list = 0 \/ (Hard /\ hleft <= 0)
  /\ OnlyOwnClosed /\ (foreign => place = "idle")

\* The remaining times that were measured, and how far out of date they are.
Measures ==
  /\ Measured => trem > 0 /\ trem <= hleft + ahead
  /\ place = "softleft" /\ softto > 0 => softleft <= softto + behind
  /\ place = "call" /\ Hard /\ softto > 0 => trem <= softto + behind

SockInv ==
  SocketTypeOK /\ Asking /\ Walk /\ Sockets /\ EarlyReturn /\ Measures /\ WaitBounded

\* Descriptors are positive; the other results are 0 and -1.
LEMMA Descriptors ==
  ASSUME NEW s \in Fd \cup {-1, 0}
  PROVE  /\ s > 0 <=> s \in Fd
         /\ s \in Fd => s # -1 /\ s # 0 /\ s >= 0
OBVIOUS

\* The steps outside io_select() leave its variables alone, or discard what a
\* call that returned has left.
LEMMA SelectUntouched ==
  ASSUME TypeOK, Asking, UNCHANGED vars
  PROVE  TypeOK' /\ Asking'
BY DEF TypeOK, Asking, vars

LEMMA SelectDiscarded ==
  ASSUME TypeOK, pc = "idle", SelectGone, UNCHANGED errno, steps' = 0 \/ UNCHANGED steps
  PROVE  TypeOK' /\ Asking'
<1>1. Cardinality(Fd) \in Nat
  BY CountType
<1>2. 0 \in -1 .. Cardinality(Fd) /\ 0 \in 0 .. MaxSteps
  BY <1>1
<1>3. ignoreintr' \in BOOLEAN
  BY DEF SelectGone
<1> QED BY <1>2, <1>3 DEF SelectGone, TypeOK, Asking, ErrNo

-----------------------------------------------------------------------------

LEMMA InitKeepsSock == SocketInit => SockInv
<1> SUFFICES ASSUME SocketInit PROVE SockInv
  OBVIOUS
<1>1. IInv
  BY InitKeeps DEF SocketInit
<1>2. foreign \in BOOLEAN /\ ~foreign /\ opts \in BOOLEAN
  BY DEF SocketInit
<1>3. sockaddr \in [of : 0 .. MaxAddr, family : {"none", "inet", "inet6"}, bytes : Nat]
  BY DEF SocketInit, NoSockaddr
<1>4. SocketTypeOK /\ Asking
  BY <1>1, <1>2, <1>3 DEF IInv, SocketInit, SocketTypeOK
<1> QED
  BY <1>2, <1>4, Descriptors
     DEF SocketInit, Init, SockInv, Walk, Sockets, EarlyReturn, Measures, Measured, Waiting,
         Holding, Returned, OnlyOwnClosed, WaitBounded

LEMMA MksocketKeeps ==
  ASSUME SockInv, NEW f \in {"none", "backend"}, NEW o \in BOOLEAN,
         NEW soft \in SoftTimes, NEW hard \in HardTimes, Mksocket(f, o, soft, hard)
  PROVE  SockInv'
<1> USE DEF SockInv, Walk, Sockets, EarlyReturn, Measures, Measured, Waiting, Holding,
            Returned, OnlyOwnClosed, WaitBounded
<1>1. TypeOK' /\ Asking'
  BY SelectDiscarded DEF Mksocket, SocketTypeOK
<1>2. foreign' = FALSE /\ foreign' \in BOOLEAN /\ ~foreign' /\ opts' \in BOOLEAN
  BY DEF Mksocket
<1>3. sockaddr' \in [of : 0 .. MaxAddr, family : {"none", "inet", "inet6"}, bytes : Nat]
  BY DEF Mksocket, NoSockaddr
<1>4. PICK n \in 0 .. MaxAddr :
        /\ list' = n
        /\ ai' = IF n = 0 THEN 0 ELSE 1
        /\ place' = IF n = 0 THEN "idle" ELSE "loop"
  BY DEF Mksocket
<1>5. SocketTypeOK'
  BY <1>1, <1>2, <1>3, <1>4 DEF Mksocket, SocketTypeOK
<1> QED BY <1>1, <1>2, <1>4, <1>5, Descriptors DEF Mksocket, SelectGone

\* Every way back to the top of the loop closes the socket.
LEMMA NextAiKeeps ==
  ASSUME SockInv, Holding, Next_ai, TypeOK', Asking', pc' = "idle"
  PROVE  SockInv'
<1> USE DEF SockInv, Walk, Sockets, EarlyReturn, Measures, Measured, Waiting, Holding,
            Returned, OnlyOwnClosed, WaitBounded, Hard, params, caller, LoopGone
<1>1. SocketTypeOK'
  BY DEF Next_ai, SocketTypeOK
<1> QED BY <1>1 DEF Next_ai, SocketTypeOK

\* What the caller is told of an address.
LEMMA TellsIs ==
  ASSUME SocketTypeOK, NEW family \in DOMAIN AddrBytes, TellAddress(family), ai' = ai,
         ai \in 0 .. MaxAddr
  PROVE  /\ Told'
         /\ sockaddr' \in [of : 0 .. MaxAddr, family : {"none", "inet", "inet6"}, bytes : Nat]
         /\ addrlen' \in Nat
<1>1. family \in {"inet", "inet6"} /\ AddrBytes["inet"] = 16 /\ AddrBytes["inet6"] = 28
  BY DEF AddrBytes
<1>2. /\ sockaddr' = [of |-> ai, family |-> family,
                      bytes |-> IF AddrBytes[family] < SockaddrBytes THEN AddrBytes[family]
                                                                     ELSE SockaddrBytes]
      /\ addrlen' = AddrBytes[family]
  BY DEF TellAddress, Copied
<1> HIDE DEF AddrBytes
<1>3. sockaddr'.of = ai /\ sockaddr'.family = family
  BY <1>2
<1>4. sockaddr'.bytes = 16 /\ sockaddr'.bytes = IF family = "inet" THEN addrlen' ELSE SockaddrBytes
  BY <1>1, <1>2 DEF SockaddrBytes
<1>5. addrlen' \in Nat
  BY <1>1, <1>2
<1>6. sockaddr' \in [of : 0 .. MaxAddr, family : {"none", "inet", "inet6"}, bytes : Nat]
  BY <1>1, <1>2 DEF SockaddrBytes
<1> QED BY <1>2, <1>3, <1>4, <1>5, <1>6 DEF Told

LEMMA LoopKeeps ==
  ASSUME SockInv, LoopEnd \/ LoopHardTimeout \/ Socket
  PROVE  SockInv'
<1> USE DEF SockInv, Walk, Sockets, EarlyReturn, Measures, Measured, Waiting, Holding,
            Returned, OnlyOwnClosed, WaitBounded, Hard, params, times, fds, caller, Return, AtEnd
<1>1. UNCHANGED <<vars, foreign>> /\ TypeOK' /\ Asking' /\ pc = "idle" /\ pc' = "idle"
  BY SelectUntouched DEF LoopEnd, LoopHardTimeout, Socket, SocketTypeOK, vars
<1>2. CASE LoopEnd
  <2>1. SocketTypeOK'
    BY <1>1, <1>2 DEF LoopEnd, SocketTypeOK
  <2> QED BY <1>1, <1>2, <2>1 DEF LoopEnd, SocketTypeOK
<1>3. CASE LoopHardTimeout
  <2>1. SocketTypeOK'
    BY <1>1, <1>3 DEF LoopHardTimeout, SocketTypeOK
  <2> QED BY <1>1, <1>3, <2>1 DEF LoopHardTimeout, SocketTypeOK
<1>4. CASE Socket
  <2>1. /\ place = "loop" /\ open = {} /\ ai \in 1 .. list /\ list \in 1 .. MaxAddr
        /\ UNCHANGED <<params, times, list, result, nonblock, connected>>
    BY <1>4 DEF Socket, SocketTypeOK
  <2>2. ASSUME NEW s \in Fd, NEW family \in DOMAIN AddrBytes, sck' = s, open' = open \cup {s},
               TellAddress(family), ai' = ai,
               place' = IF func = "none" THEN "success" ELSE "backend"
        PROVE  SockInv'
    <3>1. open' = {s} /\ nonblock' = {} /\ connected' = {}
      BY <2>1, <2>2 DEF SocketTypeOK
    <3>2. /\ Told'
          /\ sockaddr' \in [of : 0 .. MaxAddr, family : {"none", "inet", "inet6"}, bytes : Nat]
          /\ addrlen' \in Nat
      BY <2>1, <2>2, TellsIs
    <3>3. SocketTypeOK'
      BY <1>1, <2>1, <2>2, <3>1, <3>2 DEF SocketTypeOK
    <3> QED BY <1>1, <2>1, <2>2, <3>1, <3>2, <3>3 DEF SocketTypeOK
  <2>3. ASSUME ai' = ai + 1, UNCHANGED <<place, sck, open, caller>>
        PROVE  SockInv'
    <3>1. SocketTypeOK'
      BY <1>1, <2>1, <2>3 DEF SocketTypeOK
    <3> QED BY <1>1, <2>1, <2>3, <3>1 DEF SocketTypeOK
  <2> QED BY <1>4, <2>2, <2>3 DEF Socket
<1> QED BY <1>2, <1>3, <1>4

LEMMA BackendKeeps ==
  ASSUME SockInv, Backend
  PROVE  SockInv'
<1> USE DEF SockInv, Walk, Sockets, EarlyReturn, Measures, Measured, Waiting, Holding,
            Returned, OnlyOwnClosed, WaitBounded, Hard, params, times, fds, caller, call, env
<1>1. TypeOK' /\ Asking'
  BY DEF Backend, SocketTypeOK, TypeOK, Asking, ErrNo
<1>2. SocketTypeOK'
  BY <1>1 DEF Backend, SocketTypeOK
<1> QED BY <1>1, <1>2 DEF Backend, Told

-----------------------------------------------------------------------------
(* What is left of the timeouts, read before io_select() reads the clock again *)

LEMMA HardLeftKeeps ==
  ASSUME SockInv, HardLeft
  PROVE  SockInv'
<1> USE DEF SockInv, Walk, Sockets, EarlyReturn, Measures, Measured, Waiting, Holding,
            Returned, OnlyOwnClosed, WaitBounded, Hard, params, fds, caller
<1>1. TypeOK' /\ Asking' /\ pc' = "idle"
  BY SelectUntouched DEF HardLeft, SocketTypeOK, vars
<1>2. trem' \in Nat /\ (Hard => trem' > 0 /\ trem' <= hleft + ahead)
  BY DEF HardLeft, InTime, SocketTypeOK
<1>3. SocketTypeOK'
  BY <1>1, <1>2 DEF HardLeft, SocketTypeOK
<1> QED BY <1>1, <1>2, <1>3 DEF HardLeft, Told

LEMMA SoftEndKeeps ==
  ASSUME SockInv, SoftEnd
  PROVE  SockInv'
<1> USE DEF SockInv, Walk, Sockets, EarlyReturn, Measures, Measured, Waiting, Holding,
            Returned, OnlyOwnClosed, WaitBounded, Hard, Soft, params, fds, caller
<1>1. TypeOK' /\ Asking' /\ pc' = "idle"
  BY SelectUntouched DEF SoftEnd, SocketTypeOK, vars
<1>2. softto \in Int /\ behind \in Nat
  BY DEF SocketTypeOK
<1>3. SocketTypeOK'
  BY <1>1, <1>2 DEF SoftEnd, SocketTypeOK
<1> QED BY <1>1, <1>2, <1>3 DEF SoftEnd, Told

LEMMA SoftLeftKeeps ==
  ASSUME SockInv, SoftLeft
  PROVE  SockInv'
<1> USE DEF SockInv, Walk, Sockets, EarlyReturn, Measures, Measured, Waiting, Holding,
            Returned, OnlyOwnClosed, WaitBounded, Hard, params, fds, caller
<1>1. TypeOK' /\ Asking' /\ pc' = "idle"
  BY SelectUntouched DEF SoftLeft, SocketTypeOK, vars
<1>2. softleft \in Int /\ softleft > 0 /\ trem \in Nat /\ hleft \in Int /\ ahead \in Nat
  BY DEF SoftLeft, SocketTypeOK
<1>3. trem' \in Nat /\ trem' <= trem /\ trem' <= softleft /\ (trem > 0 => trem' > 0)
  BY <1>2 DEF SoftLeft, EarlierOfBoth
<1>4. SocketTypeOK'
  BY <1>1, <1>2, <1>3 DEF SoftLeft, SocketTypeOK
<1>5. Measures'
  BY <1>2, <1>3 DEF SoftLeft, SocketTypeOK
<1> QED BY <1>1, <1>4, <1>5 DEF SoftLeft, Told

LEMMA StartWaitKeeps ==
  ASSUME SockInv, StartWait
  PROVE  SockInv'
<1> USE DEF SockInv, Walk, Sockets, EarlyReturn, Measures, Measured, Waiting, Holding,
            Returned, OnlyOwnClosed, Hard, params, times, fds, caller
<1>1. trem \in Nat /\ sck \in Fd /\ hleft \in Int /\ ahead \in Nat /\ behind \in Nat
  BY DEF StartWait, SocketTypeOK
<1>2. TypeOK' /\ Asking'
  <2>1. IInv /\ {sck} \in SUBSET Fd /\ trem \in Int /\ TRUE \in BOOLEAN
    BY <1>1 DEF SocketTypeOK, IInv
  <2>2. Call({sck}, trem, TRUE) /\ UNCHANGED steps
    BY DEF StartWait
  <2>3. IInv'
    BY <2>1, <2>2, CallKeeps
  <2> QED BY <2>3 DEF IInv
<1>3. SocketTypeOK'
  BY <1>2 DEF StartWait, SocketTypeOK
<1>4. WaitBounded'
  <2>1. /\ watch' = {sck} /\ ignoreintr' = TRUE /\ to_us' = trem /\ tout' = 0
        /\ left' = AtLeastZero(trem)
        /\ UNCHANGED <<sck, hardto, softto, hleft, ahead, behind>>
    BY DEF StartWait, Call
  <2>2. left' = trem
    BY <1>1, <2>1 DEF AtLeastZero
  <2>3. hardto # 0 => /\ trem > 0 /\ trem <= hleft + ahead
                      /\ softto > 0 => trem <= softto + behind /\ 0 <= softto + behind
    BY <1>1 DEF StartWait, SocketTypeOK
  <2> QED BY <2>1, <2>2, <2>3 DEF WaitBounded, Timed
<1> QED BY <1>2, <1>3, <1>4 DEF StartWait, Told

-----------------------------------------------------------------------------

LEMMA GiveUpKeeps ==
  ASSUME SockInv, BackendFails \/ TooLate \/ SoftTooLate \/ SelectFailed \/ FinishFails
  PROVE  SockInv'
<1>1. Holding /\ pc = "idle" /\ Next_ai
  BY DEF SockInv, Walk, Holding, Waiting, BackendFails, TooLate, SoftTooLate, SelectFailed,
         FinishFails, SelectReturned
<1>2. TypeOK' /\ Asking' /\ pc' = "idle"
  <2>1. CASE BackendFails \/ TooLate \/ SoftTooLate \/ FinishFails
    BY <2>1, <1>1, SelectUntouched
       DEF BackendFails, TooLate, SoftTooLate, FinishFails, SockInv, SocketTypeOK, vars
  <2>2. CASE SelectFailed
    BY <2>2, <1>1, SelectDiscarded DEF SelectFailed, SelectGone, SockInv, SocketTypeOK
  <2> QED BY <2>1, <2>2
<1> QED BY <1>1, <1>2, NextAiKeeps

LEMMA SucceedKeeps ==
  ASSUME SockInv, Connected \/ Finish \/ Success
  PROVE  SockInv'
<1> USE DEF SockInv, Walk, Sockets, EarlyReturn, Measures, Measured, Waiting, Holding,
            Returned, OnlyOwnClosed, WaitBounded, Hard, params, times, fds, caller, Return, Told
<1>1. CASE Connected
  <2>1. TypeOK' /\ Asking' /\ pc' = "idle"
    BY <1>1, SelectDiscarded DEF Connected, SelectReturned, SelectGone, SocketTypeOK
  <2>2. SocketTypeOK'
    BY <1>1, <2>1 DEF Connected, SelectReturned, SocketTypeOK, LoopGone
  <2> QED BY <1>1, <2>1, <2>2 DEF Connected, SelectReturned, LoopGone
<1>2. CASE Finish
  <2>1. TypeOK' /\ Asking' /\ pc' = "idle"
    BY <1>2, SelectUntouched DEF Finish, SocketTypeOK, vars
  <2>2. SocketTypeOK'
    BY <1>2, <2>1 DEF Finish, SocketTypeOK
  <2> QED BY <1>2, <2>1, <2>2 DEF Finish, SocketTypeOK
<1>3. CASE Success
  <2>1. TypeOK' /\ Asking' /\ pc' = "idle"
    BY <1>3, SelectUntouched DEF Success, SocketTypeOK, vars
  <2>2. SocketTypeOK'
    BY <1>3, <2>1 DEF Success, SocketTypeOK
  <2> QED BY <1>3, <2>1, <2>2, Descriptors DEF Success, SocketTypeOK
<1> QED BY <1>1, <1>2, <1>3

LEMMA OptionsKeep ==
  ASSUME SockInv, OptionsSet \/ OptionsFail
  PROVE  SockInv'
<1> USE DEF SockInv, Walk, Sockets, EarlyReturn, Measures, Measured, Waiting, Holding,
            Returned, OnlyOwnClosed, WaitBounded, Hard, params, times, fds, caller
<1>1. TypeOK' /\ Asking' /\ pc' = "idle"
  BY SelectUntouched DEF OptionsSet, OptionsFail, SocketTypeOK, vars
<1>2. CASE OptionsSet
  <2>1. SocketTypeOK'
    BY <1>1, <1>2 DEF OptionsSet, SocketTypeOK
  <2> QED BY <1>1, <1>2, <2>1 DEF OptionsSet, Told
<1>3. CASE OptionsFail
  <2>1. foreign' \in BOOLEAN /\ (foreign' => result \notin open)
    BY <1>3 DEF OptionsFail, ClosesForeign
  <2>2. open' = {} /\ connected' = {} /\ nonblock' = {} /\ result' = -1 /\ place' = "idle"
    BY <1>3 DEF OptionsFail, SocketTypeOK
  <2>3. SocketTypeOK'
    BY <1>1, <1>3, <2>1, <2>2 DEF OptionsFail, SocketTypeOK
  <2>4. foreign' => Hard' /\ hleft' <= 0
    <3>1. foreign' => result \notin Fd
      BY <1>3, <2>1 DEF OptionsFail
    <3>2. UNCHANGED <<hardto, hleft>>
      BY <1>3 DEF OptionsFail
    <3> QED BY <1>3, <3>1, <3>2 DEF OptionsFail
  <2>5. list' = 0 \/ (Hard' /\ hleft' <= 0)
    BY <1>3 DEF OptionsFail
  <2>6. EarlyReturn'
    BY <2>2, <2>4, <2>5
  <2>7. Walk' /\ Sockets' /\ Measures' /\ WaitBounded'
    BY <1>1, <2>2, Descriptors
  <2> QED BY <1>1, <2>3, <2>6, <2>7
<1> QED BY <1>2, <1>3

-----------------------------------------------------------------------------
(* io_select()'s own steps *)

LEMMA WatchKeeps ==
  ASSUME SockInv, NEW f \in SUBSET Fd, NEW to \in Timeouts, NEW ign \in BOOLEAN,
         Watch(f, to, ign)
  PROVE  SockInv'
<1> USE DEF SockInv, Walk, Sockets, EarlyReturn, Measures, Measured, Waiting, Holding,
            Returned, OnlyOwnClosed, WaitBounded, Hard
<1>1. TypeOK' /\ Asking'
  BY CallKeeps DEF Watch, SocketTypeOK, IInv
<1>2. foreign' \in BOOLEAN /\ ~foreign' /\ opts' \in BOOLEAN
  BY DEF Watch
<1>3. sockaddr' \in [of : 0 .. MaxAddr, family : {"none", "inet", "inet6"}, bytes : Nat]
  BY DEF Watch, NoSockaddr
<1>4. SocketTypeOK'
  BY <1>1, <1>2, <1>3 DEF Watch, SocketTypeOK
<1> QED BY <1>1, <1>2, <1>4, Descriptors DEF Watch

\* A step of the loop in io_select(), or of what it waits for, keeps a wait
\* within its bounds.
LEMMA InSelectKeeps ==
  ASSUME SockInv, InSelect,
         Top \/ Answer \/ Signal \/ SelectFails
         \/ (\E f \in watch : BecomeReady(f) \/ BecomeUnready(f))
  PROVE  SockInv'
<1> USE DEF SockInv, Walk, Sockets, EarlyReturn, Measures, Measured, Waiting, Holding,
            Returned, OnlyOwnClosed, Hard, InSelect, mkvars, params, times, fds, caller
<1>1. watch \subseteq Fd
  BY DEF SocketTypeOK, TypeOK
<1>2. TypeOK' /\ Asking'
  BY <1>1, TopKeeps, AnswerKeeps, InterruptionKeeps, OutsideKeeps DEF SocketTypeOK, IInv
<1>3. SocketTypeOK'
  BY <1>2 DEF SocketTypeOK
<1>4. WaitBounded'
  <2>1. SUFFICES ASSUME place = "select", pc' # "idle" PROVE WaitBounded'
    BY DEF WaitBounded
  <2>2. /\ pc # "idle" /\ UNCHANGED <<watch, ignoreintr, to_us, left>>
        /\ tout' = tout \/ tout' = 0 \/ tout' = left
    BY <2>1 DEF Top, NothingToWatch, DeadlineReached, EnterSelect, Answer, KernelTimeout,
                Selected, Signal, GoRound, SelectFails, BecomeReady, BecomeUnready, call
  <2>3. hleft \in Int /\ softto \in Int /\ ahead \in Nat /\ behind \in Nat
    BY DEF SocketTypeOK
  <2> QED BY <2>1, <2>2, <2>3 DEF WaitBounded, Timed
<1> QED BY <1>2, <1>3, <1>4 DEF Told

-----------------------------------------------------------------------------
(* Time *)

\* The clock moves on by d, or back when d is negative; the histories account
\* for what that does to the times that were measured before.
Moved(d) ==
  /\ AllFollowed(d)
  /\ tout' \in Nat /\ (tout' = 0 \/ tout' <= tout) /\ steps' \in 0 .. MaxSteps
  /\ ahead' \in Nat /\ ahead' >= ahead
  /\ Measured => ahead' >= ahead + d
  /\ behind' \in Nat /\ behind' >= behind
  /\ place \in {"softleft", "select"} => behind' >= behind - d
  /\ tout' > 0 => tout' <= tout - d \/ (Hard /\ place = "select" => ahead' >= ahead + d)

LEMMA TickMoves ==
  ASSUME SocketTypeOK, TickAll
  PROVE  Moved(1)
<1>1. tout \in Nat /\ ahead \in Nat /\ behind \in Nat /\ steps \in 0 .. MaxSteps
  BY DEF SocketTypeOK, TypeOK
<1>2. /\ AllFollowed(1) /\ tout' = AtLeastZero(tout - 1)
      /\ ahead' = IF Measured THEN ahead + 1 ELSE ahead
      /\ UNCHANGED <<steps, behind>>
  BY DEF TickAll
<1>3. tout' \in Nat /\ (tout' = 0 \/ tout' = tout - 1)
  BY <1>1, <1>2 DEF AtLeastZero
<1> QED BY <1>1, <1>2, <1>3 DEF Moved

LEMMA ClockMoves ==
  ASSUME SocketTypeOK, NEW d \in ClockSteps, StepClockAll(d)
  PROVE  Moved(d)
<1>1. tout \in Nat /\ ahead \in Nat /\ behind \in Nat /\ steps' \in 0 .. MaxSteps /\ d \in Int
  BY DEF SocketTypeOK, TypeOK, StepClockAll
<1>2. /\ AllFollowed(d) /\ tout' = tout
      /\ ahead' = IF d > 0 /\ (Measured \/ (Hard /\ place = "select")) THEN ahead + d ELSE ahead
      /\ behind' = IF d < 0 /\ place \in {"softleft", "select"} THEN behind - d ELSE behind
  BY DEF StepClockAll
<1> QED BY <1>1, <1>2 DEF Moved

\* A bound on what is left of a deadline, when the clock has moved by d: of one
\* that is measured and stays what it was, of one that is followed, and of one
\* whose bound alone moves.
LEMMA BoundMoves ==
  ASSUME NEW t \in Int, NEW h \in Int, NEW a \in Int, NEW h2 \in Int, NEW a2 \in Int,
         NEW d \in Int, t <= h + a, h2 >= h - d, a2 >= a + d
  PROVE  t <= h2 + a2
OBVIOUS

LEMMA FollowedBound ==
  ASSUME NEW t \in Int, NEW t2 \in Int, NEW s \in Int, NEW b \in Int, NEW b2 \in Int,
         NEW d \in Int, t <= s + b, t2 = t - d \/ t2 = -Past, b2 >= b - d, b2 >= 0, s > 0
  PROVE  t2 <= s + b2
OBVIOUS

LEMMA BoundGrows ==
  ASSUME NEW t \in Int, NEW t2 \in Int, NEW s \in Int, NEW b \in Int, NEW b2 \in Int,
         t <= s + b, t2 = 0 \/ t2 <= t, b2 >= b, b2 >= 0, s > 0
  PROVE  t2 <= s + b2
OBVIOUS

LEMMA TimeKeeps ==
  ASSUME SockInv, NEW d \in Int, Moved(d)
  PROVE  SockInv'
<1>1. /\ hleft \in Int /\ softleft \in Int /\ left \in Int /\ trem \in Nat /\ tout \in Nat
      /\ softto \in Int /\ ahead \in Nat /\ behind \in Nat /\ Past \in Nat
  BY DEF SockInv, SocketTypeOK, TypeOK
<1>2. /\ hleft \in Int /\ softleft \in Int /\ left \in Int /\ trem \in Int /\ tout \in Int
       /\ softto \in Int /\ ahead \in Int /\ behind \in Int
  BY <1>1
<1>3. /\ UNCHANGED <<pc, to_us, ignoreintr, preverrno, watch, rfds, ret, errno, ready>>
      /\ UNCHANGED <<place, func, opts, softto, hardto, trem, list, ai, sck, result>>
      /\ UNCHANGED <<open, nonblock, connected, sockaddr, addrlen, foreign>>
  BY DEF Moved, AllFollowed, call, params, fds, caller
<1>4. /\ hleft' = IF Running /\ Hard THEN Later(hleft, d) ELSE hleft
      /\ softleft' = IF place = "softleft" THEN Later(softleft, d) ELSE softleft
      /\ Followed(d)
  BY DEF Moved, AllFollowed
<1>5. /\ Later(hleft, d) \in Int /\ Later(hleft, d) >= hleft - d /\ Later(hleft, d) >= -Past
      /\ Later(softleft, d) \in Int
      /\ Later(softleft, d) = softleft - d \/ Later(softleft, d) = -Past
      /\ Later(left, d) \in Int
      /\ Later(left, d) = left - d \/ Later(left, d) = -Past
  BY <1>1, LaterIs
<1>6. TypeOK' /\ Asking'
  <2>1. IInv /\ UNCHANGED <<pc, call, watch, rfds, ret, errno, ready>>
    BY <1>3 DEF SockInv, SocketTypeOK, IInv, call
  <2>2. IInv'
    BY <1>4, <2>1, FollowedKeeps DEF Moved
  <2> QED BY <2>2 DEF IInv
<1>7. SocketTypeOK'
  BY <1>3, <1>4, <1>5, <1>6 DEF SockInv, SocketTypeOK, Moved
<1>8. Walk' /\ Sockets'
  BY <1>3 DEF SockInv, Walk, Sockets, Holding, Waiting, Returned, Told
<1>9. EarlyReturn'
  <2>1. Returned => hleft' = hleft
    BY <1>4 DEF Running, Returned
  <2> QED BY <1>3, <2>1 DEF SockInv, EarlyReturn, OnlyOwnClosed, Returned, Hard
<1>10. Measures'
  <2>1. ASSUME Measured PROVE trem > 0 /\ trem <= hleft' + ahead'
    <3>1. hleft' >= hleft - d /\ ahead' >= ahead + d /\ hleft' \in Int /\ ahead' \in Int
      BY <1>4, <1>5, <2>1 DEF Measured, Running, Moved
    <3>2. trem > 0 /\ trem <= hleft + ahead
      BY <2>1 DEF SockInv, Measures
    <3> QED BY <1>2, <3>1, <3>2, BoundMoves, Zenon
  <2>2. ASSUME place = "softleft", softto > 0 PROVE softleft' <= softto + behind'
    <3>1. /\ softleft' = softleft - d \/ softleft' = -Past
          /\ softleft' \in Int /\ behind' \in Int /\ behind' >= behind - d /\ behind' >= 0
      BY <1>4, <1>5, <2>2 DEF Moved
    <3>2. softleft <= softto + behind
      BY <2>2 DEF SockInv, Measures
    <3> QED BY <1>2, <2>2, <3>1, <3>2, FollowedBound, Zenon
  <2>3. ASSUME place = "call", Hard, softto > 0 PROVE trem <= softto + behind'
    <3>1. behind' \in Int /\ behind' >= behind /\ behind' >= 0 /\ trem <= trem
      BY <1>1 DEF Moved
    <3>2. trem <= softto + behind
      BY <2>3 DEF SockInv, Measures
    <3> QED BY <1>2, <2>3, <3>1, <3>2, BoundGrows, Zenon
  <2> QED BY <1>3, <2>1, <2>2, <2>3 DEF Measures, Measured, Hard
<1>11. WaitBounded'
  <2>1. SUFFICES ASSUME place = "select", pc # "idle", Hard PROVE WaitBounded'
    BY <1>3 DEF SockInv, WaitBounded, Hard
  <2>2. to_us > 0
    BY <2>1 DEF SockInv, WaitBounded, Timed
  <2>3. left' = Later(left, d) /\ hleft' = Later(hleft, d)
    BY <1>4, <2>1, <2>2 DEF Followed, Timed, Running
  <2>4. /\ left <= hleft + ahead
        /\ tout > 0 => tout <= hleft + ahead
        /\ softto > 0 => left <= softto + behind /\ tout <= softto + behind
    BY <2>1 DEF SockInv, WaitBounded
  <2>5. /\ ahead' \in Nat /\ ahead' >= ahead /\ behind' \in Nat /\ behind' >= behind
        /\ behind' >= behind - d
        /\ tout' \in Nat /\ (tout' = 0 \/ tout' <= tout)
        /\ tout' > 0 => tout' <= tout - d \/ ahead' >= ahead + d
    BY <2>1 DEF Moved
  <2>6. left' <= hleft' + ahead'
    BY <1>1, <1>5, <2>3, <2>4, <2>5
  <2>7. tout' > 0 => tout' <= hleft' + ahead'
    BY <1>1, <1>5, <2>3, <2>4, <2>5
  <2>8. ASSUME softto > 0 PROVE left' <= softto + behind' /\ tout' <= softto + behind'
    <3>1. /\ left' = left - d \/ left' = -Past
          /\ left' \in Int /\ tout' \in Int /\ (tout' = 0 \/ tout' <= tout)
          /\ behind' \in Int /\ behind' >= behind - d /\ behind' >= behind /\ behind' >= 0
      BY <1>5, <2>3, <2>5
    <3>2. left <= softto + behind /\ tout <= softto + behind
      BY <2>4, <2>8
    <3> QED BY <1>2, <2>8, <3>1, <3>2, FollowedBound, BoundGrows, Zenon
  <2> QED BY <1>3, <2>1, <2>2, <2>6, <2>7, <2>8 DEF SockInv, WaitBounded, Timed
<1> QED BY <1>6, <1>7, <1>8, <1>9, <1>10, <1>11 DEF SockInv

LEMMA NextKeepsSock == SockInv /\ [SocketNext]_allvars => SockInv'
<1> SUFFICES ASSUME SockInv, [SocketNext]_allvars PROVE SockInv'
  OBVIOUS
<1>1. CASE UNCHANGED allvars
  BY <1>1, SelectUntouched
     DEF allvars, mkvars, params, times, fds, caller, SockInv, SocketTypeOK, Walk, Sockets,
         EarlyReturn, Measures, Measured, Waiting, Holding, Returned, Told, OnlyOwnClosed,
         WaitBounded, Hard, Timed, vars
<1>2. CASE Step
  BY <1>2, LoopKeeps, BackendKeeps, HardLeftKeeps, SoftEndKeeps, SoftLeftKeeps,
     StartWaitKeeps, GiveUpKeeps, SucceedKeeps, OptionsKeep
     DEF Step
<1>3. CASE SelectTop \/ SelectAnswer \/ Outside
  BY <1>3, InSelectKeeps DEF SelectTop, SelectAnswer, Outside
<1>4. CASE TickAll
  BY <1>4, TickMoves, TimeKeeps DEF SockInv
<1>5. ASSUME NEW d \in ClockSteps, StepClockAll(d) PROVE SockInv'
  BY <1>5, ClockMoves, TimeKeeps DEF SockInv
<1>6. ASSUME NEW f \in {"none", "backend"}, NEW o \in BOOLEAN, NEW soft \in SoftTimes,
             NEW hard \in HardTimes, Mksocket(f, o, soft, hard)
      PROVE  SockInv'
  BY <1>6, MksocketKeeps
<1>7. ASSUME NEW f \in SUBSET Fd, NEW to \in Timeouts, NEW ign \in BOOLEAN, Watch(f, to, ign)
      PROVE  SockInv'
  BY <1>7, WatchKeeps
<1> QED BY <1>1, <1>2, <1>3, <1>4, <1>5, <1>6, <1>7 DEF SocketNext

-----------------------------------------------------------------------------

\* On none of the ways round the loop of addr_mksocket() is a socket lost: at
\* most one is open, and after a call that is the returned one.
THEOREM SocketsKept == SocketSpec => []NoSocketLeaks
<1>1. SockInv => NoSocketLeaks
  <2> SUFFICES ASSUME SockInv PROVE NoSocketLeaks
    OBVIOUS
  <2>1. result \in Fd \cup {-1, 0}
    BY DEF SockInv, SocketTypeOK
  <2>2. result > 0 <=> result \in Fd
    BY <2>1, Descriptors
  <2>3. Holding => sck # -1
    BY Descriptors DEF SockInv, Walk
  <2>4. place \notin {"idle", "options"} => place = "loop" \/ Holding
    BY DEF SockInv, SocketTypeOK, Holding, Waiting
  <2> QED
    BY <2>2, <2>3, <2>4
       DEF SockInv, Walk, Sockets, EarlyReturn, Returned, NoSocketLeaks, ListFreed
<1> QED BY InitKeepsSock, NextKeepsSock, <1>1, PTL DEF SocketSpec

\* The returned socket is blocking again, connected or bound, and the caller was
\* told its address, whichever candidates failed before it: all of it when it is
\* an IPv4 address, and the first bytes, with the length of the whole, of an
\* IPv6 one.
THEOREM ResultUsable == SocketSpec => []ReturnedUsable
<1>1. SockInv => ReturnedUsable
  <2> SUFFICES ASSUME SockInv, place = "idle", result > 0 PROVE ReturnedUsable
    BY DEF ReturnedUsable
  <2>1. result \in Fd
    BY Descriptors DEF SockInv, SocketTypeOK
  <2> QED BY <2>1 DEF SockInv, Sockets, Returned, Told, ReturnedUsable
<1> QED BY InitKeepsSock, NextKeepsSock, <1>1, PTL DEF SocketSpec

\* With a hard timeout every wait for a socket has a deadline, which lies beyond
\* the hard one by no more than the clock moved on between the two readings and
\* was stepped on since, however often a signal restarts select().
THEOREM WaitsBounded == SocketSpec => []WaitBounded
<1>1. SockInv => WaitBounded
  BY DEF SockInv
<1> QED BY InitKeepsSock, NextKeepsSock, <1>1, PTL DEF SocketSpec

\* addr_mksocket() begins and discards calls of io_select(), but only the steps
\* of that function itself return from one.
LEMMA SocketStepReports ==
  ASSUME SockInv, [SocketNext]_allvars
  PROVE  Reports
<1>1. CASE SelectTop \/ SelectAnswer \/ Outside
  BY <1>1, ReturnReports, OthersDoNotReturn
     DEF SelectTop, SelectAnswer, Outside, Top, Answer, SockInv, SocketTypeOK, TypeOK, IInv
<1>2. CASE UNCHANGED pc
  BY <1>2 DEF Reports
<1>3. ASSUME NEW f, NEW to, NEW ign, Watch(f, to, ign) PROVE Reports
  BY <1>3 DEF Watch, Call, Reports
<1>4. CASE Step
  <2>1. StartWait => Reports
    BY DEF StartWait, Call, Reports
  <2>2. ~StartWait => UNCHANGED pc
    BY <1>4
       DEF Step, LoopEnd, LoopHardTimeout, Socket, Backend, BackendFails, HardLeft, TooLate,
           SoftEnd, SoftLeft, SoftTooLate, SelectFailed, Connected, Finish, FinishFails, Success,
           OptionsSet, OptionsFail,
           SelectGone, vars
  <2> QED BY <2>1, <2>2, <1>2
<1>5. CASE TickAll \/ \E d \in ClockSteps : StepClockAll(d)
  BY <1>5, <1>2 DEF TickAll, StepClockAll, AllFollowed
<1>6. ASSUME NEW f, NEW o, NEW soft, NEW hard, Mksocket(f, o, soft, hard) PROVE Reports
  BY <1>6, <1>2 DEF Mksocket, SelectGone
<1>7. CASE UNCHANGED allvars
  BY <1>7, <1>2 DEF allvars, vars
<1> QED BY <1>1, <1>3, <1>4, <1>5, <1>6, <1>7 DEF SocketNext

\* What io_select() reports to addr_mksocket(), or to a program that calls it
\* between two sockets, is so.
THEOREM SocketReportsAreTrue == SocketSpec => ReportsTruly
<1>1. SockInv /\ [SocketNext]_allvars => [Reports]_vars
  BY SocketStepReports
<1> QED
  BY InitKeepsSock, NextKeepsSock, <1>1, PTL DEF SocketSpec, ReportsTruly, Reports

-----------------------------------------------------------------------------
(* A program that prepares hostspecs between its sockets makes sockets as     *)
(* Mksocket says, so what is proved there holds of it, too.                   *)

\* What a program does with a hostspec touches neither addr_mksocket() nor
\* io_select().
THEOREM AddrImplementsMksocket == AddrSpec => SocketSpec
<1>1. AddrInit => SocketInit
  BY DEF AddrInit
<1>2. [AddrNext]_addrvars => [SocketNext]_allvars
  BY DEF AddrNext, Prepare, Use, addrvars
<1> QED BY <1>1, <1>2, PTL DEF AddrSpec, SocketSpec

\* No socket is lost on any way round the loop of addr_mksocket(), nor anything
\* else but for what the hard timeout's early return leaves.
THEOREM AddrKeepsSockets == AddrSpec => []NoSocketLeaks
BY AddrImplementsMksocket, SocketsKept, PTL

\* A returned socket is usable, and its address, but for the end of an IPv6 one,
\* is what the caller got.
THEOREM AddrResultUsable == AddrSpec => []ReturnedUsable
BY AddrImplementsMksocket, ResultUsable, PTL

\* No wait in io_select() exceeds the timeouts of addr_mksocket() by more than
\* the clock moved while they were handed over, or was stepped.
THEOREM AddrWaitsBounded == AddrSpec => []WaitBounded
BY AddrImplementsMksocket, WaitsBounded, PTL

\* io_select() reports nothing that is not so.
THEOREM AddrReportsTruly == AddrSpec => ReportsTruly
BY AddrImplementsMksocket, SocketReportsAreTrue, PTL

=============================================================================
