----------------------------- MODULE StrlistProofs -----------------------------
(***************************************************************************)
(* Proofs about Ptrlist and Strlist, for every set of elements, strings    *)
(* and positions and every number of nodes: the linked list is a sequence  *)
(* with an iterator, no node leaks, and the strings are owned by the       *)
(* places of the list.                                                     *)
(***************************************************************************)
EXTENDS Strlist, SequenceTheorems, WellFoundedInduction, TLAPS

\* A set of natural numbers has a least element.
LEMMA LeastOf ==
  ASSUME NEW S \in SUBSET Nat, S # {}
  PROVE  \E x \in S : \A y \in S : x <= y
<1> DEFINE R == OpToRel(<, Nat)
<1>1. IsWellFoundedOn(R, Nat)
  BY NatLessThanWellFounded
<1>2. R = {ss \in Nat \X Nat : ss[1] < ss[2]}
  BY DEF OpToRel
<1> HIDE DEF R
<1>3. PICK x \in S : \A y \in S : ~(<<y, x>> \in R)
  BY <1>1, WFMin
<1>4. \A y \in S : ~(y < x)
  BY <1>2, <1>3
<1> QED BY <1>4

\* A sequence of one element.
LEMMA OneIs ==
  ASSUME NEW S, NEW x \in S
  PROVE  <<x>> \in Seq(S) /\ Len(<<x>>) = 1 /\ <<x>>[1] = x
<1>1. <<x>> = [i \in 1 .. 1 |-> x]
  OBVIOUS
<1>2. [i \in 1 .. 1 |-> x] \in [1 .. 1 -> S]
  OBVIOUS
<1>3. \A T, m : m \in Nat => [1 .. m -> T] \subseteq Seq(T)
  BY SeqDef
<1> QED BY <1>1, <1>2, <1>3

-----------------------------------------------------------------------------
(* Chains of nodes *)

\* The node at a place of c; there is none behind the last.
NodeAt(c, i) == IF i \in 1 .. Len(c) THEN c[i] ELSE Null

\* The links nx, beginning with h, are those of the nodes of c, one after the
\* other, and no node outside of c has a link.
Linked(c, h, nx) ==
  /\ c \in Seq(Node)
  /\ \A i, j \in 1 .. Len(c) : c[i] = c[j] => i = j
  /\ h = NodeAt(c, 1)
  /\ \A i \in 1 .. Len(c) : nx[c[i]] = NodeAt(c, i + 1)
  /\ \A m \in Node : (\A i \in 1 .. Len(c) : c[i] # m) => nx[m] = Null

\* Chain, for any first node and any links.
ChainOf(h, nx) ==
  LET f[n \in Node \cup {Null}] == IF n = Null THEN <<>> ELSE <<n>> \o f[nx[n]]
  IN  f[h]

LEMMA NullNoNode == Null \notin Node
BY NodesAssumption DEF Null, Node

\* What is left of c from the place i on.
Rest(c, i) == SubSeq(c, i, Len(c))

LEMMA RestIs ==
  ASSUME NEW c \in Seq(Node), NEW i \in 1 .. Len(c)
  PROVE  Rest(c, i) = <<c[i]>> \o Rest(c, i + 1)
<1>1. Len(c) \in i .. Len(c)
  BY LenProperties
<1> QED BY <1>1, SubSeqRecursiveFirst DEF Rest

\* Following the links from the first node on gives the chain they link.
LEMMA ChainIs ==
  ASSUME NEW c, NEW h, NEW nx, Linked(c, h, nx)
  PROVE  ChainOf(h, nx) = c
<1>1. c \in Seq(Node) /\ Len(c) \in Nat
  BY LenProperties DEF Linked
<1>2. \A i \in 1 .. Len(c) : c[i] \in Node /\ c[i] # Null
  BY <1>1, ElementOfSeq, NullNoNode
<1> DEFINE
      Place(n) == CHOOSE i \in 1 .. Len(c) : c[i] = n
      Step(g, n) == IF n = Null THEN <<>> ELSE <<n>> \o g[nx[n]]
      g == [n \in Node \cup {Null} |->
              IF n = Null THEN <<>>
              ELSE IF \E i \in 1 .. Len(c) : c[i] = n THEN Rest(c, Place(n)) ELSE <<n>>]
      f == CHOOSE f : f = [n \in Node \cup {Null} |-> Step(f, n)]
<1>3. g[Null] = <<>>
  OBVIOUS
<1>4. \A i \in 1 .. Len(c) : g[c[i]] = Rest(c, i)
  <2> SUFFICES ASSUME NEW i \in 1 .. Len(c) PROVE g[c[i]] = Rest(c, i)
    OBVIOUS
  <2>1. Place(c[i]) \in 1 .. Len(c) /\ c[Place(c[i])] = c[i]
    OBVIOUS
  <2>2. Place(c[i]) = i
    BY <2>1 DEF Linked
  <2>3. g[c[i]] = Rest(c, Place(c[i]))
    BY <1>2
  <2> QED BY <2>2, <2>3
<1>5. \A n \in Node : (\A i \in 1 .. Len(c) : c[i] # n) => g[n] = <<n>>
  BY NullNoNode
<1> HIDE DEF Place
<1>6. Rest(c, Len(c) + 1) = <<>>
  <2>1. Len(c) + 1 > Len(c)
    BY <1>1
  <2> QED BY <1>1, <2>1, SubSeqEmpty DEF Rest
<1>7. \A i \in 1 .. Len(c) + 1 : g[NodeAt(c, i)] = Rest(c, i)
  <2> SUFFICES ASSUME NEW i \in 1 .. Len(c) + 1 PROVE g[NodeAt(c, i)] = Rest(c, i)
    OBVIOUS
  <2>1. CASE i \in 1 .. Len(c)
    BY <1>4, <2>1 DEF NodeAt
  <2>2. CASE i \notin 1 .. Len(c)
    <3>1. i = Len(c) + 1
      BY <1>1, <2>2
    <3>2. NodeAt(c, i) = Null
      BY <2>2 DEF NodeAt
    <3> QED BY <1>3, <1>6, <3>1, <3>2
  <2> QED BY <2>1, <2>2
<1>8. \A n \in Node \cup {Null} : g[n] = Step(g, n)
  <2> SUFFICES ASSUME NEW n \in Node PROVE g[n] = Step(g, n)
    BY <1>3
  <2>1. Step(g, n) = <<n>> \o g[nx[n]]
    BY NullNoNode
  <2>2. ASSUME NEW i \in 1 .. Len(c), c[i] = n PROVE g[n] = Step(g, n)
    <3>1. nx[n] = NodeAt(c, i + 1)
      BY <2>2 DEF Linked
    <3>2. i + 1 \in 1 .. Len(c) + 1
      BY <1>1
    <3>3. g[nx[n]] = Rest(c, i + 1)
      BY <1>7, <3>1, <3>2
    <3>4. g[n] = Rest(c, i)
      BY <1>4, <2>2
    <3> HIDE DEF g
    <3> QED BY <1>1, <2>1, <2>2, <3>3, <3>4, RestIs
  <2>3. ASSUME \A i \in 1 .. Len(c) : c[i] # n PROVE g[n] = Step(g, n)
    <3>1. nx[n] = Null
      BY <2>3 DEF Linked
    <3>2. g[nx[n]] = <<>> /\ g[n] = <<n>>
      BY <1>3, <1>5, <2>3, <3>1
    <3>3. <<n>> \in Seq(Node)
      BY OneIs
    <3> HIDE DEF g
    <3>4. <<n>> \o <<>> = <<n>>
      BY <3>3, ConcatEmptySeq
    <3> QED BY <2>1, <3>2, <3>4
  <2> QED BY <2>2, <2>3
<1>9. g = [n \in Node \cup {Null} |-> Step(g, n)]
  <2>1. g = [n \in Node \cup {Null} |-> g[n]]
    OBVIOUS
  <2> HIDE DEF g
  <2> QED BY <1>8, <2>1
<1> HIDE DEF g
<1>10. f = [n \in Node \cup {Null} |-> Step(f, n)]
  BY <1>9
<1>11. ChainOf(h, nx) = f[h]
  BY DEF ChainOf
<1> HIDE DEF f
<1>12. f[Null] = <<>>
  BY <1>10
<1>13. \A i \in 1 .. Len(c) : f[c[i]] = <<c[i]>> \o f[NodeAt(c, i + 1)]
  <2> SUFFICES ASSUME NEW i \in 1 .. Len(c)
               PROVE  f[c[i]] = <<c[i]>> \o f[NodeAt(c, i + 1)]
    OBVIOUS
  <2>1. f[c[i]] = Step(f, c[i])
    BY <1>2, <1>10
  <2>2. Step(f, c[i]) = <<c[i]>> \o f[nx[c[i]]]
    BY <1>2
  <2> QED BY <2>1, <2>2 DEF Linked
<1> HIDE DEF Step
<1> DEFINE Bad == {k \in 0 .. Len(c) : f[NodeAt(c, Len(c) + 1 - k)] # Rest(c, Len(c) + 1 - k)}
<1>14. Bad = {}
  <2> SUFFICES ASSUME Bad # {} PROVE FALSE
    OBVIOUS
  <2>1. Bad \in SUBSET Nat
    BY <1>1
  <2>2. PICK k \in Bad : \A j \in Bad : k <= j
    BY <2>1, LeastOf
  <2>3. k \in 0 .. Len(c)
    OBVIOUS
  <2>4. CASE k = 0
    <3>1. Len(c) + 1 - k = Len(c) + 1 /\ Len(c) + 1 \notin 1 .. Len(c)
      BY <1>1, <2>4
    <3>2. NodeAt(c, Len(c) + 1) = Null
      BY <3>1 DEF NodeAt
    <3> QED BY <1>6, <1>12, <3>1, <3>2
  <2>5. CASE k # 0
    <3> DEFINE i == Len(c) + 1 - k
    <3>1. i \in 1 .. Len(c) /\ k - 1 \in 0 .. Len(c) /\ i + 1 = Len(c) + 1 - (k - 1)
      BY <1>1, <2>3, <2>5
    <3>2. k - 1 \notin Bad
      BY <1>1, <2>2, <2>3
    <3>3. f[NodeAt(c, i + 1)] = Rest(c, i + 1)
      BY <3>1, <3>2
    <3>4. NodeAt(c, i) = c[i]
      BY <3>1 DEF NodeAt
    <3>5. f[NodeAt(c, i)] # Rest(c, i)
      OBVIOUS
    <3> HIDE DEF i, Bad
    <3> QED BY <1>1, <1>13, <3>1, <3>3, <3>4, <3>5, RestIs
  <2> QED BY <2>4, <2>5
<1>15. f[NodeAt(c, 1)] = Rest(c, 1)
  <2>1. Len(c) \in 0 .. Len(c) /\ Len(c) + 1 - Len(c) = 1
    BY <1>1
  <2> QED BY <1>14, <2>1
<1>16. Rest(c, 1) = c
  BY <1>1, SubSeqFull DEF Rest
<1> QED BY <1>11, <1>15, <1>16 DEF Linked

-----------------------------------------------------------------------------
(* Inserting and removing, place by place *)

Ins(s, k, x) ==
  [j \in 1 .. Len(s) + 1 |-> IF j <= k THEN s[j] ELSE IF j = k + 1 THEN x ELSE s[j - 1]]

Rem(s, k) == [j \in 1 .. Len(s) - 1 |-> IF j <= k THEN s[j] ELSE s[j + 1]]

LEMMA InsIs ==
  ASSUME NEW S, NEW s \in Seq(S), NEW k \in 0 .. Len(s), NEW x \in S
  PROVE  /\ Ins(s, k, x) \in Seq(S)
         /\ Len(Ins(s, k, x)) = Len(s) + 1
<1>1. Len(s) \in Nat /\ \A j \in 1 .. Len(s) : s[j] \in S
  BY LenProperties, ElementOfSeq
<1>2. \A j \in 1 .. Len(s) + 1 :
        (IF j <= k THEN s[j] ELSE IF j = k + 1 THEN x ELSE s[j - 1]) \in S
  BY <1>1
<1>3. Ins(s, k, x) \in [1 .. Len(s) + 1 -> S]
  BY <1>2 DEF Ins
<1>4. Len(s) + 1 \in Nat
  BY <1>1
<1> QED BY <1>3, <1>4, SeqDef, LenProperties

LEMMA RemIs ==
  ASSUME NEW S, NEW s \in Seq(S), NEW k \in 0 .. Len(s) - 1
  PROVE  /\ Rem(s, k) \in Seq(S)
         /\ Len(Rem(s, k)) = Len(s) - 1
<1>1. Len(s) \in Nat /\ \A j \in 1 .. Len(s) : s[j] \in S
  BY LenProperties, ElementOfSeq
<1>2. \A j \in 1 .. Len(s) - 1 : (IF j <= k THEN s[j] ELSE s[j + 1]) \in S
  BY <1>1
<1>3. Rem(s, k) \in [1 .. Len(s) - 1 -> S]
  BY <1>2 DEF Rem
<1>4. Len(s) - 1 \in Nat
  BY <1>1
<1> QED BY <1>3, <1>4, SeqDef, LenProperties

\* A part of a sequence, also when it is empty.
LEMMA PartIs ==
  ASSUME NEW S, NEW s \in Seq(S), NEW a \in Int, NEW b \in Int,
         1 <= a, a <= b + 1, b <= Len(s)
  PROVE  /\ SubSeq(s, a, b) \in Seq(S)
         /\ Len(SubSeq(s, a, b)) = b - a + 1
         /\ \A j \in 1 .. b - a + 1 : SubSeq(s, a, b)[j] = s[a + j - 1]
<1>1. Len(s) \in Nat /\ \A j \in 1 .. Len(s) : s[j] \in S
  BY LenProperties, ElementOfSeq
<1>2. \A j \in a .. b : s[j] \in S
  BY <1>1
<1> QED BY <1>2, SubSeqProperties

\* ElementList's insertion and removal.
LEMMA InsertedIs ==
  ASSUME NEW S, NEW s \in Seq(S), NEW k \in 0 .. Len(s), NEW x \in S
  PROVE  List!InsertedAt(s, k, x) = Ins(s, k, x)
<1>1. Len(s) \in Nat
  BY LenProperties
<1> DEFINE a == SubSeq(s, 1, k)
           b == SubSeq(s, k + 1, Len(s))
           all == a \o <<x>> \o b
<1>2. a \in Seq(S) /\ Len(a) = k /\ \A j \in 1 .. k : a[j] = s[1 + j - 1]
  BY <1>1, PartIs
<1>3. /\ b \in Seq(S) /\ Len(b) = Len(s) - k
      /\ \A j \in 1 .. Len(s) - k : b[j] = s[k + 1 + j - 1]
  BY <1>1, PartIs
<1>4. <<x>> \in Seq(S) /\ Len(<<x>>) = 1 /\ <<x>>[1] = x
  BY OneIs
<1>5. List!InsertedAt(s, k, x) = all
  BY DEF List!InsertedAt
<1> HIDE DEF a, b
<1> DEFINE ax == a \o <<x>>
<1>6. /\ ax \in Seq(S) /\ Len(ax) = k + 1
      /\ \A j \in 1 .. k + 1 : ax[j] = IF j <= k THEN a[j] ELSE <<x>>[j - k]
  BY <1>2, <1>4, ConcatProperties
<1>7. all = ax \o b
  OBVIOUS
<1> HIDE DEF ax, all
<1>8. /\ all \in Seq(S) /\ Len(all) = Len(s) + 1
      /\ \A j \in 1 .. Len(s) + 1 : all[j] = IF j <= k + 1 THEN ax[j] ELSE b[j - (k + 1)]
  BY <1>1, <1>3, <1>6, <1>7, ConcatProperties
<1>9. \A j \in 1 .. Len(s) + 1 : all[j] = Ins(s, k, x)[j]
  <2> SUFFICES ASSUME NEW j \in 1 .. Len(s) + 1 PROVE all[j] = Ins(s, k, x)[j]
    OBVIOUS
  <2>1. Ins(s, k, x)[j] = IF j <= k THEN s[j] ELSE IF j = k + 1 THEN x ELSE s[j - 1]
    BY DEF Ins
  <2>2. CASE j <= k
    <3>1. j \in 1 .. k /\ j \in 1 .. k + 1 /\ 1 + j - 1 = j /\ j <= k + 1
      BY <1>1, <2>2
    <3> QED BY <1>2, <1>6, <1>8, <2>1, <2>2, <3>1
  <2>3. CASE j = k + 1
    <3>1. j \in 1 .. k + 1 /\ ~(j <= k) /\ j - k = 1 /\ j <= k + 1
      BY <1>1, <2>3
    <3> QED BY <1>4, <1>6, <1>8, <2>1, <2>3, <3>1
  <2>4. CASE j > k + 1
    <3>1. /\ j - (k + 1) \in 1 .. Len(s) - k /\ ~(j <= k + 1) /\ ~(j <= k) /\ j # k + 1
          /\ k + 1 + (j - (k + 1)) - 1 = j - 1
      BY <1>1, <2>4
    <3>2. b[j - (k + 1)] = s[j - 1]
      BY <1>3, <3>1
    <3> QED BY <1>8, <2>1, <3>1, <3>2
  <2> QED BY <1>1, <2>2, <2>3, <2>4
<1>10. Ins(s, k, x) \in Seq(S) /\ Len(Ins(s, k, x)) = Len(s) + 1
  BY InsIs
<1>11. all = Ins(s, k, x)
  BY <1>8, <1>9, <1>10, SeqEqual
<1> QED BY <1>5, <1>11

LEMMA RemovedIs ==
  ASSUME NEW S, NEW s \in Seq(S), NEW k \in 0 .. Len(s) - 1
  PROVE  List!RemovedAt(s, k) = Rem(s, k)
<1>1. Len(s) \in Nat
  BY LenProperties
<1> DEFINE a == SubSeq(s, 1, k)
           b == SubSeq(s, k + 2, Len(s))
           all == a \o b
<1>2. a \in Seq(S) /\ Len(a) = k /\ \A j \in 1 .. k : a[j] = s[1 + j - 1]
  BY <1>1, PartIs
<1>3. /\ b \in Seq(S) /\ Len(b) = Len(s) - (k + 2) + 1
      /\ \A j \in 1 .. Len(s) - (k + 2) + 1 : b[j] = s[k + 2 + j - 1]
  BY <1>1, PartIs
<1>4. List!RemovedAt(s, k) = all
  BY DEF List!RemovedAt
<1> HIDE DEF a, b
<1>5. Len(a) + Len(b) = Len(s) - 1
  BY <1>1, <1>2, <1>3
<1>6. /\ all \in Seq(S) /\ Len(all) = Len(a) + Len(b)
      /\ \A j \in 1 .. Len(a) + Len(b) : all[j] = IF j <= Len(a) THEN a[j] ELSE b[j - Len(a)]
  BY <1>2, <1>3, ConcatProperties
<1> HIDE DEF all
<1>7. \A j \in 1 .. Len(s) - 1 : all[j] = Rem(s, k)[j]
  <2> SUFFICES ASSUME NEW j \in 1 .. Len(s) - 1 PROVE all[j] = Rem(s, k)[j]
    OBVIOUS
  <2>1. Rem(s, k)[j] = IF j <= k THEN s[j] ELSE s[j + 1]
    BY DEF Rem
  <2>2. CASE j <= k
    <3>1. j \in 1 .. k /\ 1 + j - 1 = j
      BY <1>1, <2>2
    <3> QED BY <1>2, <1>5, <1>6, <2>1, <2>2, <3>1
  <2>3. CASE ~(j <= k)
    <3>1. j - k \in 1 .. Len(s) - (k + 2) + 1 /\ k + 2 + (j - k) - 1 = j + 1
      BY <1>1, <2>3
    <3>2. b[j - k] = s[j + 1]
      BY <1>3, <3>1
    <3> QED BY <1>2, <1>5, <1>6, <2>1, <2>3, <3>2
  <2> QED BY <2>2, <2>3
<1>8. Rem(s, k) \in Seq(S) /\ Len(Rem(s, k)) = Len(s) - 1
  BY RemIs
<1>9. all = Rem(s, k)
  BY <1>5, <1>6, <1>7, <1>8, SeqEqual
<1> QED BY <1>4, <1>9

-----------------------------------------------------------------------------
(* Links when a node comes, goes, or all do *)

\* A node linked in behind the k-th one.
LEMMA InsertLinks ==
  ASSUME NEW c, NEW h, NEW nx, Linked(c, h, nx),
         NEW k \in 0 .. Len(c), NEW m \in Node, \A i \in 1 .. Len(c) : c[i] # m,
         NEW h2, h2 = IF k = 0 THEN m ELSE h,
         NEW nx2, \A n \in Node : nx2[n] = IF n = m THEN NodeAt(c, k + 1)
                                           ELSE IF k > 0 /\ n = c[k] THEN m ELSE nx[n]
  PROVE  Linked(Ins(c, k, m), h2, nx2)
<1> DEFINE d == Ins(c, k, m)
<1>1. c \in Seq(Node) /\ Len(c) \in Nat /\ \A i \in 1 .. Len(c) : c[i] \in Node
  BY LenProperties, ElementOfSeq DEF Linked
<1>2. d \in Seq(Node) /\ Len(d) = Len(c) + 1
  BY <1>1, InsIs
<1>3. \A j \in 1 .. Len(c) + 1 :
        d[j] = IF j <= k THEN c[j] ELSE IF j = k + 1 THEN m ELSE c[j - 1]
  BY DEF Ins
<1> HIDE DEF d
<1>4. \A j \in 1 .. k : j \in 1 .. Len(c) /\ d[j] = c[j]
  BY <1>1, <1>3
<1>5. d[k + 1] = m
  BY <1>1, <1>3
<1>6. \A j \in k + 2 .. Len(c) + 1 : j - 1 \in 1 .. Len(c) /\ d[j] = c[j - 1]
  BY <1>1, <1>3
<1>7. \A i, j \in 1 .. Len(c) : c[i] = c[j] => i = j
  BY DEF Linked
<1>8. \A i, j \in 1 .. Len(d) : d[i] = d[j] => i = j
  <2> SUFFICES ASSUME NEW i \in 1 .. Len(d), NEW j \in 1 .. Len(d), d[i] = d[j]
               PROVE  i = j
    OBVIOUS
  <2>1. i \in 1 .. k \/ i = k + 1 \/ i \in k + 2 .. Len(c) + 1
    BY <1>1, <1>2
  <2>2. j \in 1 .. k \/ j = k + 1 \/ j \in k + 2 .. Len(c) + 1
    BY <1>1, <1>2
  <2>3. CASE i = k + 1
    BY <1>4, <1>5, <1>6, <2>2, <2>3
  <2>4. CASE j = k + 1
    BY <1>4, <1>5, <1>6, <2>1, <2>4
  <2>5. CASE i \in 1 .. k /\ j \in 1 .. k
    BY <1>4, <1>7, <2>5
  <2>6. CASE i \in k + 2 .. Len(c) + 1 /\ j \in k + 2 .. Len(c) + 1
    <3>1. i - 1 = j - 1
      BY <1>6, <1>7, <2>6
    <3> QED BY <1>1, <2>6, <3>1
  <2>7. CASE i \in 1 .. k /\ j \in k + 2 .. Len(c) + 1
    <3>1. i = j - 1
      BY <1>4, <1>6, <1>7, <2>7
    <3> QED BY <1>1, <2>7, <3>1
  <2>8. CASE i \in k + 2 .. Len(c) + 1 /\ j \in 1 .. k
    <3>1. i - 1 = j
      BY <1>4, <1>6, <1>7, <2>8
    <3> QED BY <1>1, <2>8, <3>1
  <2> QED BY <2>1, <2>2, <2>3, <2>4, <2>5, <2>6, <2>7, <2>8
<1>9. h2 = NodeAt(d, 1)
  <2>1. 1 \in 1 .. Len(d)
    BY <1>1, <1>2
  <2>2. CASE k = 0
    BY <1>5, <2>1, <2>2 DEF NodeAt
  <2>3. CASE k # 0
    <3>1. 1 \in 1 .. k
      BY <2>3
    <3>2. h = c[1]
      BY <1>4, <3>1 DEF Linked, NodeAt
    <3> QED BY <1>4, <2>1, <2>3, <3>1, <3>2 DEF NodeAt
  <2> QED BY <2>2, <2>3
<1>10. \A i \in 1 .. Len(d) : nx2[d[i]] = NodeAt(d, i + 1)
  <2> SUFFICES ASSUME NEW i \in 1 .. Len(d) PROVE nx2[d[i]] = NodeAt(d, i + 1)
    OBVIOUS
  <2>1. CASE i \in 1 .. k /\ i # k
    <3>1. i + 1 \in 1 .. k /\ i + 1 \in 1 .. Len(d) /\ i \in 1 .. Len(c) /\ k \in 1 .. Len(c)
      BY <1>1, <1>2, <2>1
    <3>2. c[i] # m /\ c[i] # c[k] /\ c[i] \in Node
      BY <1>1, <1>7, <2>1, <3>1
    <3>3. nx2[c[i]] = nx[c[i]]
      BY <3>2
    <3>4. nx[c[i]] = NodeAt(c, i + 1)
      BY <3>1 DEF Linked
    <3>5. NodeAt(c, i + 1) = c[i + 1]
      BY <1>4, <3>1 DEF NodeAt
    <3>6. NodeAt(d, i + 1) = d[i + 1]
      BY <3>1 DEF NodeAt
    <3> QED BY <1>4, <2>1, <3>1, <3>3, <3>4, <3>5, <3>6
  <2>2. CASE i = k
    <3>1. k > 0 /\ k \in 1 .. k /\ k \in 1 .. Len(c) /\ k + 1 \in 1 .. Len(d)
      BY <1>1, <1>2, <2>2
    <3>2. c[k] # m /\ c[k] \in Node
      BY <1>1, <3>1
    <3>3. nx2[c[k]] = m
      BY <3>1, <3>2
    <3>4. NodeAt(d, k + 1) = m
      BY <1>5, <3>1 DEF NodeAt
    <3> QED BY <1>4, <2>2, <3>1, <3>3, <3>4
  <2>3. CASE i = k + 1
    <3>1. nx2[d[i]] = NodeAt(c, k + 1)
      BY <1>5, <2>3
    <3>2. CASE k = Len(c)
      <4>1. k + 1 \notin 1 .. Len(c) /\ i + 1 \notin 1 .. Len(d)
        BY <1>1, <1>2, <2>3, <3>2
      <4> QED BY <3>1, <4>1 DEF NodeAt
    <3>3. CASE k # Len(c)
      <4>1. /\ k + 1 \in 1 .. Len(c) /\ i + 1 \in 1 .. Len(d) /\ i + 1 \in k + 2 .. Len(c) + 1
            /\ (i + 1) - 1 = k + 1
        BY <1>1, <1>2, <2>3, <3>3
      <4>2. d[i + 1] = c[k + 1]
        BY <1>6, <4>1
      <4> QED BY <3>1, <4>1, <4>2 DEF NodeAt
    <3> QED BY <3>2, <3>3
  <2>4. CASE i \in k + 2 .. Len(c) + 1
    <3>1. d[i] = c[i - 1] /\ i - 1 \in 1 .. Len(c) /\ i - 1 # k /\ (i - 1) + 1 = i
      BY <1>1, <1>6, <2>4
    <3>2. c[i - 1] # m /\ c[i - 1] \in Node /\ (k > 0 => c[i - 1] # c[k])
      <4>1. k > 0 => k \in 1 .. Len(c)
        BY <1>1
      <4> QED BY <1>1, <1>7, <3>1, <4>1
    <3>3. nx2[c[i - 1]] = nx[c[i - 1]]
      BY <3>2
    <3>4. nx[c[i - 1]] = NodeAt(c, i)
      BY <3>1 DEF Linked
    <3>5. CASE i = Len(c) + 1
      <4>1. i \notin 1 .. Len(c) /\ i + 1 \notin 1 .. Len(d)
        BY <1>1, <1>2, <3>5
      <4> QED BY <3>1, <3>3, <3>4, <4>1 DEF NodeAt
    <3>6. CASE i # Len(c) + 1
      <4>1. /\ i \in 1 .. Len(c) /\ i + 1 \in 1 .. Len(d) /\ i + 1 \in k + 2 .. Len(c) + 1
            /\ (i + 1) - 1 = i
        BY <1>1, <1>2, <2>4, <3>6
      <4>2. d[i + 1] = c[i]
        BY <1>6, <4>1
      <4> QED BY <3>1, <3>3, <3>4, <4>1, <4>2 DEF NodeAt
    <3> QED BY <3>5, <3>6
  <2>5. i \in 1 .. k \/ i = k + 1 \/ i \in k + 2 .. Len(c) + 1
    BY <1>1, <1>2
  <2> QED BY <2>1, <2>2, <2>3, <2>4, <2>5
<1>11. ASSUME NEW n \in Node, \A i \in 1 .. Len(d) : d[i] # n
       PROVE  nx2[n] = Null
  <2>1. k + 1 \in 1 .. Len(d)
    BY <1>1, <1>2
  <2>2. n # m
    BY <1>5, <1>11, <2>1
  <2>3. ASSUME NEW i \in 1 .. Len(c) PROVE c[i] # n
    <3>1. CASE i <= k
      <4>1. i \in 1 .. k /\ i \in 1 .. Len(d)
        BY <1>1, <1>2, <3>1
      <4> QED BY <1>4, <1>11, <4>1
    <3>2. CASE ~(i <= k)
      <4>1. i + 1 \in k + 2 .. Len(c) + 1 /\ i + 1 \in 1 .. Len(d) /\ (i + 1) - 1 = i
        BY <1>1, <1>2, <3>2
      <4> QED BY <1>6, <1>11, <4>1
    <3> QED BY <3>1, <3>2
  <2>4. k > 0 => k \in 1 .. Len(c)
    BY <1>1
  <2>5. nx2[n] = nx[n]
    BY <2>2, <2>3, <2>4
  <2>6. nx[n] = Null
    BY <2>3 DEF Linked
  <2> QED BY <2>5, <2>6
<1> QED BY <1>2, <1>8, <1>9, <1>10, <1>11 DEF d, Linked

\* The node behind the k-th one linked out and freed.
LEMMA RemoveLinks ==
  ASSUME NEW c, NEW h, NEW nx, Linked(c, h, nx),
         NEW k \in 0 .. Len(c) - 1,
         NEW h2, h2 = IF k = 0 THEN NodeAt(c, 2) ELSE h,
         NEW nx2, \A n \in Node : nx2[n] = IF n = c[k + 1] THEN Null
                                           ELSE IF k > 0 /\ n = c[k] THEN NodeAt(c, k + 2)
                                           ELSE nx[n]
  PROVE  Linked(Rem(c, k), h2, nx2)
<1> DEFINE d == Rem(c, k)
<1>1. c \in Seq(Node) /\ Len(c) \in Nat /\ \A i \in 1 .. Len(c) : c[i] \in Node
  BY LenProperties, ElementOfSeq DEF Linked
<1>2. d \in Seq(Node) /\ Len(d) = Len(c) - 1
  BY <1>1, RemIs
<1>3. \A j \in 1 .. Len(c) - 1 : d[j] = IF j <= k THEN c[j] ELSE c[j + 1]
  BY DEF Rem
<1> HIDE DEF d
<1>4. \A j \in 1 .. k : j \in 1 .. Len(c) /\ j \in 1 .. Len(d) /\ d[j] = c[j]
  BY <1>1, <1>2, <1>3
<1>5. \A j \in k + 1 .. Len(c) - 1 : j + 1 \in 1 .. Len(c) /\ d[j] = c[j + 1]
  BY <1>1, <1>3
<1>6. \A j \in 1 .. Len(d) : j \in 1 .. k \/ j \in k + 1 .. Len(c) - 1
  BY <1>1, <1>2
<1>7. \A i, j \in 1 .. Len(c) : c[i] = c[j] => i = j
  BY DEF Linked
<1>0. k + 1 \in 1 .. Len(c)
  BY <1>1
<1>8. \A i, j \in 1 .. Len(d) : d[i] = d[j] => i = j
  <2> SUFFICES ASSUME NEW i \in 1 .. Len(d), NEW j \in 1 .. Len(d), d[i] = d[j]
               PROVE  i = j
    OBVIOUS
  <2>1. CASE i \in 1 .. k /\ j \in 1 .. k
    BY <1>4, <1>7, <2>1
  <2>2. CASE i \in k + 1 .. Len(c) - 1 /\ j \in k + 1 .. Len(c) - 1
    <3>1. i + 1 = j + 1
      BY <1>5, <1>7, <2>2
    <3> QED BY <1>1, <2>2, <3>1
  <2>3. CASE i \in 1 .. k /\ j \in k + 1 .. Len(c) - 1
    <3>1. i = j + 1
      BY <1>4, <1>5, <1>7, <2>3
    <3> QED BY <1>1, <2>3, <3>1
  <2>4. CASE i \in k + 1 .. Len(c) - 1 /\ j \in 1 .. k
    <3>1. i + 1 = j
      BY <1>4, <1>5, <1>7, <2>4
    <3> QED BY <1>1, <2>4, <3>1
  <2> QED BY <1>6, <2>1, <2>2, <2>3, <2>4
<1>9. h2 = NodeAt(d, 1)
  <2>1. CASE k = 0
    <3>1. h2 = NodeAt(c, 2)
      BY <2>1
    <3>2. CASE Len(c) = 1
      <4>1. 2 \notin 1 .. Len(c) /\ 1 \notin 1 .. Len(d)
        BY <1>2, <3>2
      <4> QED BY <3>1, <4>1 DEF NodeAt
    <3>3. CASE Len(c) # 1
      <4>1. 2 \in 1 .. Len(c) /\ 1 \in 1 .. Len(d) /\ 1 \in k + 1 .. Len(c) - 1 /\ 1 + 1 = 2
        BY <1>0, <1>1, <1>2, <2>1, <3>3
      <4>2. d[1] = c[2]
        BY <1>5, <4>1
      <4> QED BY <3>1, <4>1, <4>2 DEF NodeAt
    <3> QED BY <3>2, <3>3
  <2>2. CASE k # 0
    <3>1. 1 \in 1 .. k
      BY <2>2
    <3>2. h = c[1]
      BY <1>4, <3>1 DEF Linked, NodeAt
    <3> QED BY <1>4, <2>2, <3>1, <3>2 DEF NodeAt
  <2> QED BY <2>1, <2>2
<1>10. \A i \in 1 .. Len(d) : nx2[d[i]] = NodeAt(d, i + 1)
  <2> SUFFICES ASSUME NEW i \in 1 .. Len(d) PROVE nx2[d[i]] = NodeAt(d, i + 1)
    OBVIOUS
  <2>1. CASE i \in 1 .. k /\ i # k
    <3>1. i + 1 \in 1 .. k /\ i \in 1 .. Len(c) /\ k \in 1 .. Len(c)
      BY <1>1, <2>1
    <3>2. c[i] # c[k + 1] /\ c[i] # c[k] /\ c[i] \in Node
      <4>1. i # k + 1
        BY <1>1, <3>1
      <4> QED BY <1>0, <1>1, <1>7, <2>1, <3>1, <4>1
    <3>3. nx2[c[i]] = nx[c[i]]
      BY <3>2
    <3>4. nx[c[i]] = NodeAt(c, i + 1)
      BY <3>1 DEF Linked
    <3>5. NodeAt(c, i + 1) = c[i + 1]
      BY <1>4, <3>1 DEF NodeAt
    <3>6. NodeAt(d, i + 1) = d[i + 1]
      BY <1>4, <3>1 DEF NodeAt
    <3> QED BY <1>4, <2>1, <3>1, <3>3, <3>4, <3>5, <3>6
  <2>2. CASE i = k
    <3>1. k > 0 /\ k \in 1 .. k /\ k \in 1 .. Len(c) /\ k # k + 1
      BY <1>1, <2>2
    <3>2. c[k] # c[k + 1] /\ c[k] \in Node
      BY <1>0, <1>1, <1>7, <3>1
    <3>3. nx2[c[k]] = NodeAt(c, k + 2)
      BY <3>1, <3>2
    <3>4. CASE k + 1 = Len(c)
      <4>1. k + 2 \notin 1 .. Len(c) /\ i + 1 \notin 1 .. Len(d)
        BY <1>1, <1>2, <2>2, <3>4
      <4>2. NodeAt(c, k + 2) = Null /\ NodeAt(d, i + 1) = Null
        BY <4>1 DEF NodeAt
      <4> QED BY <1>4, <2>2, <3>1, <3>3, <4>2
    <3>5. CASE k + 1 # Len(c)
      <4>1. /\ k + 2 \in 1 .. Len(c) /\ k + 1 \in 1 .. Len(d) /\ k + 1 \in k + 1 .. Len(c) - 1
            /\ (k + 1) + 1 = k + 2
        BY <1>1, <1>2, <3>5
      <4>2. d[k + 1] = c[k + 2]
        BY <1>5, <4>1
      <4>3. NodeAt(c, k + 2) = c[k + 2] /\ NodeAt(d, k + 1) = d[k + 1]
        BY <4>1 DEF NodeAt
      <4> QED BY <1>4, <2>2, <3>1, <3>3, <4>2, <4>3
    <3> QED BY <3>4, <3>5
  <2>3. CASE i \in k + 1 .. Len(c) - 1
    <3>1. d[i] = c[i + 1] /\ i + 1 \in 1 .. Len(c) /\ i + 1 # k + 1 /\ i + 1 # k
      BY <1>1, <1>5, <2>3
    <3>2. c[i + 1] # c[k + 1] /\ c[i + 1] \in Node /\ (k > 0 => c[i + 1] # c[k])
      <4>1. k > 0 => k \in 1 .. Len(c)
        BY <1>1
      <4> QED BY <1>0, <1>1, <1>7, <3>1, <4>1
    <3>3. nx2[c[i + 1]] = nx[c[i + 1]]
      BY <3>2
    <3>4. nx[c[i + 1]] = NodeAt(c, (i + 1) + 1)
      BY <3>1 DEF Linked
    <3>5. CASE i = Len(c) - 1
      <4>1. (i + 1) + 1 \notin 1 .. Len(c) /\ i + 1 \notin 1 .. Len(d)
        BY <1>1, <1>2, <3>5
      <4> QED BY <3>1, <3>3, <3>4, <4>1 DEF NodeAt
    <3>6. CASE i # Len(c) - 1
      <4>1. /\ (i + 1) + 1 \in 1 .. Len(c) /\ i + 1 \in 1 .. Len(d)
            /\ i + 1 \in k + 1 .. Len(c) - 1
        BY <1>1, <1>2, <2>3, <3>6
      <4>2. d[i + 1] = c[(i + 1) + 1]
        BY <1>5, <4>1
      <4> QED BY <3>1, <3>3, <3>4, <4>1, <4>2 DEF NodeAt
    <3> QED BY <3>5, <3>6
  <2> QED BY <1>6, <2>1, <2>2, <2>3
<1>11. ASSUME NEW n \in Node, \A i \in 1 .. Len(d) : d[i] # n
       PROVE  nx2[n] = Null
  <2>1. CASE n = c[k + 1]
    BY <2>1
  <2>2. CASE n # c[k + 1]
    <3>1. ASSUME NEW i \in 1 .. Len(c) PROVE c[i] # n
      <4>1. CASE i <= k
        <5>1. i \in 1 .. k
          BY <1>1, <4>1
        <5> QED BY <1>4, <1>11, <5>1
      <4>2. CASE i = k + 1
        BY <2>2, <4>2
      <4>3. CASE i > k + 1
        <5>1. i - 1 \in k + 1 .. Len(c) - 1 /\ i - 1 \in 1 .. Len(d) /\ (i - 1) + 1 = i
          BY <1>1, <1>2, <4>3
        <5> QED BY <1>5, <1>11, <5>1
      <4> QED BY <1>1, <4>1, <4>2, <4>3
    <3>2. k > 0 => k \in 1 .. Len(c)
      BY <1>1
    <3>3. nx2[n] = nx[n]
      BY <2>2, <3>1, <3>2
    <3>4. nx[n] = Null
      BY <3>1 DEF Linked
    <3> QED BY <3>3, <3>4
  <2> QED BY <2>1, <2>2
<1> QED BY <1>2, <1>8, <1>9, <1>10, <1>11 DEF d, Linked

\* No links at all.
LEMMA NoLinks ==
  ASSUME NEW nx, \A n \in Node : nx[n] = Null
  PROVE  Linked(<<>>, Null, nx)
<1>1. <<>> \in Seq(Node) /\ Len(<<>>) = 0
  BY EmptySeq
<1>2. \A i \in Int : i \notin 1 .. 0
  OBVIOUS
<1> QED BY <1>1, <1>2 DEF Linked, NodeAt

-----------------------------------------------------------------------------
(* Ptrlist: the invariant *)

NodesOf(c) == {c[i] : i \in 1 .. Len(c)}

\* The links are a chain of the allocated nodes, each of which has an element.
PInv ==
  /\ Linked(Chain, head, next)
  /\ live = NodesOf(Chain)
  /\ next \in [Node -> Node \cup {Null}]
  /\ data \in [Node -> Elem \cup {None}]
  /\ \A n \in live : data[n] \in Elem
  /\ iter \in live \cup {Null, Gone}
  /\ got \in Elem \cup {None}

LEMMA ChainNow ==
  /\ Chain = ChainOf(head, next)
  /\ Chain' = ChainOf(head', next')
BY DEF Chain, ChainOf

LEMMA NewChain ==
  ASSUME NEW c, Linked(c, head', next')
  PROVE  Chain' = c
BY ChainNow, ChainIs

\* What the invariant says of the places of the chain.
LEMMA Shape ==
  ASSUME PInv
  PROVE  /\ Chain \in Seq(Node) /\ Len(Chain) \in Nat
         /\ \A i \in 1 .. Len(Chain) :
              Chain[i] \in Node /\ Chain[i] \in live /\ Chain[i] # Null /\ data[Chain[i]] \in Elem
         /\ \A i, j \in 1 .. Len(Chain) : Chain[i] = Chain[j] => i = j
         /\ live \subseteq Node
<1>1. Chain \in Seq(Node) /\ Len(Chain) \in Nat
  BY LenProperties DEF PInv, Linked
<1>2. \A i \in 1 .. Len(Chain) : Chain[i] \in Node
  BY <1>1, ElementOfSeq
<1>3. \A i \in 1 .. Len(Chain) : Chain[i] \in live
  BY DEF PInv, NodesOf
<1>4. \A i, j \in 1 .. Len(Chain) : Chain[i] = Chain[j] => i = j
  BY DEF PInv, Linked
<1>5. live \subseteq Node
  BY <1>2 DEF PInv, NodesOf
<1> QED BY <1>1, <1>2, <1>3, <1>4, <1>5, NullNoNode DEF PInv

LEMMA ChainEmpty ==
  ASSUME PInv
  PROVE  Chain = <<>> <=> Len(Chain) = 0
BY Shape, EmptySeq

\* The loops' places in the chain.
LEMMA PlacesAre ==
  ASSUME PInv, NEW i \in Int
  PROVE  /\ Hit(i) => /\ i + 1 \in 1 .. Len(Chain) /\ i \in Nat
                      /\ StopIndex(i) = i + 1
                      /\ Prev(i) = IF i = 0 THEN Null ELSE Chain[i]
                      /\ i # 0 => Prev(i) # Null /\ i \in 1 .. Len(Chain)
         /\ ~Hit(i) => StopIndex(i) = Len(Chain)
<1>1. CASE Hit(i)
  <2>1. i + 1 \in 1 .. Len(Chain) /\ i \in Nat /\ StopIndex(i) = i + 1
    BY <1>1, Shape DEF Hit, StopIndex
  <2>2. (i + 1 = 1 <=> i = 0) /\ (i + 1) - 1 = i
    OBVIOUS
  <2>3. Prev(i) = IF i = 0 THEN Null ELSE Chain[i]
    BY <2>1, <2>2 DEF Prev
  <2>4. i # 0 => i \in 1 .. Len(Chain)
    BY <2>1, Shape
  <2>5. i # 0 => Prev(i) # Null
    BY <2>3, <2>4, Shape
  <2> QED BY <1>1, <2>1, <2>3, <2>4, <2>5
<1>2. CASE ~Hit(i)
  BY <1>2 DEF StopIndex
<1> QED BY <1>1, <1>2

\* A step that links node m with element x in behind the k-th.
Inserting(k, m, x) ==
  /\ k \in 0 .. Len(Chain) /\ m \in Node \ live
  /\ Linked(Ins(Chain, k, m), head', next') /\ Chain' = Ins(Chain, k, m)
  /\ next' \in [Node -> Node \cup {Null}]
  /\ live' = live \cup {m}
  /\ data' = [data EXCEPT ![m] = x]
  /\ UNCHANGED <<iter, got>>

LEMMA InsertMoves ==
  ASSUME PInv, NEW i \in Int, NEW x \in Elem, Insert(i, x)
  PROVE  \E m \in Node : Inserting(IF Hit(i) THEN i ELSE Len(Chain), m, x)
<1> DEFINE m == CHOOSE n \in Node \ live : TRUE
           n == IF Chain = <<>> THEN Null ELSE Chain[StopIndex(i)]
           k == IF Hit(i) THEN i ELSE Len(Chain)
<1>1. m \in Node \ live
  BY Shape DEF Insert
<1>2. /\ live' = live \cup {m} /\ data' = [data EXCEPT ![m] = x]
      /\ UNCHANGED <<iter, got>>
  BY DEF Insert
<1>3. (CASE n = Null ->
                head' = m /\ next' = [next EXCEPT ![m] = Null]
        [] n # Null /\ ~Hit(i) ->
             next' = [next EXCEPT ![n] = m, ![m] = Null] /\ UNCHANGED head
        [] n # Null /\ Hit(i) /\ Prev(i) # Null ->
             next' = [next EXCEPT ![Prev(i)] = m, ![m] = n] /\ UNCHANGED head
        [] n # Null /\ Hit(i) /\ Prev(i) = Null ->
             next' = [next EXCEPT ![m] = n] /\ head' = m)
  BY DEF Insert
<1> HIDE DEF m
<1>4. /\ Linked(Chain, head, next) /\ next \in [Node -> Node \cup {Null}]
      /\ \A j \in 1 .. Len(Chain) : Chain[j] # m
  BY <1>1, Shape DEF PInv
<1>5. k \in 0 .. Len(Chain)
  BY PlacesAre, Shape
<1>6. /\ next' \in [Node -> Node \cup {Null}]
      /\ head' = IF k = 0 THEN m ELSE head
      /\ \A a \in Node : next'[a] = IF a = m THEN NodeAt(Chain, k + 1)
                                    ELSE IF k > 0 /\ a = Chain[k] THEN m ELSE next[a]
  <2>1. CASE Chain = <<>>
    <3>1. n = Null /\ Len(Chain) = 0
      BY <2>1, ChainEmpty
    <3>2. head' = m /\ next' = [next EXCEPT ![m] = Null]
      BY <1>3, <3>1
    <3>3. ~Hit(i) /\ k = 0
      BY <3>1 DEF Hit
    <3>4. NodeAt(Chain, k + 1) = Null
      BY <3>1, <3>3 DEF NodeAt
    <3> QED BY <1>1, <1>4, <3>2, <3>3, <3>4
  <2>2. CASE Chain # <<>> /\ ~Hit(i)
    <3>1. Len(Chain) \in 1 .. Len(Chain) /\ k = Len(Chain) /\ k > 0 /\ k + 1 \notin 1 .. Len(Chain)
      BY <2>2, ChainEmpty, Shape
    <3>2. n = Chain[k] /\ n # Null /\ n \in Node /\ n # m
      BY <1>4, <2>2, <3>1, PlacesAre, Shape
    <3>3. next' = [next EXCEPT ![n] = m, ![m] = Null] /\ head' = head
      BY <1>3, <2>2, <3>2
    <3>4. NodeAt(Chain, k + 1) = Null
      BY <3>1 DEF NodeAt
    <3> HIDE DEF n, k
    <3> QED BY <1>1, <1>4, <3>1, <3>2, <3>3, <3>4
  <2>3. CASE Chain # <<>> /\ Hit(i)
    <3>1. /\ i + 1 \in 1 .. Len(Chain) /\ i \in Nat /\ k = i /\ n = Chain[i + 1]
          /\ Prev(i) = IF i = 0 THEN Null ELSE Chain[i]
          /\ i # 0 => Prev(i) # Null /\ i \in 1 .. Len(Chain)
      BY <2>3, PlacesAre
    <3>2. n # Null /\ n \in Node /\ n # m /\ n = NodeAt(Chain, k + 1)
      BY <1>4, <3>1, Shape DEF NodeAt
    <3>3. CASE i = 0
      <4>1. Prev(i) = Null
        BY <3>1, <3>3
      <4>2. next' = [next EXCEPT ![m] = n] /\ head' = m
        BY <1>3, <2>3, <3>2, <4>1
      <4> HIDE DEF n
      <4> QED BY <1>1, <1>4, <3>1, <3>2, <3>3, <4>2
    <3>4. CASE i # 0
      <4>1. next' = [next EXCEPT ![Prev(i)] = m, ![m] = n] /\ head' = head
        BY <1>3, <2>3, <3>1, <3>2, <3>4
      <4>2. Prev(i) = Chain[k] /\ k > 0 /\ Chain[k] \in Node /\ Chain[k] # m
        BY <1>4, <3>1, <3>4, Shape
      <4> HIDE DEF n, k
      <4> QED BY <1>1, <1>4, <3>2, <4>1, <4>2
    <3> QED BY <3>3, <3>4
  <2> QED BY <2>1, <2>2, <2>3
<1> HIDE DEF n, k
<1>7. Linked(Ins(Chain, k, m), head', next')
  BY <1>1, <1>4, <1>5, <1>6, InsertLinks
<1>8. Chain' = Ins(Chain, k, m)
  BY <1>7, NewChain
<1>9. Inserting(k, m, x)
  BY <1>1, <1>2, <1>5, <1>6, <1>7, <1>8 DEF Inserting
<1> QED BY <1>1, <1>9 DEF k

\* A step that unlinks and frees the node behind the k-th.
Removing(k) ==
  /\ k \in 0 .. Len(Chain) - 1
  /\ Linked(Rem(Chain, k), head', next') /\ Chain' = Rem(Chain, k)
  /\ next' \in [Node -> Node \cup {Null}]
  /\ live' = live \ {Chain[k + 1]}
  /\ data' = [n \in Node |-> IF n = Chain[k + 1] THEN None ELSE data[n]]
  /\ iter' = IF iter = Chain[k + 1] THEN Gone ELSE iter
  /\ UNCHANGED got

LEMMA UnlinkMoves ==
  ASSUME PInv, NEW i \in Int, Unlink(i)
  PROVE  Removing(i)
<1> DEFINE n == Chain[i + 1]
<1>1. /\ i + 1 \in 1 .. Len(Chain) /\ i \in Nat
      /\ Prev(i) = IF i = 0 THEN Null ELSE Chain[i]
      /\ i # 0 => Prev(i) # Null /\ i \in 1 .. Len(Chain)
  BY PlacesAre DEF Unlink
<1>2. i \in 0 .. Len(Chain) - 1
  BY <1>1, Shape
<1>3. /\ IF Prev(i) = Null
           THEN head' = next[n] /\ next' = [next EXCEPT ![n] = Null]
           ELSE /\ next' = [next EXCEPT ![Prev(i)] = next[n], ![n] = Null]
                /\ UNCHANGED head
      /\ Free({n}, iter) /\ UNCHANGED got
  BY DEF Unlink
<1>4. n \in Node /\ next[n] = NodeAt(Chain, i + 2) /\ next[n] \in Node \cup {Null}
  <2>1. (i + 1) + 1 = i + 2
    OBVIOUS
  <2>2. next[n] = NodeAt(Chain, (i + 1) + 1)
    BY <1>1 DEF PInv, Linked
  <2> QED BY <1>1, <2>1, <2>2, Shape DEF PInv
<1>5. \A j \in 1 .. Len(Chain) : Chain[j] \in Node
  BY Shape
<1> HIDE DEF n
<1>6. /\ next' \in [Node -> Node \cup {Null}]
      /\ head' = IF i = 0 THEN NodeAt(Chain, 2) ELSE head
      /\ \A a \in Node : next'[a] = IF a = n THEN Null
                                    ELSE IF i > 0 /\ a = Chain[i] THEN NodeAt(Chain, i + 2)
                                    ELSE next[a]
  <2>1. CASE i = 0
    <3>1. head' = next[n] /\ next' = [next EXCEPT ![n] = Null]
      BY <1>1, <1>3, <2>1
    <3>2. i + 2 = 2
      BY <2>1
    <3> QED BY <1>4, <2>1, <3>1, <3>2 DEF PInv
  <2>2. CASE i # 0
    <3>1. next' = [next EXCEPT ![Prev(i)] = next[n], ![n] = Null] /\ head' = head
      BY <1>1, <1>3, <2>2
    <3>2. Prev(i) = Chain[i] /\ Chain[i] \in Node /\ i > 0
      BY <1>1, <1>5, <2>2
    <3> QED BY <1>4, <2>2, <3>1, <3>2 DEF PInv
  <2> QED BY <2>1, <2>2
<1>7. Linked(Rem(Chain, i), head', next')
  BY <1>2, <1>6, RemoveLinks DEF PInv, n
<1>8. Chain' = Rem(Chain, i)
  BY <1>7, NewChain
<1>9. /\ live' = live \ {n}
      /\ data' = [a \in Node |-> IF a = n THEN None ELSE data[a]]
      /\ iter' = IF iter = n THEN Gone ELSE iter
  BY <1>3 DEF Free
<1> QED BY <1>2, <1>3, <1>6, <1>7, <1>8, <1>9 DEF Removing, n

\* A step after which the list is empty and its nodes are free.
LEMMA ClearMoves ==
  ASSUME PInv, NEW it \in live \cup {Null, Gone}, ClearFrom(it)
  PROVE  /\ Linked(<<>>, head', next') /\ Chain' = <<>>
         /\ next' \in [Node -> Node \cup {Null}]
         /\ live' = {}
         /\ data' \in [Node -> Elem \cup {None}]
         /\ iter' = IF it \in live THEN Gone ELSE it
         /\ UNCHANGED got
<1>1. Range(Chain) = live
  <2>1. DOMAIN Chain = 1 .. Len(Chain)
    BY Shape, LenProperties
  <2> QED BY <2>1 DEF Range, PInv, NodesOf
<1>2. head' = Null /\ next' = [n \in Node |-> Null] /\ Free(live, it) /\ UNCHANGED got
  BY <1>1 DEF ClearFrom
<1>3. \A n \in Node : next'[n] = Null
  BY <1>2
<1>4. Linked(<<>>, head', next')
  BY <1>2, <1>3, NoLinks
<1>5. Chain' = <<>>
  BY <1>4, NewChain
<1>6. next' \in [Node -> Node \cup {Null}]
  BY <1>2
<1>7. live' = {} /\ iter' = IF it \in live THEN Gone ELSE it
  BY <1>2 DEF Free
<1>8. data' = [n \in Node |-> IF n \in live THEN None ELSE data[n]]
  BY <1>2 DEF Free
<1>9. data' \in [Node -> Elem \cup {None}]
  BY <1>8 DEF PInv
<1> QED BY <1>2, <1>4, <1>5, <1>6, <1>7, <1>9

-----------------------------------------------------------------------------
(* Ptrlist: the invariant holds *)

LEMMA NodesInserted ==
  ASSUME NEW c \in Seq(Node), NEW k \in 0 .. Len(c), NEW m \in Node
  PROVE  NodesOf(Ins(c, k, m)) = NodesOf(c) \cup {m}
<1>1. Len(c) \in Nat /\ Len(Ins(c, k, m)) = Len(c) + 1
  BY LenProperties, InsIs
<1>2. \A j \in 1 .. Len(c) + 1 :
        Ins(c, k, m)[j] = IF j <= k THEN c[j] ELSE IF j = k + 1 THEN m ELSE c[j - 1]
  BY DEF Ins
<1>3. ASSUME NEW n \in NodesOf(c) PROVE n \in NodesOf(Ins(c, k, m))
  <2>1. PICK i \in 1 .. Len(c) : n = c[i]
    BY <1>3 DEF NodesOf
  <2>2. CASE i <= k
    <3>1. i \in 1 .. Len(c) + 1
      BY <1>1
    <3> QED BY <1>1, <1>2, <2>1, <2>2, <3>1 DEF NodesOf
  <2>3. CASE ~(i <= k)
    <3>1. i + 1 \in 1 .. Len(c) + 1 /\ ~(i + 1 <= k) /\ i + 1 # k + 1 /\ (i + 1) - 1 = i
      BY <1>1, <2>3
    <3>2. Ins(c, k, m)[i + 1] = c[i]
      BY <1>2, <3>1
    <3> QED BY <1>1, <2>1, <3>1, <3>2 DEF NodesOf
  <2> QED BY <2>2, <2>3
<1>4. m \in NodesOf(Ins(c, k, m))
  <2>1. k + 1 \in 1 .. Len(c) + 1 /\ ~(k + 1 <= k)
    BY <1>1
  <2>2. Ins(c, k, m)[k + 1] = m
    BY <1>2, <2>1
  <2> QED BY <1>1, <2>1, <2>2 DEF NodesOf
<1>5. ASSUME NEW n \in NodesOf(Ins(c, k, m)) PROVE n \in NodesOf(c) \cup {m}
  <2>1. PICK j \in 1 .. Len(c) + 1 : n = Ins(c, k, m)[j]
    BY <1>1 DEF NodesOf
  <2>2. CASE j <= k
    <3>1. j \in 1 .. Len(c) /\ n = c[j]
      BY <1>1, <1>2, <2>1, <2>2
    <3> QED BY <3>1 DEF NodesOf
  <2>3. CASE j = k + 1
    BY <1>2, <2>1, <2>3
  <2>4. CASE ~(j <= k) /\ j # k + 1
    <3>1. j - 1 \in 1 .. Len(c) /\ n = c[j - 1]
      BY <1>1, <1>2, <2>1, <2>4
    <3> QED BY <3>1 DEF NodesOf
  <2> QED BY <2>2, <2>3, <2>4
<1> QED BY <1>3, <1>4, <1>5

LEMMA NodesRemoved ==
  ASSUME NEW c \in Seq(Node), NEW k \in 0 .. Len(c) - 1,
         \A i, j \in 1 .. Len(c) : c[i] = c[j] => i = j
  PROVE  NodesOf(Rem(c, k)) = NodesOf(c) \ {c[k + 1]}
<1>1. Len(c) \in Nat /\ Len(Rem(c, k)) = Len(c) - 1 /\ k + 1 \in 1 .. Len(c)
  BY LenProperties, RemIs
<1>2. \A j \in 1 .. Len(c) - 1 : Rem(c, k)[j] = IF j <= k THEN c[j] ELSE c[j + 1]
  BY DEF Rem
<1>3. ASSUME NEW n \in NodesOf(c), n # c[k + 1] PROVE n \in NodesOf(Rem(c, k))
  <2>1. PICK i \in 1 .. Len(c) : n = c[i]
    BY <1>3 DEF NodesOf
  <2>2. CASE i <= k
    <3>1. i \in 1 .. Len(c) - 1
      BY <1>1, <2>2
    <3> QED BY <1>1, <1>2, <2>1, <2>2, <3>1 DEF NodesOf
  <2>3. CASE ~(i <= k)
    <3>1. i # k + 1
      BY <1>3, <2>1
    <3>2. i - 1 \in 1 .. Len(c) - 1 /\ ~(i - 1 <= k) /\ (i - 1) + 1 = i
      BY <1>1, <2>3, <3>1
    <3>3. Rem(c, k)[i - 1] = c[i]
      BY <1>2, <3>2
    <3> QED BY <1>1, <2>1, <3>2, <3>3 DEF NodesOf
  <2> QED BY <2>2, <2>3
<1>4. ASSUME NEW n \in NodesOf(Rem(c, k)) PROVE n \in NodesOf(c) /\ n # c[k + 1]
  <2>1. PICK j \in 1 .. Len(c) - 1 : n = Rem(c, k)[j]
    BY <1>1, <1>4 DEF NodesOf
  <2>2. CASE j <= k
    <3>1. j \in 1 .. Len(c) /\ n = c[j] /\ j # k + 1
      BY <1>1, <1>2, <2>1, <2>2
    <3> QED BY <1>1, <3>1 DEF NodesOf
  <2>3. CASE ~(j <= k)
    <3>1. j + 1 \in 1 .. Len(c) /\ n = c[j + 1] /\ j + 1 # k + 1
      BY <1>1, <1>2, <2>1, <2>3
    <3> QED BY <1>1, <3>1 DEF NodesOf
  <2> QED BY <2>2, <2>3
<1> QED BY <1>3, <1>4

LEMMA InitPInv == Init => PInv
<1> SUFFICES ASSUME Init PROVE PInv
  OBVIOUS
<1>1. \A n \in Node : next[n] = Null
  BY DEF Init
<1>2. Linked(<<>>, head, next)
  BY <1>1, NoLinks DEF Init
<1>3. Chain = <<>>
  BY <1>2, ChainNow, ChainIs
<1>4. NodesOf(<<>>) = {}
  <2>1. Len(<<>>) = 0
    BY EmptySeq
  <2> QED BY <2>1 DEF NodesOf
<1> QED BY <1>2, <1>3, <1>4 DEF Init, PInv

LEMMA InsertKeepsPInv ==
  ASSUME PInv, NEW x \in Elem, NEW k, NEW m, Inserting(k, m, x)
  PROVE  PInv'
<1>1. /\ k \in 0 .. Len(Chain) /\ m \in Node
      /\ Linked(Ins(Chain, k, m), head', next') /\ Chain' = Ins(Chain, k, m)
      /\ next' \in [Node -> Node \cup {Null}]
      /\ live' = live \cup {m}
      /\ data' = [data EXCEPT ![m] = x]
      /\ UNCHANGED <<iter, got>>
  BY DEF Inserting
<1>2. live' = NodesOf(Chain')
  BY <1>1, NodesInserted, Shape DEF PInv
<1>3. data' \in [Node -> Elem \cup {None}] /\ \A n \in live' : data'[n] \in Elem
  BY <1>1, Shape DEF PInv
<1>4. iter' \in live' \cup {Null, Gone} /\ got' \in Elem \cup {None}
  BY <1>1 DEF PInv, Gone
<1> QED BY <1>1, <1>2, <1>3, <1>4 DEF PInv, Gone

LEMMA RemoveKeepsPInv ==
  ASSUME PInv, NEW k, Removing(k)
  PROVE  PInv'
<1>1. /\ k \in 0 .. Len(Chain) - 1
      /\ Linked(Rem(Chain, k), head', next') /\ Chain' = Rem(Chain, k)
      /\ next' \in [Node -> Node \cup {Null}]
      /\ live' = live \ {Chain[k + 1]}
      /\ data' = [n \in Node |-> IF n = Chain[k + 1] THEN None ELSE data[n]]
      /\ iter' = IF iter = Chain[k + 1] THEN Gone ELSE iter
      /\ UNCHANGED got
  BY DEF Removing
<1>2. live' = NodesOf(Chain')
  BY <1>1, NodesRemoved, Shape DEF PInv
<1>3. data' \in [Node -> Elem \cup {None}] /\ \A n \in live' : data'[n] \in Elem
  BY <1>1, Shape DEF PInv
<1>4. iter' \in live' \cup {Null, Gone} /\ got' \in Elem \cup {None}
  BY <1>1 DEF PInv, Gone
<1> QED BY <1>1, <1>2, <1>3, <1>4 DEF PInv, Gone

LEMMA ReplaceKeepsPInv ==
  ASSUME PInv, NEW i \in Int, NEW x \in Elem, Replace(i, x)
  PROVE  PInv'
<1>1. /\ i + 1 \in 1 .. Len(Chain)
      /\ data' = [data EXCEPT ![Chain[i + 1]] = x]
      /\ UNCHANGED <<head, next, live, iter, got>>
  BY PlacesAre DEF Replace
<1>2. Chain' = Chain
  BY <1>1, ChainNow
<1>3. data' \in [Node -> Elem \cup {None}] /\ \A n \in live' : data'[n] \in Elem
  BY <1>1, Shape DEF PInv
<1> QED BY <1>1, <1>2, <1>3 DEF PInv, Gone

LEMMA ClearKeepsPInv ==
  ASSUME PInv, NEW it \in live \cup {Null, Gone}, ClearFrom(it)
  PROVE  PInv'
<1>1. NodesOf(<<>>) = {}
  <2>1. Len(<<>>) = 0
    BY EmptySeq
  <2> QED BY <2>1 DEF NodesOf
<1> QED BY <1>1, ClearMoves DEF PInv, Gone

\* The head is the first place, and the iterator moves from place to place.
LEMMA IterateKeepsPInv ==
  ASSUME PInv, First \/ NextElem
  PROVE  PInv'
<1>1. UNCHANGED <<head, next, data, live>>
  BY DEF First, NextElem, links
<1>2. Chain' = Chain
  BY <1>1, ChainNow
<1>3. head \in live \cup {Null} /\ \A n \in live : next[n] \in live \cup {Null}
  <2>1. \A i \in Int : NodeAt(Chain, i) \in live \cup {Null}
    BY Shape DEF NodeAt
  <2>2. head = NodeAt(Chain, 1)
    BY DEF PInv, Linked
  <2>3. ASSUME NEW n \in live PROVE next[n] \in live \cup {Null}
    <3>1. PICK i \in 1 .. Len(Chain) : n = Chain[i]
      BY DEF PInv, NodesOf
    <3>2. next[n] = NodeAt(Chain, i + 1)
      BY <3>1 DEF PInv, Linked
    <3> QED BY <2>1, <3>2
  <2> QED BY <2>1, <2>2, <2>3
<1>4. iter' \in live' \cup {Null, Gone} /\ got' \in Elem \cup {None}
  <2>1. CASE First
    BY <1>1, <1>3, <2>1 DEF First, PInv
  <2>2. CASE NextElem
    <3>1. iter \in live \cup {Null}
      BY <2>2 DEF NextElem, PInv
    <3>2. CASE iter = Null \/ next[iter] = Null
      BY <1>1, <2>2, <3>2 DEF NextElem, PInv
    <3>3. CASE ~(iter = Null \/ next[iter] = Null)
      <4>1. next[iter] \in live
        BY <1>3, <3>1, <3>3
      <4> QED BY <1>1, <2>2, <3>3, <4>1 DEF NextElem, PInv
    <3> QED BY <3>2, <3>3
  <2> QED BY <2>1, <2>2
<1> QED BY <1>1, <1>2, <1>4 DEF PInv, Gone

LEMMA NextPInv == PInv /\ [Next]_vars => PInv'
<1> SUFFICES ASSUME PInv, [Next]_vars PROVE PInv'
  OBVIOUS
<1>1. CASE UNCHANGED vars
  <2>1. UNCHANGED <<head, next, data, live, iter, got>>
    BY <1>1 DEF vars
  <2>2. Chain' = Chain
    BY <2>1, ChainNow
  <2> QED BY <2>1, <2>2 DEF PInv, Gone
<1>2. ASSUME NEW i \in Index, NEW x \in Elem, Insert(i, x) PROVE PInv'
  <2>1. i \in Int
    BY IndexAssumption
  <2>2. PICK m \in Node : Inserting(IF Hit(i) THEN i ELSE Len(Chain), m, x)
    BY <1>2, <2>1, InsertMoves
  <2> QED BY <2>2, InsertKeepsPInv
<1>3. ASSUME NEW i \in Index, NEW x \in Elem, Replace(i, x) PROVE PInv'
  BY <1>3, ReplaceKeepsPInv, IndexAssumption
<1>4. ASSUME NEW i \in Index, Unlink(i) PROVE PInv'
  BY <1>4, UnlinkMoves, RemoveKeepsPInv, IndexAssumption
<1>5. CASE Clear
  BY <1>5, ClearKeepsPInv DEF Clear, PInv
<1> QED BY <1>1, <1>2, <1>3, <1>4, <1>5, IterateKeepsPInv DEF Next

LEMMA PtrlistInductive == Spec => []PInv
BY InitPInv, NextPInv, PTL DEF Spec

-----------------------------------------------------------------------------
(* Ptrlist: the refinement *)

Elements(c, d) == [i \in 1 .. Len(c) |-> d[c[i]]]

\* The iterator's place.
Place(c, n) == SelectInSeq(c, LAMBDA m : m = n)

LEMMA PlaceIs ==
  ASSUME NEW c \in Seq(Node), NEW p \in 1 .. Len(c), NEW n, c[p] = n,
         \A i, j \in 1 .. Len(c) : c[i] = c[j] => i = j
  PROVE  Place(c, n) = p
<1> DEFINE I == {i \in 1 .. Len(c) : c[i] = n}
<1>1. I = {p}
  OBVIOUS
<1>2. Place(c, n) = IF I # {} THEN Min(I) ELSE 0
  BY DEF Place, SelectInSeq
<1>3. p \in Int
  BY LenProperties
<1>4. Min({p}) = p
  BY <1>3 DEF Min
<1> QED BY <1>1, <1>2, <1>4

LEMMA IteratedNow ==
  /\ Iterated = IF iter \in Node THEN Place(Chain, iter) ELSE 0
  /\ Iterated' = IF iter' \in Node THEN Place(Chain', iter') ELSE 0
BY DEF Iterated, Place, SelectInSeq

LEMMA IteratedIs ==
  ASSUME PInv
  PROVE  \/ iter \notin Node /\ Iterated = 0 /\ iter \notin live
         \/ /\ iter \in live /\ Iterated \in 1 .. Len(Chain)
            /\ iter \in Node /\ iter = Chain[Iterated]
<1>1. CASE iter \in live
  <2>1. PICK p \in 1 .. Len(Chain) : iter = Chain[p]
    BY <1>1 DEF PInv, NodesOf
  <2>2. Place(Chain, iter) = p
    BY <2>1, Shape, PlaceIs
  <2> QED BY <1>1, <2>1, <2>2, Shape, IteratedNow
<1>2. CASE iter \notin live
  <2>1. iter \in {Null, Gone}
    BY <1>2 DEF PInv
  <2>2. Gone \notin Node
    BY NodesAssumption DEF Gone, Node
  <2> QED BY <1>2, <2>1, <2>2, NullNoNode, IteratedNow
<1> QED BY <1>1, <1>2

LEMMA ElementsIs ==
  ASSUME PInv
  PROVE  /\ Elements(Chain, data) \in Seq(Elem)
         /\ Len(Elements(Chain, data)) = Len(Chain)
         /\ \A i \in 1 .. Len(Chain) : Elements(Chain, data)[i] = data[Chain[i]]
<1>1. Elements(Chain, data) \in [1 .. Len(Chain) -> Elem]
  BY Shape DEF Elements
<1> QED BY <1>1, Shape, SeqDef, LenProperties DEF Elements

LEMMA InsertRefines ==
  ASSUME PInv, NEW i \in Int, NEW x \in Elem, Insert(i, x)
  PROVE  List!LInsert(i, x)
<1> DEFINE k == IF Hit(i) THEN i ELSE Len(Chain)
           s == Elements(Chain, data)
<1>1. PICK m \in Node : Inserting(k, m, x)
  BY InsertMoves
<1> HIDE DEF k
<1>2. /\ k \in 0 .. Len(Chain) /\ m \in Node \ live /\ Chain' = Ins(Chain, k, m)
      /\ data' = [data EXCEPT ![m] = x]
      /\ UNCHANGED <<iter, got>>
  BY <1>1 DEF Inserting
<1>3. /\ Chain \in Seq(Node) /\ Len(Chain) \in Nat
      /\ \A j \in 1 .. Len(Chain) : Chain[j] \in Node /\ Chain[j] # m
  BY <1>2, Shape
<1>4. /\ s \in Seq(Elem) /\ Len(s) = Len(Chain)
      /\ \A j \in 1 .. Len(Chain) : s[j] = data[Chain[j]]
  BY ElementsIs
<1>5. Len(Chain') = Len(Chain) + 1
  BY <1>2, <1>3, InsIs
<1>6. data \in [Node -> Elem \cup {None}]
  BY DEF PInv
<1> HIDE DEF s
<1>7. Elements(Chain', data') = Ins(s, k, x)
  <2>1. \A j \in 1 .. Len(Chain) + 1 : data'[Chain'[j]] = Ins(s, k, x)[j]
    <3> SUFFICES ASSUME NEW j \in 1 .. Len(Chain) + 1
                 PROVE  data'[Chain'[j]] = Ins(s, k, x)[j]
      OBVIOUS
    <3>1. Chain'[j] = IF j <= k THEN Chain[j] ELSE IF j = k + 1 THEN m ELSE Chain[j - 1]
      BY <1>2 DEF Ins
    <3>2. Ins(s, k, x)[j] = IF j <= k THEN s[j] ELSE IF j = k + 1 THEN x ELSE s[j - 1]
      BY <1>4 DEF Ins
    <3>3. CASE j <= k
      <4>1. j \in 1 .. Len(Chain)
        BY <1>2, <1>3, <3>3
      <4>2. data'[Chain[j]] = data[Chain[j]]
        BY <1>2, <1>3, <1>6, <4>1
      <4> QED BY <1>4, <3>1, <3>2, <3>3, <4>1, <4>2
    <3>4. CASE j = k + 1
      <4>1. ~(j <= k)
        BY <1>2, <3>4
      <4> QED BY <1>2, <1>6, <3>1, <3>2, <3>4, <4>1
    <3>5. CASE ~(j <= k) /\ j # k + 1
      <4>1. j - 1 \in 1 .. Len(Chain)
        BY <1>2, <1>3, <3>5
      <4>2. data'[Chain[j - 1]] = data[Chain[j - 1]]
        BY <1>2, <1>3, <1>6, <4>1
      <4> QED BY <1>4, <3>1, <3>2, <3>5, <4>1, <4>2
    <3> QED BY <3>3, <3>4, <3>5
  <2>2. Elements(Chain', data') = [j \in 1 .. Len(Chain) + 1 |-> data'[Chain'[j]]]
    BY <1>5 DEF Elements
  <2>3. Ins(s, k, x) = [j \in 1 .. Len(Chain) + 1 |-> Ins(s, k, x)[j]]
    BY <1>4 DEF Ins
  <2> QED BY <2>1, <2>2, <2>3
<1>8. Ins(s, k, x) = List!InsertedAt(s, k, x)
  BY <1>2, <1>4, InsertedIs
<1>9. List!PlaceFor(i) = k
  <2>1. Len([j \in 1 .. Len(Chain) |-> data[Chain[j]]]) = Len(Chain)
    BY <1>4 DEF s, Elements
  <2> QED BY <2>1, Shape DEF List!PlaceFor, k, Hit
<1>10. Iterated' = IF Iterated > k THEN Iterated + 1 ELSE Iterated
  <2>1. CASE iter \notin Node /\ Iterated = 0
    <3>1. Iterated' = 0
      BY <1>2, <2>1, IteratedNow
    <3> QED BY <1>2, <2>1, <3>1
  <2>2. CASE iter \in Node /\ Iterated \in 1 .. Len(Chain) /\ iter = Chain[Iterated]
    <3> DEFINE p == IF Iterated > k THEN Iterated + 1 ELSE Iterated
    <3>1. p \in 1 .. Len(Chain) + 1
      BY <1>2, <1>3, <2>2
    <3>2. Chain'[p] = IF p <= k THEN Chain[p] ELSE IF p = k + 1 THEN m ELSE Chain[p - 1]
      BY <1>2, <3>1 DEF Ins
    <3>3. Chain'[p] = iter
      BY <1>2, <1>3, <2>2, <3>2
    <3> HIDE DEF p
    <3>4. Chain' \in Seq(Node) /\ \A a, b \in 1 .. Len(Chain') : Chain'[a] = Chain'[b] => a = b
      BY <1>1, <1>2 DEF Inserting, Linked
    <3>5. Place(Chain', iter) = p
      BY <1>5, <3>1, <3>3, <3>4, PlaceIs
    <3>6. Iterated' = p
      BY <1>2, <2>2, <3>5, IteratedNow
    <3> QED BY <3>6 DEF p
  <2> QED BY <2>1, <2>2, IteratedIs
<1> QED BY <1>2, <1>7, <1>8, <1>9, <1>10 DEF List!LInsert, Elements, s

LEMMA UnlinkRefines ==
  ASSUME PInv, NEW i \in Int, Unlink(i)
  PROVE  List!LRemove(i)
<1> DEFINE s == Elements(Chain, data)
<1>1. Removing(i)
  BY UnlinkMoves
<1>2. /\ i \in 0 .. Len(Chain) - 1 /\ Chain' = Rem(Chain, i)
      /\ data' = [n \in Node |-> IF n = Chain[i + 1] THEN None ELSE data[n]]
      /\ iter' = IF iter = Chain[i + 1] THEN Gone ELSE iter
      /\ UNCHANGED got
  BY <1>1 DEF Removing
<1>3. /\ Chain \in Seq(Node) /\ Len(Chain) \in Nat
      /\ \A j \in 1 .. Len(Chain) : Chain[j] \in Node
      /\ \A j, n \in 1 .. Len(Chain) : Chain[j] = Chain[n] => j = n
      /\ i + 1 \in 1 .. Len(Chain)
  BY <1>2, Shape
<1>4. /\ s \in Seq(Elem) /\ Len(s) = Len(Chain)
      /\ \A j \in 1 .. Len(Chain) : s[j] = data[Chain[j]]
  BY ElementsIs
<1>5. Len(Chain') = Len(Chain) - 1
  BY <1>2, <1>3, RemIs
<1> HIDE DEF s
<1>6. Elements(Chain', data') = Rem(s, i)
  <2>1. \A j \in 1 .. Len(Chain) - 1 : data'[Chain'[j]] = Rem(s, i)[j]
    <3> SUFFICES ASSUME NEW j \in 1 .. Len(Chain) - 1
                 PROVE  data'[Chain'[j]] = Rem(s, i)[j]
      OBVIOUS
    <3>1. Chain'[j] = IF j <= i THEN Chain[j] ELSE Chain[j + 1]
      BY <1>2 DEF Rem
    <3>2. Rem(s, i)[j] = IF j <= i THEN s[j] ELSE s[j + 1]
      BY <1>4 DEF Rem
    <3>3. CASE j <= i
      <4>1. j \in 1 .. Len(Chain) /\ j # i + 1
        BY <1>2, <1>3, <3>3
      <4>2. data'[Chain[j]] = data[Chain[j]]
        BY <1>2, <1>3, <4>1
      <4> QED BY <1>4, <3>1, <3>2, <3>3, <4>1, <4>2
    <3>4. CASE ~(j <= i)
      <4>1. j + 1 \in 1 .. Len(Chain) /\ j + 1 # i + 1
        BY <1>2, <1>3, <3>4
      <4>2. data'[Chain[j + 1]] = data[Chain[j + 1]]
        BY <1>2, <1>3, <4>1
      <4> QED BY <1>4, <3>1, <3>2, <3>4, <4>1, <4>2
    <3> QED BY <3>3, <3>4
  <2>2. Elements(Chain', data') = [j \in 1 .. Len(Chain) - 1 |-> data'[Chain'[j]]]
    BY <1>5 DEF Elements
  <2>3. Rem(s, i) = [j \in 1 .. Len(Chain) - 1 |-> Rem(s, i)[j]]
    BY <1>4 DEF Rem
  <2> QED BY <2>1, <2>2, <2>3
<1>7. Rem(s, i) = List!RemovedAt(s, i)
  BY <1>2, <1>4, RemovedIs
<1>8. i + 1 \in DOMAIN s
  BY <1>3, <1>4, LenProperties
<1>9. Gone \notin Node
  BY NodesAssumption DEF Gone, Node
<1>10. /\ Iterated > i + 1 => Iterated' = Iterated - 1
       /\ Iterated = i + 1 => Iterated' = 0
       /\ Iterated < i + 1 => Iterated' = Iterated
       /\ Iterated \in Nat
  <2>1. CASE iter \notin Node /\ Iterated = 0
    <3>1. Iterated' = 0
      BY <1>2, <1>9, <2>1, IteratedNow
    <3> QED BY <1>2, <2>1, <3>1
  <2>2. CASE iter \in Node /\ Iterated \in 1 .. Len(Chain) /\ iter = Chain[Iterated]
    <3>1. CASE Iterated = i + 1
      <4>1. iter' = Gone
        BY <1>2, <2>2, <3>1
      <4>2. Iterated' = 0
        BY <1>9, <4>1, IteratedNow
      <4> QED BY <1>2, <3>1, <4>2
    <3>2. CASE Iterated # i + 1
      <4> DEFINE p == IF Iterated > i + 1 THEN Iterated - 1 ELSE Iterated
      <4>1. iter # Chain[i + 1]
        BY <1>3, <2>2, <3>2
      <4>2. iter' = iter
        BY <1>2, <4>1
      <4>3. p \in 1 .. Len(Chain) - 1
        BY <1>2, <1>3, <2>2, <3>2
      <4>4. Chain'[p] = IF p <= i THEN Chain[p] ELSE Chain[p + 1]
        BY <1>2, <4>3 DEF Rem
      <4>5. Chain'[p] = iter
        BY <1>2, <1>3, <2>2, <3>2, <4>4
      <4>6. Iterated > i + 1 => p = Iterated - 1
        OBVIOUS
      <4>7. Iterated < i + 1 => p = Iterated
        BY <1>2, <2>2
      <4> HIDE DEF p
      <4>8. Chain' \in Seq(Node) /\ \A a, b \in 1 .. Len(Chain') : Chain'[a] = Chain'[b] => a = b
        BY <1>1, <1>2 DEF Removing, Linked
      <4>9. Place(Chain', iter) = p
        BY <1>5, <4>3, <4>5, <4>8, PlaceIs
      <4>10. Iterated' = p
        BY <2>2, <4>2, <4>9, IteratedNow
      <4> QED BY <2>2, <3>2, <4>6, <4>7, <4>10
    <3> QED BY <3>1, <3>2
  <2> QED BY <2>1, <2>2, IteratedIs
<1>11. Iterated' = CASE Iterated > i + 1 -> Iterated - 1
                     [] Iterated = i + 1 -> 0
                     [] Iterated < i + 1 -> Iterated
  BY <1>2, <1>10
<1> QED BY <1>2, <1>6, <1>7, <1>8, <1>11 DEF List!LRemove, Elements, s

LEMMA ReplaceRefines ==
  ASSUME PInv, NEW i \in Int, NEW x \in Elem, Replace(i, x)
  PROVE  List!LReplace(i, x)
<1> DEFINE s == Elements(Chain, data)
<1>1. /\ i + 1 \in 1 .. Len(Chain)
      /\ data' = [data EXCEPT ![Chain[i + 1]] = x]
      /\ UNCHANGED <<head, next, live, iter, got>>
  BY PlacesAre DEF Replace
<1>2. Chain' = Chain
  BY <1>1, ChainNow
<1>3. /\ s \in Seq(Elem) /\ Len(s) = Len(Chain)
      /\ \A j \in 1 .. Len(Chain) : s[j] = data[Chain[j]]
  BY ElementsIs
<1>4. \A j \in 1 .. Len(Chain) :
        data'[Chain[j]] = IF j = i + 1 THEN x ELSE data[Chain[j]]
  BY <1>1, Shape DEF PInv
<1>5. Elements(Chain', data') = [s EXCEPT ![i + 1] = x]
  BY <1>1, <1>2, <1>4 DEF Elements
<1>6. i + 1 \in DOMAIN s
  BY <1>1, <1>3, LenProperties
<1>7. Iterated' = Iterated
  BY <1>1, <1>2, IteratedNow
<1> QED BY <1>1, <1>5, <1>6, <1>7 DEF List!LReplace, Elements

LEMMA ClearRefines ==
  ASSUME PInv, NEW it \in live \cup {Null, Gone}, ClearFrom(it)
  PROVE  List!LClear
<1>1. Chain' = <<>> /\ iter' = (IF it \in live THEN Gone ELSE it) /\ UNCHANGED got
  BY ClearMoves
<1>2. Gone \notin Node
  BY NodesAssumption DEF Gone, Node
<1>3. iter' \notin Node
  BY <1>1, <1>2, NullNoNode, Shape
<1>4. Iterated' = 0
  BY <1>3, IteratedNow
<1>5. [i \in 1 .. Len(<<>>) |-> data'[<<>>[i]]] = <<>>
  <2>1. Len(<<>>) = 0 /\ 1 .. 0 = {}
    BY EmptySeq
  <2> QED BY <2>1
<1> QED BY <1>1, <1>4, <1>5 DEF List!LClear

LEMMA IterateRefines ==
  ASSUME PInv
  PROVE  (First => List!LFirst) /\ (NextElem => List!LNext)
<1> DEFINE s == Elements(Chain, data)
<1>1. /\ Chain \in Seq(Node) /\ Len(Chain) \in Nat
      /\ \A j \in 1 .. Len(Chain) : Chain[j] \in Node /\ Chain[j] # Null
      /\ \A j, n \in 1 .. Len(Chain) : Chain[j] = Chain[n] => j = n
  BY Shape
<1>2. /\ s \in Seq(Elem) /\ Len(s) = Len(Chain)
      /\ \A j \in 1 .. Len(Chain) : s[j] = data[Chain[j]]
  BY ElementsIs
<1>3. /\ s = <<>> <=> Len(Chain) = 0
  BY <1>2, EmptySeq
<1> HIDE DEF s
<1>4. ASSUME First \/ NextElem PROVE Chain' = Chain /\ Elements(Chain', data') = s
  <2>1. UNCHANGED <<head, next, data, live>>
    BY <1>4 DEF First, NextElem, links
  <2>2. Chain' = Chain
    BY <2>1, ChainNow
  <2> QED BY <2>1, <2>2 DEF s
<1>5. ASSUME First PROVE List!LFirst
  <2>1. /\ iter' = IF head = Null THEN iter ELSE head
        /\ got' = IF head = Null THEN None ELSE data[head]
    BY <1>5 DEF First
  <2>2. head = NodeAt(Chain, 1)
    BY DEF PInv, Linked
  <2>3. CASE Len(Chain) = 0
    <3>1. head = Null
      BY <2>2, <2>3 DEF NodeAt
    <3>2. Iterated' = Iterated
      BY <1>4, <1>5, <2>1, <3>1, IteratedNow
    <3> QED BY <1>3, <1>4, <1>5, <2>1, <2>3, <3>1, <3>2 DEF List!LFirst, Elements, s
  <2>4. CASE Len(Chain) # 0
    <3>1. 1 \in 1 .. Len(Chain)
      BY <1>1, <2>4
    <3>2. head = Chain[1] /\ head # Null /\ head \in Node
      BY <1>1, <2>2, <3>1 DEF NodeAt
    <3>3. iter' = head /\ got' = s[1]
      BY <1>2, <2>1, <3>1, <3>2
    <3>4. Place(Chain, head) = 1
      BY <1>1, <3>1, <3>2, PlaceIs
    <3>5. Iterated' = 1
      BY <1>4, <1>5, <3>2, <3>3, <3>4, IteratedNow
    <3> QED BY <1>3, <1>4, <1>5, <2>4, <3>3, <3>5 DEF List!LFirst, Elements, s
  <2> QED BY <2>3, <2>4
<1>6. ASSUME NextElem PROVE List!LNext
  <2>1. IF iter = Null \/ next[iter] = Null
          THEN got' = None /\ UNCHANGED iter
          ELSE iter' = next[iter] /\ got' = data[next[iter]]
    BY <1>6 DEF NextElem
  <2>2. iter # Gone
    BY <1>6 DEF NextElem
  <2>3. CASE iter \notin Node /\ Iterated = 0 /\ iter \notin live
    <3>1. iter = Null
      BY <2>2, <2>3 DEF PInv
    <3>2. got' = None /\ iter' = iter
      BY <2>1, <3>1
    <3>3. Iterated' = Iterated /\ Iterated \notin 1 .. Len(s) - 1
      BY <1>4, <1>6, <2>3, <3>2, IteratedNow
    <3> QED BY <1>4, <1>6, <3>2, <3>3 DEF List!LNext, Elements, s
  <2>4. CASE iter \in Node /\ Iterated \in 1 .. Len(Chain) /\ iter = Chain[Iterated]
    <3>1. next[iter] = NodeAt(Chain, Iterated + 1) /\ iter # Null
      BY <1>1, <2>4 DEF PInv, Linked
    <3>2. CASE Iterated = Len(Chain)
      <4>1. Iterated + 1 \notin 1 .. Len(Chain) /\ Iterated \notin 1 .. Len(Chain) - 1
        BY <1>1, <3>2
      <4>2. got' = None /\ iter' = iter
        BY <2>1, <3>1, <4>1 DEF NodeAt
      <4>3. Iterated' = Iterated
        BY <1>4, <1>6, <4>2, IteratedNow
      <4> QED BY <1>2, <1>4, <1>6, <4>1, <4>2, <4>3 DEF List!LNext, Elements, s
    <3>3. CASE Iterated # Len(Chain)
      <4>1. Iterated + 1 \in 1 .. Len(Chain) /\ Iterated \in 1 .. Len(Chain) - 1
        BY <1>1, <2>4, <3>3
      <4>2. next[iter] = Chain[Iterated + 1] /\ next[iter] # Null /\ next[iter] \in Node
        BY <1>1, <3>1, <4>1 DEF NodeAt
      <4>3. iter' = Chain[Iterated + 1] /\ got' = s[Iterated + 1]
        BY <1>2, <2>1, <3>1, <4>1, <4>2
      <4>4. Place(Chain, iter') = Iterated + 1
        BY <1>1, <4>1, <4>3, PlaceIs
      <4>5. Iterated' = Iterated + 1
        BY <1>4, <1>6, <4>2, <4>3, <4>4, IteratedNow
      <4> QED BY <1>2, <1>4, <1>6, <4>1, <4>3, <4>5 DEF List!LNext, Elements, s
    <3> QED BY <3>2, <3>3
  <2> QED BY <2>3, <2>4, IteratedIs
<1> QED BY <1>5, <1>6

\* In a chain of the allocated nodes every call is the list's.
LEMMA ListSteps == []PInv => ImplementsList
<1> DEFINE Step ==
      /\ \A i \in Index, x \in Elem : /\ Insert(i, x) => List!LInsert(i, x)
                                      /\ Replace(i, x) => List!LReplace(i, x)
      /\ \A i \in Index : Unlink(i) => List!LRemove(i)
      /\ \A it \in live \cup {Null, Gone} : ClearFrom(it) => List!LClear
      /\ First => List!LFirst
      /\ NextElem => List!LNext
<1>1. PInv => Step
  BY InsertRefines, ReplaceRefines, UnlinkRefines, ClearRefines, IterateRefines,
     IndexAssumption
<1>2. ImplementsList <=> [][Step]_vars
  BY DEF ImplementsList
<1> HIDE DEF Step
<1>3. []PInv => [][Step]_vars
  BY <1>1, PTL
<1> QED BY <1>2, <1>3

\* The linked list is a sequence changed by position with an iterator that
\* stays on its element: every call does to the sequence what ElementList says
\* of it, for every number of nodes and every position.
THEOREM PtrlistImplementsList == Spec => ImplementsList
BY PtrlistInductive, ListSteps

-----------------------------------------------------------------------------
(* Strlist *)

\* slist_clear() leaves the iterator at a place of the list, or where it was.
LEMMA LastIs ==
  ASSUME PInv
  PROVE  (IF head = Null THEN iter ELSE Last(Chain)) \in live \cup {Null, Gone}
<1>1. CASE head = Null
  BY <1>1 DEF PInv
<1>2. CASE head # Null
  <2>1. Len(Chain) \in 1 .. Len(Chain)
    BY <1>2, Shape DEF PInv, Linked, NodeAt
  <2> QED BY <1>2, <2>1, Shape DEF Last
<1> QED BY <1>1, <1>2

\* A string list changes its pointer list by ptrlist's calls, and with its
\* iterator.
LEMMA SNextPInv == PInv /\ [SNext]_svars => PInv'
<1> SUFFICES ASSUME PInv, [SNext]_svars PROVE PInv'
  OBVIOUS
<1>1. ASSUME [Next]_vars PROVE PInv'
  BY <1>1, NextPInv
<1>2. CASE UNCHANGED svars
  BY <1>1, <1>2 DEF svars
<1>3. ASSUME NEW i \in Index, NEW s \in Str, SInsert(i, s) PROVE PInv'
  BY <1>1, <1>3 DEF SInsert, Next
<1>4. ASSUME NEW i \in Index, NEW s \in Str, SReplace(i, s) PROVE PInv'
  BY <1>1, <1>4 DEF SReplace, Next
<1>5. ASSUME NEW i \in Index, SRemove(i) PROVE PInv'
  BY <1>1, <1>5 DEF SRemove, Next
<1>6. CASE SClear
  BY <1>6, LastIs, ClearKeepsPInv DEF SClear
<1>7. CASE First \/ NextElem
  BY <1>1, <1>7 DEF Next
<1> QED BY <1>2, <1>3, <1>4, <1>5, <1>6, <1>7 DEF SNext

\* The string of every node was not freed, and no other node has it.
Owning ==
  /\ mem \in [Elem -> Str \cup {Freed}]
  /\ \A n \in live : mem[data[n]] # Freed
  /\ \A n, m \in live : data[n] = data[m] => n = m

\* A string that is in use and not in the list.
Lost(d) == d \in Elem /\ mem[d] # Freed /\ \A n \in live : data[n] # d

LEMMA RangeIs == PInv => Range(Chain) = live
<1> SUFFICES ASSUME PInv PROVE Range(Chain) = live
  OBVIOUS
<1>1. DOMAIN Chain = 1 .. Len(Chain)
  BY Shape, LenProperties
<1> QED BY <1>1 DEF Range, PInv, NodesOf

UnlistedAreLost == \A d : d \in Unlisted <=> Lost(d)

LEMMA UnlistedAre == PInv => UnlistedAreLost
BY RangeIs DEF UnlistedAreLost, Unlisted, Alive, Listed, Lost

LEMMA UnlistedAreThen == PInv' => UnlistedAreLost'
BY UnlistedAre, PTL

LEMMA TypesOf == PInv => TypeOK
<1> SUFFICES ASSUME PInv PROVE TypeOK
  OBVIOUS
<1>1. \A i \in Int : NodeAt(Chain, i) \in live \cup {Null}
  BY Shape DEF NodeAt
<1>2. head \in live \cup {Null}
  BY <1>1 DEF PInv, Linked
<1>3. ASSUME NEW n \in live PROVE next[n] \in live \cup {Null}
  <2>1. PICK i \in 1 .. Len(Chain) : n = Chain[i]
    BY DEF PInv, NodesOf
  <2>2. next[n] = NodeAt(Chain, i + 1)
    BY <2>1 DEF PInv, Linked
  <2> QED BY <1>1, <2>2
<1> QED BY <1>2, <1>3, Shape DEF TypeOK, PInv

\* A call keeps the ownership, and loses no string.
Keeps == Owning' /\ \A d : Lost(d)' => Lost(d)

LEMMA SInsertKeeps ==
  ASSUME PInv, Owning, NEW i \in Int, NEW s \in Str, SInsert(i, s)
  PROVE  Keeps
<1>1. PICK d \in Elem : Dup({}, s, d) /\ Insert(i, d)
  BY DEF SInsert
<1>2. PICK m \in Node : Inserting(IF Hit(i) THEN i ELSE Len(Chain), m, d)
  BY <1>1, InsertMoves
<1>3. m \in Node \ live /\ live' = live \cup {m} /\ data' = [data EXCEPT ![m] = d]
  BY <1>2 DEF Inserting
<1>4. data'[m] = d /\ \A n \in live : data'[n] = data[n] /\ data[n] \in Elem
  BY <1>3, Shape DEF PInv
<1>5. mem[d] = Freed /\ mem' = [b \in Elem |-> IF b = d THEN s ELSE mem[b]]
  BY <1>1 DEF Dup, Alive
<1>6. s # Freed
  BY FreedAssumption
<1>7. \A n \in live : data[n] # d
  BY <1>5 DEF Owning
<1>8. mem' \in [Elem -> Str \cup {Freed}]
  BY <1>5 DEF Owning
<1>9. \A n \in live' : mem'[data'[n]] # Freed
  BY <1>3, <1>4, <1>5, <1>6, <1>7 DEF Owning
<1>10. \A n, o \in live' : data'[n] = data'[o] => n = o
  BY <1>3, <1>4, <1>7 DEF Owning
<1>11. ASSUME NEW b, Lost(b)' PROVE Lost(b)
  <2>1. b \in Elem /\ mem'[b] # Freed /\ \A n \in live' : data'[n] # b
    BY <1>11 DEF Lost
  <2>2. b # d
    BY <1>3, <1>4, <2>1
  <2> QED BY <1>3, <1>4, <1>5, <2>1, <2>2 DEF Lost
<1> QED BY <1>8, <1>9, <1>10, <1>11 DEF Keeps, Owning

LEMMA SReplaceKeeps ==
  ASSUME PInv, Owning, NEW i \in Int, NEW s \in Str, SReplace(i, s)
  PROVE  Owning' /\ (Hit(i) => Keeps) /\ (~Hit(i) => UNCHANGED vars)
<1>1. PICK d \in Elem : /\ Dup(At(i), s, d)
                        /\ IF Hit(i) THEN Replace(i, d) ELSE UNCHANGED vars
  BY DEF SReplace
<1>2. s # Freed
  BY FreedAssumption
<1>3. CASE Hit(i)
  <2> DEFINE n == Chain[i + 1]
             o == data[n]
  <2>1. i + 1 \in 1 .. Len(Chain)
    BY <1>3, PlacesAre
  <2>2. n \in live /\ n \in Node /\ o \in Elem
    BY <2>1, Shape
  <2>3. live' = live /\ data' = [data EXCEPT ![n] = d]
    BY <1>1, <1>3 DEF Replace
  <2>4. At(i) = {o}
    BY <1>3 DEF At
  <2> HIDE DEF n
  <2>5. data'[n] = d /\ \A a \in live : a # n => data'[a] = data[a] /\ data[a] # o
    BY <2>2, <2>3, Shape DEF PInv, Owning
  <2> HIDE DEF o
  <2>6. (d = o \/ mem[d] = Freed)
    BY <1>1, <2>4 DEF Dup, Alive
  <2>7. mem' = [b \in Elem |-> IF b = d THEN s ELSE IF b = o THEN Freed ELSE mem[b]]
    BY <1>1, <2>4 DEF Dup
  <2>8. \A a \in live : a # n => data[a] # d /\ data[a] \in Elem
    BY <2>5, <2>6 DEF Owning, PInv
  <2>9. mem' \in [Elem -> Str \cup {Freed}]
    BY <2>7 DEF Owning
  <2>10. \A a \in live' : mem'[data'[a]] # Freed
    BY <1>2, <2>3, <2>5, <2>7, <2>8 DEF Owning
  <2>11. \A a, b \in live' : data'[a] = data'[b] => a = b
    BY <2>3, <2>5, <2>8 DEF Owning
  <2>12. ASSUME NEW b, Lost(b)' PROVE Lost(b)
    <3>1. b \in Elem /\ mem'[b] # Freed /\ \A a \in live' : data'[a] # b
      BY <2>12 DEF Lost
    <3>2. b # d
      BY <2>2, <2>3, <2>5, <3>1
    <3>3. b # o /\ mem[b] # Freed
      BY <2>7, <3>1, <3>2
    <3>4. \A a \in live : data[a] # b
      BY <2>3, <2>5, <3>1, <3>3 DEF o
    <3> QED BY <3>1, <3>3, <3>4 DEF Lost
  <2> QED BY <1>3, <2>9, <2>10, <2>11, <2>12 DEF Keeps, Owning
<1>4. CASE ~Hit(i)
  <2>1. At(i) = {} /\ UNCHANGED vars
    BY <1>1, <1>4 DEF At
  <2>2. mem' = [b \in Elem |-> IF b = d THEN s ELSE mem[b]]
    BY <1>1, <2>1 DEF Dup
  <2>3. live' = live /\ data' = data
    BY <2>1 DEF vars
  <2>4. \A n \in live : data[n] \in Elem
    BY DEF PInv
  <2>5. mem' \in [Elem -> Str \cup {Freed}]
    BY <2>2 DEF Owning
  <2>6. \A n \in live' : mem'[data'[n]] # Freed
    BY <1>2, <2>2, <2>3, <2>4 DEF Owning
  <2> QED BY <1>4, <2>1, <2>3, <2>5, <2>6 DEF Owning
<1> QED BY <1>3, <1>4

LEMMA SRemoveKeeps ==
  ASSUME PInv, Owning, NEW i \in Int, SRemove(i)
  PROVE  Keeps
<1> DEFINE n == Chain[i + 1]
           o == data[n]
<1>1. Removing(i) /\ Hit(i) /\ FreeStrings(At(i))
  BY UnlinkMoves DEF SRemove, Unlink
<1>2. i + 1 \in 1 .. Len(Chain)
  BY <1>1, PlacesAre
<1>3. n \in live
  BY <1>2, Shape
<1>4. /\ live' = live \ {n}
      /\ data' = [a \in Node |-> IF a = n THEN None ELSE data[a]]
  BY <1>1 DEF Removing
<1>5. mem' = [b \in Elem |-> IF b = o THEN Freed ELSE mem[b]]
  BY <1>1 DEF FreeStrings, At
<1> HIDE DEF n
<1>6. \A a \in live' : a \in live /\ a # n /\ data'[a] = data[a] /\ data[a] # o /\ data[a] \in Elem
  BY <1>3, <1>4, Shape DEF PInv, Owning
<1> HIDE DEF o
<1>7. mem' \in [Elem -> Str \cup {Freed}]
  BY <1>5 DEF Owning
<1>8. \A a \in live' : mem'[data'[a]] # Freed
  BY <1>5, <1>6 DEF Owning
<1>9. \A a, b \in live' : data'[a] = data'[b] => a = b
  BY <1>6 DEF Owning
<1>10. ASSUME NEW b, Lost(b)' PROVE Lost(b)
  <2>1. b \in Elem /\ mem'[b] # Freed /\ \A a \in live' : data'[a] # b
    BY <1>10 DEF Lost
  <2>2. b # o /\ mem[b] # Freed
    BY <1>5, <2>1
  <2>3. ASSUME NEW a \in live PROVE data[a] # b
    <3>1. CASE a = n
      BY <2>2, <3>1 DEF o
    <3>2. CASE a # n
      BY <1>4, <1>6, <2>1, <3>2
    <3> QED BY <3>1, <3>2
  <2> QED BY <2>1, <2>2, <2>3 DEF Lost
<1> QED BY <1>7, <1>8, <1>9, <1>10 DEF Keeps, Owning

LEMMA SClearKeeps ==
  ASSUME PInv, Owning, SClear
  PROVE  Keeps
<1>1. live' = {} /\ FreeStrings(Listed)
  BY LastIs, ClearMoves DEF SClear
<1>2. \A b \in Elem : b \in Listed <=> \E n \in live : data[n] = b
  BY RangeIs DEF Listed
<1>3. mem' = [b \in Elem |-> IF b \in Listed THEN Freed ELSE mem[b]]
  BY <1>1 DEF FreeStrings
<1>4. mem' \in [Elem -> Str \cup {Freed}]
  BY <1>3 DEF Owning
<1>5. ASSUME NEW b, Lost(b)' PROVE Lost(b)
  <2>1. b \in Elem /\ mem'[b] # Freed
    BY <1>5 DEF Lost
  <2>2. b \notin Listed /\ mem[b] # Freed
    BY <1>3, <2>1
  <2> QED BY <1>2, <2>1, <2>2 DEF Lost
<1> QED BY <1>1, <1>4, <1>5 DEF Keeps, Owning

LEMMA SOtherKeeps ==
  ASSUME PInv, Owning, \/ (First \/ NextElem) /\ UNCHANGED mem
                       \/ UNCHANGED svars
  PROVE  Keeps
<1>1. UNCHANGED <<live, data, mem>>
  BY DEF First, NextElem, links, svars, vars
<1> QED BY <1>1 DEF Keeps, Owning, Lost

\* A step that keeps the ownership and loses nothing, but for the copy that a
\* replacement beyond the end makes.
SafeStep ==
  /\ Owning'
  /\ \/ \A d : Lost(d)' => Lost(d)
     \/ UNCHANGED vars /\ \E i \in Index, s \in Str : ~Hit(i) /\ SReplace(i, s)

LEMMA SNextKeeps == PInv /\ Owning /\ [SNext]_svars => SafeStep
<1> SUFFICES ASSUME PInv, Owning, [SNext]_svars PROVE SafeStep
  OBVIOUS
<1>1. ASSUME NEW i \in Index, NEW s \in Str, SInsert(i, s) PROVE SafeStep
  BY <1>1, SInsertKeeps, IndexAssumption DEF Keeps, SafeStep
<1>2. ASSUME NEW i \in Index, NEW s \in Str, SReplace(i, s) PROVE SafeStep
  <2>1. Owning' /\ (Hit(i) => Keeps) /\ (~Hit(i) => UNCHANGED vars)
    BY <1>2, SReplaceKeeps, IndexAssumption
  <2>2. CASE Hit(i)
    BY <2>1, <2>2 DEF Keeps, SafeStep
  <2>3. CASE ~Hit(i)
    <3>1. \E j \in Index, r \in Str : ~Hit(j) /\ SReplace(j, r)
      BY <1>2, <2>3
    <3> QED BY <2>1, <2>3, <3>1 DEF SafeStep
  <2> QED BY <2>2, <2>3
<1>3. ASSUME NEW i \in Index, SRemove(i) PROVE SafeStep
  BY <1>3, SRemoveKeeps, IndexAssumption DEF Keeps, SafeStep
<1>4. CASE SClear
  BY <1>4, SClearKeeps DEF Keeps, SafeStep
<1>5. CASE ((First \/ NextElem) /\ UNCHANGED mem) \/ UNCHANGED svars
  BY <1>5, SOtherKeeps DEF Keeps, SafeStep
<1> QED BY <1>1, <1>2, <1>3, <1>4, <1>5 DEF SNext

LEMMA StrlistInductive == SSpec => [](PInv /\ Owning)
<1>1. SInit => PInv /\ Owning
  BY InitPInv DEF SInit, Init, Owning
<1>2. PInv /\ Owning /\ [SNext]_svars => PInv' /\ Owning'
  BY SNextPInv, SNextKeeps DEF SafeStep
<1> QED BY <1>1, <1>2, PTL DEF SSpec

\* No call of the list leaks a node, leaves a freed one linked, or lets two
\* places share a string: OwnsStrings, wherever strings are inserted, replaced
\* and removed, and whichever freed block malloc() gives out.
THEOREM StringsOwned == SSpec => []OwnsStrings
<1>1. PInv /\ Owning => OwnsStrings
  <2> SUFFICES ASSUME PInv, Owning PROVE OwnsStrings
    OBVIOUS
  <2>1. STypeOK
    BY TypesOf DEF STypeOK, Owning
  <2>2. NodesAreLinked
    BY RangeIs DEF NodesAreLinked
  <2>3. Listed \subseteq Alive
    BY RangeIs DEF Listed, Alive, Owning, PInv
  <2>4. DOMAIN Chain = 1 .. Len(Chain)
    BY Shape, LenProperties
  <2>5. \A i, j \in 1 .. Len(Chain) : data[Chain[i]] = data[Chain[j]] => i = j
    BY Shape DEF Owning
  <2> QED BY <2>1, <2>2, <2>3, <2>4, <2>5 DEF OwnsStrings
<1> QED BY <1>1, StrlistInductive, PTL

\* A string that leaves the list is freed by the call that takes it out;
\* slist_replace() beyond the end alone loses the copy it made.
THEOREM StringsFreed == SSpec => FreedWithPlace
<1> DEFINE Step ==
      \/ Unlisted' \subseteq Unlisted
      \/ UNCHANGED vars /\ \E i \in Index, s \in Str : ~Hit(i) /\ SReplace(i, s)
<1>1. PInv /\ PInv' /\ Owning /\ [SNext]_svars => Step
  <2> SUFFICES ASSUME PInv, PInv', Owning, [SNext]_svars PROVE Step
    OBVIOUS
  <2>1. SafeStep
    BY SNextKeeps
  <2>2. CASE \A d : Lost(d)' => Lost(d)
    BY <2>2, UnlistedAre, UnlistedAreThen DEF UnlistedAreLost
  <2> QED BY <2>1, <2>2 DEF SafeStep
<1>2. FreedWithPlace <=> [][Step]_svars
  BY DEF FreedWithPlace
<1> HIDE DEF Step
<1>3. [](PInv /\ Owning) /\ [][SNext]_svars => [][Step]_svars
  BY <1>1, PTL
<1>4. SSpec => [][Step]_svars
  BY <1>3, StrlistInductive, PTL DEF SSpec
<1> QED BY <1>2, <1>4

\* The pointer list of a string list is a sequence with an iterator, too.
THEOREM StrlistImplementsList == SSpec => ImplementsList
BY StrlistInductive, ListSteps, PTL

=============================================================================
