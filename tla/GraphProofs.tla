------------------------------ MODULE GraphProofs ------------------------------
(***************************************************************************)
(* Proofs about Graph, for every set of nodes and number of edges and      *)
(* tags: the lists of outgoing and of incoming edges agree, and, as long   *)
(* as rand() returns no tag that is still in use, a traversal calls back   *)
(* once for every edge there is a way to.                                  *)
(***************************************************************************)
EXTENDS Graph, SequenceTheorems, WellFoundedInduction, TLAPS

Frame == [node : Node, i : Nat \ {0}]

\* What is on the stack; between traversals, nothing.
Placed ==
  \/ visit = <<>>
  \/ \E n \in Node : \E i \in 1 .. Len(out[n]) : visit = <<[node |-> n, i |-> i]>>

Stacked ==
  /\ pc = "idle" => stack = <<>> /\ visit = <<>> /\ nfs = <<>> /\ efs = <<>>
  /\ pc = "dfs" => stack \in Seq(Frame) /\ visit = <<>>
  /\ pc = "bfs" => stack \in Seq(Node) /\ Placed

IInv == ListsAgree /\ Stacked

-----------------------------------------------------------------------------
(* Lists *)

\* The members of a list are what Range says they are.
LEMMA RangeIs ==
  ASSUME NEW S, NEW s \in Seq(S)
  PROVE  /\ Range(s) = {s[i] : i \in 1 .. Len(s)} /\ Range(s) \subseteq S
         /\ IsInjective(s) <=> \A i, j \in 1 .. Len(s) : s[i] = s[j] => i = j
<1>1. DOMAIN s = 1 .. Len(s)
  BY LenProperties
<1>2. \A i \in 1 .. Len(s) : s[i] \in S
  BY ElementOfSeq
<1> QED BY <1>1, <1>2 DEF Range, IsInjective

LEMMA EmptyIs ==
  ASSUME NEW S
  PROVE  <<>> \in Seq(S) /\ Len(<<>>) = 0 /\ Range(<<>>) = {} /\ IsInjective(<<>>)
<1>1. <<>> \in Seq(S) /\ Len(<<>>) = 0
  BY EmptySeq
<1>2. DOMAIN <<>> = 1 .. Len(<<>>)
  BY <1>1, LenProperties
<1>3. DOMAIN <<>> = {}
  BY <1>1, <1>2
<1> QED BY <1>1, <1>3 DEF Range, IsInjective

LEMMA OneIs ==
  ASSUME NEW S, NEW x \in S
  PROVE  <<x>> \in Seq(S) /\ Len(<<x>>) = 1 /\ <<x>>[1] = x
<1>1. <<x>> = [i \in 1 .. 1 |-> x]
  OBVIOUS
<1>2. [i \in 1 .. 1 |-> x] \in [1 .. 1 -> S]
  OBVIOUS
<1>3. \A T, m : m \in Nat => [1 .. m -> T] \subseteq Seq(T)
  BY SeqDef
<1>4. <<x>> \in Seq(S)
  BY <1>1, <1>2, <1>3
<1> QED BY <1>4

LEMMA AppendIs ==
  ASSUME NEW S, NEW s \in Seq(S), NEW x \in S
  PROVE  /\ Append(s, x) \in Seq(S) /\ Len(Append(s, x)) = Len(s) + 1
         /\ \A i \in 1 .. Len(s) : Append(s, x)[i] = s[i]
         /\ Append(s, x)[Len(s) + 1] = x
         /\ Range(Append(s, x)) = Range(s) \cup {x}
         /\ IsInjective(s) /\ x \notin Range(s) => IsInjective(Append(s, x))
<1> DEFINE t == Append(s, x)
<1>1. /\ t \in Seq(S) /\ Len(t) = Len(s) + 1 /\ Len(s) \in Nat
      /\ \A i \in 1 .. Len(s) : t[i] = s[i]
      /\ t[Len(s) + 1] = x
  BY AppendProperties, LenProperties
<1> HIDE DEF t
<1>2. \A i \in 1 .. Len(t) : i \in 1 .. Len(s) \/ i = Len(s) + 1
  BY <1>1
<1>3. 1 .. Len(s) \subseteq 1 .. Len(t) /\ Len(s) + 1 \in 1 .. Len(t)
  BY <1>1
<1>4. Range(t) = {t[i] : i \in 1 .. Len(t)} /\ Range(s) = {s[i] : i \in 1 .. Len(s)}
  BY <1>1, RangeIs
<1>5. Range(t) = Range(s) \cup {x}
  <2>1. ASSUME NEW y \in Range(t) PROVE y \in Range(s) \cup {x}
    <3>1. PICK i \in 1 .. Len(t) : y = t[i]
      BY <1>4
    <3> QED BY <1>1, <1>2, <1>4, <3>1
  <2>2. ASSUME NEW y \in Range(s) \cup {x} PROVE y \in Range(t)
    <3>1. CASE y = x
      BY <1>1, <1>3, <1>4, <3>1
    <3>2. CASE y \in Range(s)
      <4>1. PICK i \in 1 .. Len(s) : y = s[i]
        BY <1>4, <3>2
      <4>2. i \in 1 .. Len(t) /\ y = t[i]
        BY <1>1, <1>3, <4>1
      <4> QED BY <1>4, <4>2
    <3> QED BY <3>1, <3>2
  <2> QED BY <2>1, <2>2
<1>6. ASSUME IsInjective(s), x \notin Range(s) PROVE IsInjective(t)
  <2>1. \A i, j \in 1 .. Len(s) : s[i] = s[j] => i = j
    BY <1>6, RangeIs
  <2>2. \A i \in 1 .. Len(s) : s[i] # x
    BY <1>4, <1>6
  <2>3. ASSUME NEW i \in 1 .. Len(t), NEW j \in 1 .. Len(t), t[i] = t[j] PROVE i = j
    <3>1. CASE i = Len(s) + 1 /\ j = Len(s) + 1
      BY <3>1
    <3>2. CASE i \in 1 .. Len(s) /\ j \in 1 .. Len(s)
      <4>1. t[i] = s[i] /\ t[j] = s[j]
        BY <1>1, <3>2
      <4> QED BY <2>1, <2>3, <3>2, <4>1
    <3>3. CASE i \in 1 .. Len(s) /\ j = Len(s) + 1
      <4>1. t[i] = s[i] /\ t[j] = x
        BY <1>1, <3>3
      <4> QED BY <2>2, <2>3, <3>3, <4>1
    <3>4. CASE j \in 1 .. Len(s) /\ i = Len(s) + 1
      <4>1. t[j] = s[j] /\ t[i] = x
        BY <1>1, <3>4
      <4> QED BY <2>2, <2>3, <3>4, <4>1
    <3> QED BY <1>2, <3>1, <3>2, <3>3, <3>4
  <2> QED BY <1>1, <2>3, RangeIs
<1> QED BY <1>1, <1>5, <1>6 DEF t

\* What a list is without its last element.
LEMMA FrontIs ==
  ASSUME NEW S, NEW s \in Seq(S), s # <<>>
  PROVE  /\ Front(s) \in Seq(S) /\ Len(Front(s)) = Len(s) - 1
         /\ Len(s) \in Nat \ {0} /\ s[Len(s)] \in S
         /\ \A i \in 1 .. Len(s) - 1 : Front(s)[i] = s[i]
         /\ Range(s) = Range(Front(s)) \cup {s[Len(s)]}
<1>1. Len(s) \in Nat \ {0} /\ \A i \in 1 .. Len(s) : s[i] \in S
  BY EmptySeq, ElementOfSeq
<1>2. /\ Len(s) \in 1 .. Len(s) /\ 1 \in Int /\ Len(s) - 1 \in Int
      /\ \A i \in 1 .. Len(s) - 1 : i \in 1 .. Len(s)
  BY <1>1
<1>3. \A i \in 1 .. Len(s) - 1 : s[i] \in S
  BY <1>1, <1>2
<1>4. /\ Front(s) \in Seq(S)
      /\ Len(Front(s)) = IF 1 <= Len(s) - 1 THEN Len(s) - 1 - 1 + 1 ELSE 0
      /\ \A i \in 1 .. Len(s) - 1 - 1 + 1 : Front(s)[i] = s[1 + i - 1]
  BY <1>2, <1>3, SubSeqProperties DEF Front
<1>5. Len(s) - 1 - 1 + 1 = Len(s) - 1 /\ \A i \in 1 .. Len(s) - 1 : 1 + i - 1 = i
  BY <1>1
<1>6. \A i \in 1 .. Len(s) - 1 : Front(s)[i] = s[i]
  BY <1>4, <1>5
<1>7. Len(Front(s)) = Len(s) - 1
  <2>1. CASE 1 <= Len(s) - 1
    BY <1>1, <1>4, <1>5, <2>1
  <2>2. CASE ~(1 <= Len(s) - 1)
    <3>1. Len(s) - 1 = 0
      BY <1>1, <2>2
    <3> QED BY <1>4, <2>2, <3>1
  <2> QED BY <2>1, <2>2
<1>8. /\ Range(s) = {s[i] : i \in 1 .. Len(s)}
      /\ Range(Front(s)) = {Front(s)[i] : i \in 1 .. Len(s) - 1}
  <2>1. Range(s) = {s[i] : i \in 1 .. Len(s)}
    BY RangeIs
  <2>2. Range(Front(s)) = {Front(s)[i] : i \in 1 .. Len(Front(s))}
    BY <1>4, RangeIs
  <2> QED BY <1>7, <2>1, <2>2
<1>9. \A i \in 1 .. Len(s) : i \in 1 .. Len(s) - 1 \/ i = Len(s)
  BY <1>1
<1>10. Range(s) = Range(Front(s)) \cup {s[Len(s)]}
  <2>1. ASSUME NEW y \in Range(s) PROVE y \in Range(Front(s)) \cup {s[Len(s)]}
    <3>1. PICK i \in 1 .. Len(s) : y = s[i]
      BY <1>8
    <3> QED BY <1>6, <1>8, <1>9, <3>1
  <2>2. ASSUME NEW y \in Range(Front(s)) PROVE y \in Range(s)
    <3>1. PICK i \in 1 .. Len(s) - 1 : y = Front(s)[i]
      BY <1>8
    <3> QED BY <1>2, <1>6, <1>8, <3>1
  <2>3. s[Len(s)] \in Range(s)
    BY <1>2, <1>8
  <2> QED BY <2>1, <2>2, <2>3
<1> QED BY <1>1, <1>2, <1>4, <1>6, <1>7, <1>10

-----------------------------------------------------------------------------
(* del_edge() *)

Place(list, e) == SelectInSeq(list, LAMBDA x : x = e)

LEMMA PlaceIs ==
  ASSUME NEW S, NEW list \in Seq(S), IsInjective(list), NEW i \in 1 .. Len(list)
  PROVE  Place(list, list[i]) = i
<1> DEFINE I == {j \in 1 .. Len(list) : list[j] = list[i]}
<1>1. Place(list, list[i]) = IF I # {} THEN Min(I) ELSE 0
  BY DEF Place, SelectInSeq
<1>2. I = {i}
  BY RangeIs
<1>3. Min({i}) = i
  <2>1. i \in Int
    BY LenProperties
  <2> QED BY <2>1 DEF Min
<1> QED BY <1>1, <1>2, <1>3

\* The list loses the edge and nothing else.
LEMMA WithoutIs ==
  ASSUME NEW S, NEW list \in Seq(S), IsInjective(list), NEW e
  PROVE  /\ Without(list, e) \in Seq(S) /\ IsInjective(Without(list, e))
         /\ Range(Without(list, e)) = Range(list) \ {e}
<1>1. /\ Range(list) = {list[i] : i \in 1 .. Len(list)} /\ Len(list) \in Nat
      /\ \A i \in 1 .. Len(list) : list[i] \in S
      /\ \A i, j \in 1 .. Len(list) : list[i] = list[j] => i = j
  BY RangeIs, LenProperties, ElementOfSeq
<1>2. CASE ~Contains(list, e)
  <2>1. Without(list, e) = list /\ e \notin Range(list)
    BY <1>1, <1>2 DEF Without, Contains
  <2> QED BY <2>1
<1>3. CASE Contains(list, e)
  <2>1. PICK r \in 1 .. Len(list) : list[r] = e
    BY <1>3 DEF Contains
  <2>2. Place(list, e) = r
    BY <2>1, PlaceIs
  <2> DEFINE moved == [list EXCEPT ![r] = list[Len(list)]]
             w == Without(list, e)
  <2>3. w = Front(moved)
    BY <1>3, <2>2 DEF Without, Place, Last
  <2>4. Len(list) \in 1 .. Len(list) /\ list[Len(list)] \in S
    BY <1>1, <2>1
  <2>5. /\ moved \in Seq(S) /\ Len(moved) = Len(list)
        /\ \A j \in 1 .. Len(list) : moved[j] = IF j = r THEN list[Len(list)] ELSE list[j]
    BY <2>4, ExceptSeq
  <2>6. moved # <<>>
    BY <2>4, <2>5, EmptySeq
  <2> HIDE DEF moved
  <2>7. /\ w \in Seq(S) /\ Len(w) = Len(list) - 1
        /\ \A i \in 1 .. Len(list) - 1 : w[i] = moved[i]
    BY <2>3, <2>5, <2>6, FrontIs
  <2> HIDE DEF w
  <2>8. \A i \in 1 .. Len(list) - 1 :
          i \in 1 .. Len(list) /\ i # Len(list)
          /\ w[i] = IF i = r THEN list[Len(list)] ELSE list[i]
    BY <1>1, <2>5, <2>7
  <2>9. ASSUME NEW i \in 1 .. Len(w), NEW j \in 1 .. Len(w), w[i] = w[j] PROVE i = j
    <3>1. i \in 1 .. Len(list) - 1 /\ j \in 1 .. Len(list) - 1
      BY <2>7
    <3>2. CASE i = r
      BY <1>1, <2>4, <2>8, <2>9, <3>1, <3>2
    <3>3. CASE j = r
      BY <1>1, <2>4, <2>8, <2>9, <3>1, <3>3
    <3>4. CASE i # r /\ j # r
      BY <1>1, <2>8, <2>9, <3>1, <3>4
    <3> QED BY <3>2, <3>3, <3>4
  <2>10. Range(w) = {w[i] : i \in 1 .. Len(list) - 1} /\ IsInjective(w)
    <3>1. Range(w) = {w[i] : i \in 1 .. Len(w)}
      BY <2>7, RangeIs
    <3>2. IsInjective(w)
      BY <2>7, <2>9, RangeIs
    <3> QED BY <2>7, <3>1, <3>2
  <2>11. ASSUME NEW y \in Range(w) PROVE y \in Range(list) \ {e}
    <3>1. PICK i \in 1 .. Len(list) - 1 : y = w[i]
      BY <2>10
    <3>2. CASE i = r
      <4>1. y = list[Len(list)] /\ r # Len(list)
        BY <2>8, <3>1, <3>2
      <4>2. y # e
        BY <1>1, <2>1, <2>4, <4>1
      <4> QED BY <1>1, <2>4, <4>1, <4>2
    <3>3. CASE i # r
      <4>1. y = list[i] /\ i \in 1 .. Len(list)
        BY <2>8, <3>1, <3>3
      <4>2. y # e
        BY <1>1, <2>1, <3>3, <4>1
      <4> QED BY <1>1, <4>1, <4>2
    <3> QED BY <3>2, <3>3
  <2>12. ASSUME NEW y \in Range(list) \ {e} PROVE y \in Range(w)
    <3>1. PICK i \in 1 .. Len(list) : y = list[i]
      BY <1>1
    <3>2. i # r
      BY <2>1, <2>12, <3>1
    <3>3. CASE i = Len(list)
      <4>1. r \in 1 .. Len(list) - 1
        BY <1>1, <3>2, <3>3
      <4>2. w[r] = y
        BY <2>8, <3>1, <3>3, <4>1
      <4> QED BY <2>10, <4>1, <4>2
    <3>4. CASE i # Len(list)
      <4>1. i \in 1 .. Len(list) - 1
        BY <1>1, <3>4
      <4>2. w[i] = y
        BY <2>8, <3>1, <3>2, <4>1
      <4> QED BY <2>10, <4>1, <4>2
    <3> QED BY <3>3, <3>4
  <2> QED BY <2>7, <2>10, <2>11, <2>12 DEF w
<1> QED BY <1>2, <1>3

-----------------------------------------------------------------------------
(* The lists agree *)

Agreed ==
  \A n \in Node :
    /\ \A e \in Range(out[n]) : from[e] = n /\ e \in Range(in[to[e]])
    /\ \A e \in Range(in[n]) : to[e] = n /\ e \in Range(out[from[e]])
    /\ IsInjective(out[n]) /\ IsInjective(in[n])

LEMMA ListsAgreeIs == ListsAgree <=> TypeOK /\ Agreed
BY DEF ListsAgree, Agreed

\* The links, as far as TypeOK says.
LinksOK ==
  /\ from \in Seq(Node) /\ to \in Seq(Node) /\ Len(to) = Len(from)
  /\ out \in [Node -> Seq(Made)] /\ in \in [Node -> Seq(Made)]
  /\ Len(from) \in Nat /\ Made = 1 .. Len(from)
  /\ \A e \in Made : from[e] \in Node /\ to[e] \in Node
  /\ \A n \in Node : Range(out[n]) \subseteq Made /\ Range(in[n]) \subseteq Made

LEMMA LinksAre == ASSUME TypeOK PROVE LinksOK
<1>1. from \in Seq(Node) /\ to \in Seq(Node) /\ Len(to) = Len(from)
  BY DEF TypeOK
<1>2. Len(from) \in Nat /\ Made = 1 .. Len(from)
  BY <1>1, LenProperties DEF Made
<1>3. \A e \in Made : from[e] \in Node /\ to[e] \in Node
  BY <1>1, <1>2, ElementOfSeq
<1>4. out \in [Node -> Seq(Made)] /\ in \in [Node -> Seq(Made)]
  BY DEF TypeOK
<1>5. ASSUME NEW n \in Node PROVE Range(out[n]) \subseteq Made /\ Range(in[n]) \subseteq Made
  <2>1. out[n] \in Seq(Made) /\ in[n] \in Seq(Made)
    BY <1>4
  <2> QED BY <2>1, RangeIs
<1> QED BY <1>1, <1>2, <1>3, <1>4, <1>5 DEF LinksOK

\* The edge that link_node() makes.
Newest == Len(from) + 1

LEMMA LinkIs ==
  ASSUME IInv, NEW a \in Node, NEW b \in Node, Link(a, b)
  PROVE  /\ Newest \notin Made /\ Made' = Made \cup {Newest}
         /\ from' \in Seq(Node) /\ to' \in Seq(Node) /\ Len(to') = Len(from')
         /\ from'[Newest] = a /\ to'[Newest] = b
         /\ \A x \in Made : from'[x] = from[x] /\ to'[x] = to[x]
         /\ etag' \in [Made' -> 0 .. Tags]
<1>1. LinksOK /\ etag \in [Made -> 0 .. Tags]
  BY LinksAre DEF IInv, ListsAgree, TypeOK
<1>2. /\ from' = Append(from, a) /\ to' = Append(to, b) /\ etag' = Append(etag, 0)
  BY DEF Link
<1>3. /\ from \in Seq(Node) /\ to \in Seq(Node) /\ Len(to) = Len(from)
      /\ Len(from) \in Nat /\ Made = 1 .. Len(from)
  BY <1>1 DEF LinksOK
<1>4. /\ from' \in Seq(Node) /\ Len(from') = Len(from) + 1
      /\ \A x \in 1 .. Len(from) : from'[x] = from[x]
      /\ from'[Len(from) + 1] = a
  BY <1>2, <1>3, AppendIs
<1>5. /\ to' \in Seq(Node) /\ Len(to') = Len(to) + 1
      /\ \A x \in 1 .. Len(to) : to'[x] = to[x]
      /\ to'[Len(to) + 1] = b
  BY <1>2, <1>3, AppendIs
<1>6. Made' = 1 .. Len(from) + 1
  <2>1. DOMAIN from' = 1 .. Len(from')
    BY <1>4, LenProperties
  <2> QED BY <1>4, <2>1 DEF Made
<1>7. Made' = Made \cup {Newest} /\ Newest \notin Made
  BY <1>3, <1>6 DEF Newest
<1>8. etag' \in [Made' -> 0 .. Tags]
  <2>1. etag \in Seq(0 .. Tags)
    <3>1. \A S, m : m \in Nat => [1 .. m -> S] \subseteq Seq(S)
      BY SeqDef
    <3>2. etag \in [1 .. Len(from) -> 0 .. Tags]
      BY <1>1, <1>3
    <3> QED BY <1>3, <3>1, <3>2
  <2>2. 0 \in 0 .. Tags
    BY BoundsAssumption
  <2>3. DOMAIN etag = 1 .. Len(etag) /\ Len(etag) \in Nat
    BY <2>1, LenProperties
  <2>4. Len(etag) = Len(from)
    <3>1. 1 .. Len(etag) = 1 .. Len(from)
      BY <1>1, <1>3, <2>3
    <3>2. \A i, j \in Nat : 1 .. i = 1 .. j => i = j
      <4>1. ASSUME NEW i \in Nat, NEW j \in Nat, 1 .. i = 1 .. j PROVE i = j
        <5>1. CASE i < j
          <6>1. j \in 1 .. j /\ j \notin 1 .. i
            BY <5>1
          <6> QED BY <4>1, <6>1
        <5>2. CASE j < i
          <6>1. i \in 1 .. i /\ i \notin 1 .. j
            BY <5>2
          <6> QED BY <4>1, <6>1
        <5> QED BY <5>1, <5>2
      <4> QED BY <4>1
    <3> QED BY <1>3, <2>3, <3>1, <3>2
  <2>5. etag' \in Seq(0 .. Tags) /\ Len(etag') = Len(from) + 1
    BY <1>2, <2>1, <2>2, <2>4, AppendIs
  <2> QED BY <1>6, <2>5, LenProperties
<1> QED BY <1>3, <1>4, <1>5, <1>7, <1>8 DEF Newest

\* The edge is added to one list of each kind.
Linked(a, b) ==
  \A n \in Node :
    /\ out'[n] \in Seq(Made') /\ in'[n] \in Seq(Made')
    /\ Range(out'[n]) = Range(out[n]) \cup (IF n = a THEN {Newest} ELSE {})
    /\ Range(in'[n]) = Range(in[n]) \cup (IF n = b THEN {Newest} ELSE {})
    /\ IsInjective(out'[n]) /\ IsInjective(in'[n])

LEMMA LinkLists ==
  ASSUME IInv, NEW a \in Node, NEW b \in Node, Link(a, b)
  PROVE  Linked(a, b)
<1>1. LinksOK /\ Agreed
  BY LinksAre, ListsAgreeIs DEF IInv
<1>2. /\ out' = [out EXCEPT ![a] = Append(@, Newest)]
      /\ in' = [in EXCEPT ![b] = Append(@, Newest)]
  BY DEF Link, Newest
<1>3. Newest \notin Made /\ Made' = Made \cup {Newest}
  BY LinkIs
<1>4. ASSUME NEW s \in Seq(Made), IsInjective(s), Range(s) \subseteq Made
      PROVE  /\ s \in Seq(Made')
             /\ Append(s, Newest) \in Seq(Made') /\ IsInjective(Append(s, Newest))
             /\ Range(Append(s, Newest)) = Range(s) \cup {Newest}
  <2>1. s \in Seq(Made')
    BY <1>3, SeqMonotonic
  <2>2. Newest \in Made' /\ Newest \notin Range(s)
    BY <1>3, <1>4
  <2> QED BY <1>4, <2>1, <2>2, AppendIs
<1>5. ASSUME NEW n \in Node
      PROVE  /\ out'[n] \in Seq(Made') /\ IsInjective(out'[n])
             /\ Range(out'[n]) = Range(out[n]) \cup (IF n = a THEN {Newest} ELSE {})
  <2>1. out[n] \in Seq(Made) /\ IsInjective(out[n]) /\ Range(out[n]) \subseteq Made
    BY <1>1 DEF LinksOK, Agreed
  <2>2. out'[n] = IF n = a THEN Append(out[n], Newest) ELSE out[n]
    BY <1>1, <1>2 DEF LinksOK
  <2>3. CASE n = a
    BY <1>4, <2>1, <2>2, <2>3
  <2>4. CASE n # a
    BY <1>4, <2>1, <2>2, <2>4
  <2> QED BY <2>3, <2>4
<1>6. ASSUME NEW n \in Node
      PROVE  /\ in'[n] \in Seq(Made') /\ IsInjective(in'[n])
             /\ Range(in'[n]) = Range(in[n]) \cup (IF n = b THEN {Newest} ELSE {})
  <2>1. in[n] \in Seq(Made) /\ IsInjective(in[n]) /\ Range(in[n]) \subseteq Made
    BY <1>1 DEF LinksOK, Agreed
  <2>2. in'[n] = IF n = b THEN Append(in[n], Newest) ELSE in[n]
    BY <1>1, <1>2 DEF LinksOK
  <2>3. CASE n = b
    BY <1>4, <2>1, <2>2, <2>3
  <2>4. CASE n # b
    BY <1>4, <2>1, <2>2, <2>4
  <2> QED BY <2>3, <2>4
<1> QED BY <1>5, <1>6 DEF Linked

LEMMA LinkAgrees ==
  ASSUME IInv, NEW a \in Node, NEW b \in Node, Link(a, b)
  PROVE  Agreed'
<1>1. LinksOK /\ Agreed
  BY LinksAre, ListsAgreeIs DEF IInv
<1>2. /\ Newest \notin Made /\ from'[Newest] = a /\ to'[Newest] = b
      /\ \A x \in Made : from'[x] = from[x] /\ to'[x] = to[x]
  BY LinkIs
<1>3. \A n \in Node :
        /\ Range(out'[n]) = Range(out[n]) \cup (IF n = a THEN {Newest} ELSE {})
        /\ Range(in'[n]) = Range(in[n]) \cup (IF n = b THEN {Newest} ELSE {})
        /\ IsInjective(out'[n]) /\ IsInjective(in'[n])
  <2>1. Linked(a, b)
    BY LinkLists
  <2> QED BY <2>1 DEF Linked
<1>4. /\ \A x \in Made : from[x] \in Node /\ to[x] \in Node
      /\ \A n \in Node : Range(out[n]) \subseteq Made /\ Range(in[n]) \subseteq Made
  BY <1>1 DEF LinksOK
<1>5. ASSUME NEW n \in Node, NEW x \in Range(out'[n])
      PROVE  from'[x] = n /\ x \in Range(in'[to'[x]])
  <2>1. CASE x = Newest
    <3>1. n = a
      BY <1>2, <1>3, <1>4, <1>5, <2>1
    <3> QED BY <1>2, <1>3, <2>1, <3>1
  <2>2. CASE x # Newest
    <3>1. x \in Range(out[n]) /\ x \in Made
      BY <1>3, <1>4, <1>5, <2>2
    <3>2. from[x] = n /\ x \in Range(in[to[x]]) /\ to[x] \in Node
      BY <1>1, <1>4, <3>1 DEF Agreed
    <3> QED BY <1>2, <1>3, <3>1, <3>2
  <2> QED BY <2>1, <2>2
<1>6. ASSUME NEW n \in Node, NEW x \in Range(in'[n])
      PROVE  to'[x] = n /\ x \in Range(out'[from'[x]])
  <2>1. CASE x = Newest
    <3>1. n = b
      BY <1>2, <1>3, <1>4, <1>6, <2>1
    <3> QED BY <1>2, <1>3, <2>1, <3>1
  <2>2. CASE x # Newest
    <3>1. x \in Range(in[n]) /\ x \in Made
      BY <1>3, <1>4, <1>6, <2>2
    <3>2. to[x] = n /\ x \in Range(out[from[x]]) /\ from[x] \in Node
      BY <1>1, <1>4, <3>1 DEF Agreed
    <3> QED BY <1>2, <1>3, <3>1, <3>2
  <2> QED BY <2>1, <2>2
<1> QED BY <1>3, <1>5, <1>6 DEF Agreed

\* del_edge() on the two lists of an edge takes it from each, if it is there.
LEMMA DropLists ==
  ASSUME IInv, NEW e \in Made, DropEdge(e)
  PROVE  /\ UNCHANGED <<from, to, marks, pc, tag, start, stack, visit, nfs, efs>>
         /\ out' \in [Node -> Seq(Made)] /\ in' \in [Node -> Seq(Made)]
         /\ \A n \in Node : /\ Range(out'[n]) = Range(out[n]) \ {e}
                             /\ Range(in'[n]) = Range(in[n]) \ {e}
                             /\ IsInjective(out'[n]) /\ IsInjective(in'[n])
<1>1. LinksOK /\ Agreed
  BY LinksAre, ListsAgreeIs DEF IInv
<1>2. /\ out' = [out EXCEPT ![from[e]] = Without(@, e)]
      /\ in' = [in EXCEPT ![to[e]] = Without(@, e)]
      /\ UNCHANGED <<from, to, marks, pc, tag, start, stack, visit, nfs, efs>>
  BY DEF DropEdge, Unvisited
<1>3. /\ out \in [Node -> Seq(Made)] /\ in \in [Node -> Seq(Made)]
      /\ from[e] \in Node /\ to[e] \in Node
  BY <1>1 DEF LinksOK
<1>4. ASSUME NEW n \in Node
      PROVE  /\ out'[n] \in Seq(Made) /\ IsInjective(out'[n])
             /\ Range(out'[n]) = Range(out[n]) \ {e}
  <2>1. out[n] \in Seq(Made) /\ IsInjective(out[n])
    BY <1>1, <1>3 DEF Agreed
  <2>2. CASE n = from[e]
    <3>1. out'[n] = Without(out[n], e)
      BY <1>2, <1>3, <2>2
    <3> QED BY <2>1, <3>1, WithoutIs
  <2>3. CASE n # from[e]
    <3>1. out'[n] = out[n]
      BY <1>2, <1>3, <2>3
    <3>2. e \notin Range(out[n])
      BY <1>1, <2>3 DEF Agreed
    <3> QED BY <2>1, <3>1, <3>2
  <2> QED BY <2>2, <2>3
<1>5. ASSUME NEW n \in Node
      PROVE  /\ in'[n] \in Seq(Made) /\ IsInjective(in'[n])
             /\ Range(in'[n]) = Range(in[n]) \ {e}
  <2>1. in[n] \in Seq(Made) /\ IsInjective(in[n])
    BY <1>1, <1>3 DEF Agreed
  <2>2. CASE n = to[e]
    <3>1. in'[n] = Without(in[n], e)
      BY <1>2, <1>3, <2>2
    <3> QED BY <2>1, <3>1, WithoutIs
  <2>3. CASE n # to[e]
    <3>1. in'[n] = in[n]
      BY <1>2, <1>3, <2>3
    <3>2. e \notin Range(in[n])
      BY <1>1, <2>3 DEF Agreed
    <3> QED BY <2>1, <3>1, <3>2
  <2> QED BY <2>2, <2>3
<1>6. out' \in [Node -> Seq(Made)] /\ in' \in [Node -> Seq(Made)]
  <2>1. DOMAIN out' = Node /\ DOMAIN in' = Node
    BY <1>2, <1>3
  <2>2. out' = [n \in Node |-> out'[n]] /\ in' = [n \in Node |-> in'[n]]
    BY <1>2, <1>3
  <2> QED BY <1>4, <1>5, <2>2
<1> QED BY <1>2, <1>4, <1>5, <1>6

LEMMA DropAgrees ==
  ASSUME IInv, NEW e \in Made, DropEdge(e)
  PROVE  Agreed'
<1>1. LinksOK /\ Agreed
  BY LinksAre, ListsAgreeIs DEF IInv
<1>2. /\ from' = from /\ to' = to
      /\ \A n \in Node : /\ Range(out'[n]) = Range(out[n]) \ {e}
                          /\ Range(in'[n]) = Range(in[n]) \ {e}
                          /\ IsInjective(out'[n]) /\ IsInjective(in'[n])
  BY DropLists
<1>3. \A n \in Node : /\ \A x \in Range(out[n]) : to[x] \in Node
                      /\ \A x \in Range(in[n]) : from[x] \in Node
  BY <1>1 DEF LinksOK
<1>4. ASSUME NEW n \in Node, NEW x \in Range(out'[n])
      PROVE  from'[x] = n /\ x \in Range(in'[to'[x]])
  <2>1. x \in Range(out[n]) /\ x # e
    BY <1>2
  <2>2. from[x] = n /\ x \in Range(in[to[x]]) /\ to[x] \in Node
    BY <1>1, <1>3, <2>1 DEF Agreed
  <2> QED BY <1>2, <2>1, <2>2
<1>5. ASSUME NEW n \in Node, NEW x \in Range(in'[n])
      PROVE  to'[x] = n /\ x \in Range(out'[from'[x]])
  <2>1. x \in Range(in[n]) /\ x # e
    BY <1>2
  <2>2. to[x] = n /\ x \in Range(out[from[x]]) /\ from[x] \in Node
    BY <1>1, <1>3, <2>1 DEF Agreed
  <2> QED BY <1>2, <2>1, <2>2
<1> QED BY <1>2, <1>4, <1>5 DEF Agreed

\* A set of natural numbers has a least element.
LEMMA LeastOf ==
  ASSUME NEW S \in SUBSET Nat, S # {}
  PROVE  Min(S) \in S
<1> DEFINE R == OpToRel(<, Nat)
<1>1. IsWellFoundedOn(R, Nat)
  BY NatLessThanWellFounded
<1>2. R = {ss \in Nat \X Nat : ss[1] < ss[2]}
  BY DEF OpToRel
<1> HIDE DEF R
<1>3. PICK x \in S : \A y \in S : ~(<<y, x>> \in R)
  BY <1>1, WFMin
<1>4. \A y \in S : ~(y < x)
  BY <1>2, <1>3
<1>5. \A y \in S : x <= y
  <2>1. \A i, j \in Nat : ~(i < j) => j <= i
    OBVIOUS
  <2> QED BY <1>4, <2>1
<1> QED BY <1>5 DEF Min

\* unlink_node() drops an edge that exists.
LEMMA UnlinkDrops ==
  ASSUME IInv, NEW a \in Node, NEW b \in Node, Unlink(a, b)
  PROVE  \E e \in Made : DropEdge(e)
<1> DEFINE I == {j \in 1 .. Len(out[a]) : to[out[a][j]] = b}
           i == SelectInSeq(out[a], LAMBDA e : to[e] = b)
<1>1. out[a] \in Seq(Made) /\ Len(out[a]) \in Nat
  BY LinksAre, LenProperties DEF IInv, ListsAgree, LinksOK
<1>2. i = IF I # {} THEN Min(I) ELSE 0
  BY DEF SelectInSeq
<1>3. i # 0 /\ DropEdge(out[a][i])
  BY DEF Unlink
<1>4. I # {} /\ I \in SUBSET Nat /\ i = Min(I)
  BY <1>1, <1>2, <1>3
<1>5. Min(I) \in I
  BY <1>4, LeastOf
<1> HIDE DEF i
<1>6. i \in 1 .. Len(out[a])
  BY <1>4, <1>5
<1>7. out[a][i] \in Made
  BY <1>1, <1>6, ElementOfSeq
<1> QED BY <1>3, <1>7

-----------------------------------------------------------------------------
(* The traversals keep the types *)

\* Where trav_dfs_r() and trav_bfs() are: at an edge that exists.
LEMMA EdgeIs ==
  ASSUME LinksOK, NEW n \in Node, NEW i \in 1 .. Len(out[n])
  PROVE  /\ out[n][i] \in Made /\ out[n][i] \in Range(out[n])
         /\ to[out[n][i]] \in Node
<1>1. out[n] \in Seq(Made)
  BY DEF LinksOK
<1>2. out[n][i] \in Made
  BY <1>1, ElementOfSeq
<1>3. Range(out[n]) = {out[n][j] : j \in 1 .. Len(out[n])}
  BY <1>1, RangeIs
<1> QED BY <1>2, <1>3 DEF LinksOK

LEMMA FollowingIs ==
  ASSUME NEW n \in Node, NEW i \in Nat \ {0}
  PROVE  \/ Following(n, i) = <<>> /\ ~(i <= Len(out[n]))
         \/ i <= Len(out[n]) /\ Following(n, i) = <<[node |-> n, i |-> i]>>
BY DEF Following

\* The frame on top of the stack of trav_dfs_r().
LEMMA TopIs ==
  ASSUME NEW S, stack \in Seq(S), stack # <<>>
  PROVE  Len(stack) \in Nat \ {0} /\ Top \in S /\ Len(stack) \in 1 .. Len(stack)
<1>1. Len(stack) \in Nat \ {0}
  BY EmptySeq
<1> QED BY <1>1, ElementOfSeq DEF Top

DfsAt(n, i) ==
  /\ n \in Node /\ i \in Nat \ {0} /\ Top = [node |-> n, i |-> i]
  /\ stack \in Seq(Frame) /\ visit = <<>> /\ Len(stack) \in Nat \ {0}

LEMMA DfsAtTop ==
  ASSUME IInv, pc = "dfs", stack # <<>>
  PROVE  DfsAt(Top.node, Top.i)
<1>1. stack \in Seq(Frame) /\ visit = <<>>
  BY DEF IInv, Stacked
<1>2. Top \in Frame /\ Len(stack) \in Nat \ {0}
  BY <1>1, TopIs
<1> QED BY <1>1, <1>2 DEF DfsAt, Frame

\* The stack of trav_dfs_r() after one round: the frame on top moved on, and
\* there is one more on top if the node was not marked.
Moved == [stack EXCEPT ![Len(stack)].i = @ + 1]

LEMMA MovedIs ==
  ASSUME NEW n, NEW i, DfsAt(n, i)
  PROVE  /\ Moved \in Seq(Frame) /\ Len(Moved) = Len(stack)
         /\ \A k \in 1 .. Len(stack) :
              Moved[k] = IF k = Len(stack) THEN [node |-> n, i |-> i + 1] ELSE stack[k]
<1>1. /\ n \in Node /\ i \in Nat \ {0} /\ stack[Len(stack)] = [node |-> n, i |-> i]
      /\ stack \in Seq(Frame) /\ Len(stack) \in Nat \ {0}
  BY DEF DfsAt, Top
<1> DEFINE f == [node |-> n, i |-> i + 1]
<1>2. f \in Frame /\ [stack[Len(stack)] EXCEPT !.i = @ + 1] = f
  <2>1. i + 1 \in Nat \ {0}
    BY <1>1
  <2> QED BY <1>1, <2>1 DEF Frame
<1>3. Moved = [stack EXCEPT ![Len(stack)] = f]
  BY <1>2 DEF Moved
<1>4. Len(stack) \in 1 .. Len(stack)
  BY <1>1
<1> HIDE DEF f
<1>5. /\ Moved \in Seq(Frame) /\ Len(Moved) = Len(stack)
      /\ \A k \in 1 .. Len(stack) : Moved[k] = IF k = Len(stack) THEN f ELSE stack[k]
  BY <1>1, <1>2, <1>3, <1>4, ExceptSeq
<1> QED BY <1>5 DEF f

Traversed == TypeOK' /\ Stacked'

\* What a round that leaves the links alone has to show.
LEMMA TraversedIf ==
  ASSUME IInv, UNCHANGED links,
         ntag' \in [Node -> 0 .. Tags], etag' \in [Made -> 0 .. Tags],
         pc' \in {"idle", "dfs", "bfs"}, start' \in Node, tag' \in 0 .. Tags,
         nfs' \in Seq(Node), efs' \in Seq(Made), Stacked'
  PROVE  Traversed
<1>1. Made' = Made
  BY DEF Made, links
<1>2. /\ from \in Seq(Node) /\ to \in Seq(Node) /\ Len(to) = Len(from)
      /\ out \in [Node -> Seq(Made)] /\ in \in [Node -> Seq(Made)]
  BY DEF IInv, ListsAgree, TypeOK
<1>3. from' = from /\ to' = to /\ out' = out /\ in' = in
  BY DEF links
<1> QED BY <1>1, <1>2, <1>3 DEF Traversed, TypeOK

\* What the variables are before a round.
LEMMA TypesAre ==
  ASSUME IInv
  PROVE  /\ LinksOK /\ ntag \in [Node -> 0 .. Tags] /\ etag \in [Made -> 0 .. Tags]
         /\ pc \in {"idle", "dfs", "bfs"} /\ start \in Node /\ tag \in 0 .. Tags
         /\ nfs \in Seq(Node) /\ efs \in Seq(Made)
BY LinksAre DEF IInv, ListsAgree, TypeOK

\* Marking an edge and calling back for it keeps the types.
LEMMA MarkEdge ==
  ASSUME IInv, NEW e \in Made
  PROVE  /\ [etag EXCEPT ![e] = tag] \in [Made -> 0 .. Tags]
         /\ (IF etag[e] # tag THEN Append(efs, e) ELSE efs) \in Seq(Made)
<1>1. efs \in Seq(Made) /\ etag \in [Made -> 0 .. Tags] /\ tag \in 0 .. Tags
  BY TypesAre
<1>2. Append(efs, e) \in Seq(Made)
  BY <1>1, AppendIs
<1> QED BY <1>1, <1>2

LEMMA DfsEdgeTypes ==
  ASSUME IInv, DfsEdge
  PROVE  Traversed
<1> DEFINE n == Top.node
           i == Top.i
           e == out[n][i]
<1>1. /\ pc = "dfs" /\ stack # <<>> /\ i <= Len(out[n])
      /\ etag' = [etag EXCEPT ![e] = tag]
      /\ efs' = IF etag[e] # tag THEN Append(efs, e) ELSE efs
      /\ nfs' = Append(nfs, n)
      /\ ntag' = [ntag EXCEPT ![to[e]] = tag]
      /\ stack' = Enter(to[e], Moved)
      /\ UNCHANGED <<links, pc, tag, start, visit>>
  BY DEF DfsEdge, Moved
<1>2. DfsAt(n, i)
  BY <1>1, DfsAtTop
<1> HIDE DEF n, i
<1>3. n \in Node /\ i \in 1 .. Len(out[n])
  <2>1. n \in Node /\ i \in Nat \ {0}
    BY <1>2 DEF DfsAt
  <2>2. Len(out[n]) \in Nat
    <3>1. out[n] \in Seq(Made)
      BY <2>1, TypesAre DEF LinksOK
    <3> QED BY <3>1, LenProperties
  <2> QED BY <1>1, <2>1, <2>2
<1>4. e \in Made /\ to[e] \in Node
  BY <1>3, EdgeIs, TypesAre
<1> HIDE DEF e
<1>5. stack' \in Seq(Frame)
  <2>1. Moved \in Seq(Frame)
    BY <1>2, MovedIs
  <2>2. [node |-> to[e], i |-> 1] \in Frame
    BY <1>4 DEF Frame
  <2>3. Append(Moved, [node |-> to[e], i |-> 1]) \in Seq(Frame)
    BY <2>1, <2>2, AppendIs
  <2> QED BY <1>1, <2>1, <2>3 DEF Enter
<1>6. Stacked'
  BY <1>1, <1>2, <1>5 DEF Stacked, DfsAt
<1>7. ntag' \in [Node -> 0 .. Tags] /\ nfs' \in Seq(Node)
  <2>1. ntag \in [Node -> 0 .. Tags] /\ tag \in 0 .. Tags /\ nfs \in Seq(Node)
    BY TypesAre
  <2>2. Append(nfs, n) \in Seq(Node)
    BY <1>3, <2>1, AppendIs
  <2> QED BY <1>1, <1>4, <2>1, <2>2
<1>8. etag' \in [Made -> 0 .. Tags] /\ efs' \in Seq(Made)
  BY <1>1, <1>4, MarkEdge
<1> QED BY <1>1, <1>6, <1>7, <1>8, TypesAre, TraversedIf

LEMMA DfsReturnTypes ==
  ASSUME IInv, DfsReturn
  PROVE  Traversed
<1>1. /\ pc = "dfs" /\ stack # <<>> /\ stack' = Front(stack)
      /\ UNCHANGED <<links, marks, pc, tag, start, visit, nfs, efs>>
  BY DEF DfsReturn
<1>2. stack \in Seq(Frame) /\ visit = <<>>
  BY <1>1 DEF IInv, Stacked
<1>3. stack' \in Seq(Frame)
  BY <1>1, <1>2, FrontIs
<1>4. Stacked'
  BY <1>1, <1>2, <1>3 DEF Stacked
<1>5. ntag' = ntag /\ etag' = etag
  BY <1>1 DEF marks
<1> QED BY <1>1, <1>4, <1>5, TypesAre, TraversedIf

LEMMA BfsSkipTypes ==
  ASSUME IInv, BfsSkip
  PROVE  Traversed
<1>1. /\ pc = "bfs" /\ stack # <<>> /\ visit = <<>> /\ stack' = Front(stack)
      /\ UNCHANGED <<links, marks, pc, tag, start, visit, nfs, efs>>
  BY DEF BfsSkip, Popping
<1>2. stack \in Seq(Node)
  BY <1>1 DEF IInv, Stacked
<1>3. stack' \in Seq(Node)
  BY <1>1, <1>2, FrontIs
<1>4. Stacked'
  BY <1>1, <1>2, <1>3 DEF Stacked, Placed
<1>5. ntag' = ntag /\ etag' = etag
  BY <1>1 DEF marks
<1> QED BY <1>1, <1>4, <1>5, TypesAre, TraversedIf

\* What the loop over the edges of a node follows exists.
LEMMA FollowingPlaced ==
  ASSUME LinksOK, NEW n \in Node, NEW i \in Nat \ {0},
         UNCHANGED links, visit' = Following(n, i)
  PROVE  Placed'
<1>1. CASE visit' = <<>>
  BY <1>1 DEF Placed
<1>2. CASE i <= Len(out[n]) /\ visit' = <<[node |-> n, i |-> i]>>
  <2>1. Len(out[n]) \in Nat
    <3>1. out[n] \in Seq(Made)
      BY DEF LinksOK
    <3> QED BY <3>1, LenProperties
  <2>2. i \in 1 .. Len(out[n]) /\ out' = out
    BY <1>2, <2>1 DEF links
  <2>3. i \in 1 .. Len(out'[n])
    BY <2>2
  <2> QED BY <1>2, <2>3 DEF Placed
<1> QED BY <1>1, <1>2, FollowingIs

LEMMA BfsVisitTypes ==
  ASSUME IInv, BfsVisit
  PROVE  Traversed
<1>1. /\ pc = "bfs" /\ stack # <<>> /\ visit = <<>> /\ stack' = Front(stack)
      /\ ntag' = [ntag EXCEPT ![Top] = tag] /\ nfs' = Append(nfs, Top)
      /\ visit' = Following(Top, 1)
      /\ UNCHANGED <<links, etag, pc, tag, start, efs>>
  BY DEF BfsVisit, Popping
<1>2. stack \in Seq(Node)
  BY <1>1 DEF IInv, Stacked
<1>3. stack' \in Seq(Node) /\ Top \in Node
  BY <1>1, <1>2, FrontIs, TopIs
<1>4. Placed'
  BY <1>1, <1>3, FollowingPlaced, TypesAre
<1>5. Stacked'
  BY <1>1, <1>3, <1>4 DEF Stacked
<1>6. ntag' \in [Node -> 0 .. Tags] /\ nfs' \in Seq(Node)
  <2>1. ntag \in [Node -> 0 .. Tags] /\ tag \in 0 .. Tags /\ nfs \in Seq(Node)
    BY TypesAre
  <2>2. Append(nfs, Top) \in Seq(Node)
    BY <1>3, <2>1, AppendIs
  <2> QED BY <1>1, <1>3, <2>1, <2>2
<1> QED BY <1>1, <1>5, <1>6, TypesAre, TraversedIf

LEMMA BfsEdgeTypes ==
  ASSUME IInv, BfsEdge
  PROVE  Traversed
<1> DEFINE n == visit[1].node
           i == visit[1].i
           e == out[n][i]
<1>1. /\ pc = "bfs" /\ visit # <<>>
      /\ etag' = [etag EXCEPT ![e] = tag]
      /\ efs' = IF etag[e] # tag THEN Append(efs, e) ELSE efs
      /\ stack' = IF etag[e] # tag /\ ntag[to[e]] # tag THEN Append(stack, to[e]) ELSE stack
      /\ visit' = Following(n, i + 1)
      /\ UNCHANGED <<links, ntag, pc, tag, start, nfs>>
  BY DEF BfsEdge
<1>2. stack \in Seq(Node) /\ n \in Node /\ i \in 1 .. Len(out[n])
  <2>1. stack \in Seq(Node) /\ Placed
    BY <1>1 DEF IInv, Stacked
  <2>2. PICK m \in Node : \E j \in 1 .. Len(out[m]) : visit = <<[node |-> m, i |-> j]>>
    BY <1>1, <2>1 DEF Placed
  <2>3. PICK j \in 1 .. Len(out[m]) : visit = <<[node |-> m, i |-> j]>>
    BY <2>2
  <2>4. n = m /\ i = j
    BY <2>3
  <2> QED BY <2>1, <2>2, <2>3, <2>4
<1> HIDE DEF n, i
<1>3. e \in Made /\ to[e] \in Node
  BY <1>2, EdgeIs, TypesAre
<1> HIDE DEF e
<1>4. stack' \in Seq(Node)
  <2>1. Append(stack, to[e]) \in Seq(Node)
    BY <1>2, <1>3, AppendIs
  <2> QED BY <1>1, <1>2, <2>1
<1>5. Placed'
  <2>1. i + 1 \in Nat \ {0}
    BY <1>2
  <2> QED BY <1>1, <1>2, <2>1, FollowingPlaced, TypesAre
<1>6. Stacked'
  BY <1>1, <1>4, <1>5 DEF Stacked
<1>7. etag' \in [Made -> 0 .. Tags] /\ efs' \in Seq(Made)
  BY <1>1, <1>3, MarkEdge
<1> QED BY <1>1, <1>6, <1>7, TypesAre, TraversedIf

LEMMA StartTypes == NoStart \in Node
BY NodeAssumption DEF NoStart

LEMMA FinishTypes ==
  ASSUME IInv, Finish
  PROVE  Traversed
<1>1. /\ stack = <<>> /\ visit = <<>> /\ pc' = "idle"
      /\ tag' = 0 /\ start' = NoStart /\ nfs' = <<>> /\ efs' = <<>>
      /\ UNCHANGED <<links, marks, stack, visit>>
  BY DEF Finish, Done
<1>2. Stacked'
  BY <1>1 DEF Stacked
<1>3. ntag' = ntag /\ etag' = etag
  BY <1>1 DEF marks
<1>4. 0 \in 0 .. Tags
  BY BoundsAssumption
<1>5. nfs' \in Seq(Node) /\ efs' \in Seq(Made)
  BY <1>1, EmptyIs
<1> QED BY <1>1, <1>2, <1>3, <1>4, <1>5, StartTypes, TypesAre, TraversedIf

LEMMA TraverseTypes ==
  ASSUME IInv, NEW n \in Node, NEW kind \in {"dfs", "bfs"}, Traverse(n, kind)
  PROVE  Traversed
<1>1. PICK t \in 1 .. Tags : t # ntag[n] /\ tag' = t
  BY DEF Traverse
<1>2. /\ pc = "idle" /\ pc' = kind /\ start' = n
      /\ UNCHANGED <<links, etag, visit, nfs, efs>>
      /\ IF kind = "dfs" THEN stack' = <<[node |-> n, i |-> 1]>>
                              /\ ntag' = [ntag EXCEPT ![n] = tag']
                         ELSE stack' = <<n>> /\ UNCHANGED ntag
  BY DEF Traverse
<1>3. tag' \in 0 .. Tags
  BY <1>1, BoundsAssumption
<1>4. visit' = <<>>
  BY <1>2 DEF IInv, Stacked
<1>5. ntag' \in [Node -> 0 .. Tags]
  <2>1. ntag \in [Node -> 0 .. Tags]
    BY TypesAre
  <2> QED BY <1>2, <1>3, <2>1
<1>6. Stacked'
  <2>1. CASE kind = "dfs"
    <3>1. [node |-> n, i |-> 1] \in Frame
      BY DEF Frame
    <3>2. stack' \in Seq(Frame)
      BY <1>2, <2>1, <3>1, OneIs
    <3> QED BY <1>2, <1>4, <2>1, <3>2 DEF Stacked
  <2>2. CASE kind = "bfs"
    <3>1. stack' \in Seq(Node)
      BY <1>2, <2>2, OneIs
    <3> QED BY <1>2, <1>4, <2>2, <3>1 DEF Stacked, Placed
  <2> QED BY <2>1, <2>2
<1> QED BY <1>2, <1>3, <1>5, <1>6, TypesAre, TraversedIf

\* Changing the graph happens between traversals.
LEMMA LinkTypes ==
  ASSUME IInv, NEW a \in Node, NEW b \in Node, Link(a, b)
  PROVE  Traversed
<1>1. /\ pc = "idle" /\ UNCHANGED <<ntag, pc, tag, start, stack, visit, nfs, efs>>
      /\ out' = [out EXCEPT ![a] = Append(@, Newest)]
      /\ in' = [in EXCEPT ![b] = Append(@, Newest)]
  BY DEF Link, Unvisited, Newest
<1>2. Stacked'
  BY <1>1 DEF IInv, Stacked
<1>3. /\ from' \in Seq(Node) /\ to' \in Seq(Node) /\ Len(to') = Len(from')
      /\ etag' \in [Made' -> 0 .. Tags] /\ Made' = Made \cup {Newest}
  BY LinkIs
<1>4. out' \in [Node -> Seq(Made')] /\ in' \in [Node -> Seq(Made')]
  <2>1. \A n \in Node : out'[n] \in Seq(Made') /\ in'[n] \in Seq(Made')
    <3>1. Linked(a, b)
      BY LinkLists
    <3> QED BY <3>1 DEF Linked
  <2>2. out \in [Node -> Seq(Made)] /\ in \in [Node -> Seq(Made)]
    BY TypesAre DEF LinksOK
  <2>3. out' = [n \in Node |-> out'[n]] /\ in' = [n \in Node |-> in'[n]]
    BY <1>1, <2>2
  <2> QED BY <2>1, <2>3
<1>5. efs' \in Seq(Made')
  <2>1. efs \in Seq(Made)
    BY TypesAre
  <2>2. Seq(Made) \subseteq Seq(Made')
    BY <1>3, SeqMonotonic
  <2> QED BY <1>1, <2>1, <2>2
<1> QED BY <1>1, <1>2, <1>3, <1>4, <1>5, TypesAre DEF Traversed, TypeOK

LEMMA DropTypes ==
  ASSUME IInv, NEW e \in Made, DropEdge(e)
  PROVE  Traversed
<1>1. /\ pc = "idle" /\ Made' = Made
      /\ UNCHANGED <<from, to, marks, pc, tag, start, stack, visit, nfs, efs>>
      /\ out' \in [Node -> Seq(Made)] /\ in' \in [Node -> Seq(Made)]
  BY DropLists DEF DropEdge, Made
<1>2. Stacked'
  BY <1>1 DEF IInv, Stacked
<1>3. from \in Seq(Node) /\ to \in Seq(Node) /\ Len(to) = Len(from)
  BY TypesAre DEF LinksOK
<1> QED BY <1>1, <1>2, <1>3, TypesAre DEF Traversed, TypeOK, marks

\* The steps that leave the links alone.
Traversing ==
  Running \/ \E n \in Node, kind \in {"dfs", "bfs"} : Traverse(n, kind)

LEMMA TraversingKeepsLinks == ASSUME Traversing PROVE UNCHANGED links
BY DEF Traversing, Running, Traverse, DfsEdge, DfsReturn, BfsSkip, BfsVisit, BfsEdge, Finish

LEMMA LinksKeepAgreed == ASSUME Agreed, UNCHANGED links PROVE Agreed'
BY DEF Agreed, links

LEMMA InitIInv == Init => IInv
<1> SUFFICES ASSUME Init PROVE IInv
  OBVIOUS
<1>1. /\ from = <<>> /\ to = <<>> /\ etag = <<>>
      /\ out = [n \in Node |-> <<>>] /\ in = [n \in Node |-> <<>>]
      /\ ntag = [n \in Node |-> 0] /\ pc = "idle" /\ tag = 0 /\ start = NoStart
      /\ stack = <<>> /\ visit = <<>> /\ nfs = <<>> /\ efs = <<>>
  BY DEF Init
<1>2. \A S : <<>> \in Seq(S) /\ Len(<<>>) = 0 /\ Range(<<>>) = {} /\ IsInjective(<<>>)
  BY EmptyIs
<1>3. Made = {}
  <2>1. from \in Seq(Node) /\ Len(from) = 0
    BY <1>1, <1>2
  <2>2. Made = 1 .. Len(from)
    BY <2>1, LenProperties DEF Made
  <2> QED BY <2>1, <2>2
<1>4. etag \in [Made -> 0 .. Tags]
  <2>1. etag \in Seq({}) /\ Len(etag) = 0
    BY <1>1, <1>2
  <2>2. etag \in [1 .. Len(etag) -> {}]
    BY <2>1, LenProperties
  <2> QED BY <1>3, <2>1, <2>2
<1>5. 0 \in 0 .. Tags
  BY BoundsAssumption
<1>6. from \in Seq(Node) /\ to \in Seq(Node) /\ nfs \in Seq(Node) /\ efs \in Seq(Made)
  BY <1>1, <1>2
<1>7. out \in [Node -> Seq(Made)] /\ in \in [Node -> Seq(Made)]
  BY <1>1, <1>2
<1>8. TypeOK
  BY <1>1, <1>4, <1>5, <1>6, <1>7, StartTypes DEF TypeOK
<1>9. Agreed
  BY <1>1, <1>2 DEF Agreed
<1>10. Stacked
  BY <1>1 DEF Stacked
<1> QED BY <1>8, <1>9, <1>10, ListsAgreeIs DEF IInv

LEMMA StepTypes ==
  ASSUME IInv, Next
  PROVE  Traversed /\ Agreed'
<1>1. Agreed
  BY ListsAgreeIs DEF IInv
<1>2. CASE \E a, b \in Node : Link(a, b)
  BY <1>2, LinkTypes, LinkAgrees
<1>3. CASE \E e \in Made : DropEdge(e)
  BY <1>3, DropTypes, DropAgrees
<1>4. CASE \E a, b \in Node : Unlink(a, b)
  BY <1>3, <1>4, UnlinkDrops
<1>5. CASE Traversing
  <2>1. Agreed'
    BY <1>1, <1>5, TraversingKeepsLinks, LinksKeepAgreed
  <2>2. CASE Running
    BY <2>1, <2>2, DfsEdgeTypes, DfsReturnTypes, BfsSkipTypes, BfsVisitTypes,
       BfsEdgeTypes, FinishTypes DEF Running
  <2>3. CASE \E n \in Node, kind \in {"dfs", "bfs"} : Traverse(n, kind)
    BY <2>1, <2>3, TraverseTypes
  <2> QED BY <1>5, <2>2, <2>3 DEF Traversing
<1> QED BY <1>2, <1>3, <1>4, <1>5 DEF Next, Traversing

LEMMA NextIInv == ASSUME IInv, [Next]_vars PROVE IInv'
<1>1. CASE Next
  <2>1. TypeOK' /\ Stacked' /\ Agreed'
    BY <1>1, StepTypes DEF Traversed
  <2>2. ListsAgree'
    BY <2>1 DEF ListsAgree, Agreed
  <2> QED BY <2>1, <2>2 DEF IInv
<1>2. CASE UNCHANGED vars
  BY <1>2 DEF vars, links, marks, IInv, ListsAgree, TypeOK, Stacked, Placed, Made
<1> QED BY <1>1, <1>2

\* link_node(), unlink_node() and del_edge() keep the lists of outgoing and of
\* incoming edges in agreement, and a traversal leaves them alone.
THEOREM EdgeListsAgree == Spec => []ListsAgree
<1>1. Init => IInv
  BY InitIInv
<1>2. IInv /\ [Next]_vars => IInv'
  BY NextIInv
<1>3. IInv => ListsAgree
  BY DEF IInv
<1> QED BY <1>1, <1>2, <1>3, PTL DEF Spec

-----------------------------------------------------------------------------
(* A traversal visits all *)

Marked == {n \in Node : ntag[n] = tag}
Seen == {e \in Made : etag[e] = tag}

\* What is marked is within reach, and every marked edge was called back for.
Sound ==
  /\ Marked \subseteq Reachable /\ Seen \subseteq ReachableEdges
  /\ Range(efs) = Seen /\ IsInjective(efs)

\* The edges of the node before the one that is next.
Passed(n, i) == \A j \in 1 .. Len(out[n]) : j < i => out[n][j] \in Seen

\* trav_dfs_r(): the nodes on the stack are marked, and the edges before those
\* they are at; a marked node that is not there has no unmarked edge.
DfsComplete ==
  /\ start \in Marked /\ Range(nfs) \subseteq Marked
  /\ \A k \in 1 .. Len(stack) : stack[k].node \in Marked /\ Passed(stack[k].node, stack[k].i)
  /\ \A e \in Seen : to[e] \in Marked
  /\ \A n \in Marked : \/ Range(out[n]) \subseteq Seen
                       \/ \E k \in 1 .. Len(stack) : stack[k].node = n

\* trav_bfs(): what a marked edge leads to is marked or on the stack; only
\* the node that is being visited may have edges that are not marked.
BfsComplete ==
  /\ Range(stack) \subseteq Reachable
  /\ start \in Marked \cup Range(stack)
  /\ \A e \in Seen : to[e] \in Marked \cup Range(stack)
  /\ Range(nfs) = Marked /\ IsInjective(nfs)
  /\ visit # <<>> => visit[1].node \in Marked /\ Passed(visit[1].node, visit[1].i)
  /\ \A n \in Marked : \/ Range(out[n]) \subseteq Seen
                       \/ visit # <<>> /\ visit[1].node = n

Visiting ==
  /\ pc # "idle" => Sound
  /\ pc = "dfs" => DfsComplete
  /\ pc = "bfs" => BfsComplete

\* The start is within reach, what is within reach leads to nothing else, and
\* there is no smaller set like that.
LEMMA ReachableIs ==
  ASSUME LinksOK, start \in Node
  PROVE  /\ Reachable \subseteq Node /\ start \in Reachable
         /\ \A n \in Reachable : \A e \in Range(out[n]) : to[e] \in Reachable /\ e \in ReachableEdges
         /\ \A nodes \in SUBSET Node : start \in nodes /\ Closed(nodes) => Reachable \subseteq nodes
<1>1. Reachable \subseteq Node /\ start \in Reachable
  BY DEF Reachable
<1>2. \A nodes \in SUBSET Node : start \in nodes /\ Closed(nodes) => Reachable \subseteq nodes
  BY DEF Reachable
<1>3. ASSUME NEW n \in Reachable, NEW e \in Range(out[n])
      PROVE  to[e] \in Reachable /\ e \in ReachableEdges
  <2>1. e \in Made /\ to[e] \in Node
    BY <1>1 DEF LinksOK
  <2>2. ASSUME NEW nodes \in SUBSET Node, start \in nodes, Closed(nodes) PROVE to[e] \in nodes
    <3>1. n \in nodes
      BY <1>2, <2>2
    <3> QED BY <2>2, <3>1 DEF Closed
  <2>3. to[e] \in Reachable
    BY <2>1, <2>2 DEF Reachable
  <2>4. e \in ReachableEdges
    BY DEF ReachableEdges
  <2> QED BY <2>3, <2>4
<1> QED BY <1>1, <1>2, <1>3

LEMMA SameReach ==
  ASSUME UNCHANGED <<links, start>>
  PROVE  /\ Reachable' = Reachable /\ ReachableEdges' = ReachableEdges
         /\ from' = from /\ to' = to /\ out' = out /\ start' = start /\ Made' = Made
<1>1. from' = from /\ to' = to /\ out' = out /\ start' = start
  BY DEF links
<1>2. Made' = Made /\ Reachable' = Reachable
  BY <1>1 DEF Made, Reachable, Closed
<1>3. ReachableEdges' = ReachableEdges
  BY <1>1, <1>2 DEF ReachableEdges
<1> QED BY <1>1, <1>2, <1>3

\* Marking an edge, with the call back if it was not marked.
LEMMA SeenIs ==
  ASSUME IInv, Sound, NEW e \in Made, e \in ReachableEdges,
         UNCHANGED <<links, start, tag>>, etag' = [etag EXCEPT ![e] = tag],
         efs' = IF etag[e] # tag THEN Append(efs, e) ELSE efs
  PROVE  /\ Seen' = Seen \cup {e} /\ Seen' \subseteq ReachableEdges'
         /\ Range(efs') = Seen' /\ IsInjective(efs')
<1>1. etag \in [Made -> 0 .. Tags] /\ efs \in Seq(Made)
  BY TypesAre
<1>2. Made' = Made /\ ReachableEdges' = ReachableEdges /\ tag' = tag
  BY SameReach
<1>3. Seen' = Seen \cup {e}
  BY <1>1, <1>2 DEF Seen
<1>4. /\ Seen \subseteq ReachableEdges /\ Range(efs) = Seen /\ IsInjective(efs)
  BY DEF Sound
<1>5. Range(efs') = Seen \cup {e} /\ IsInjective(efs')
  <2>1. CASE etag[e] # tag
    <3>1. e \notin Range(efs) /\ efs' = Append(efs, e)
      BY <1>4, <2>1 DEF Seen
    <3> QED BY <1>1, <1>4, <3>1, AppendIs
  <2>2. CASE etag[e] = tag
    <3>1. e \in Seen /\ efs' = efs
      BY <2>2 DEF Seen
    <3> QED BY <1>4, <3>1
  <2> QED BY <2>1, <2>2
<1> QED BY <1>2, <1>3, <1>4, <1>5

LEMMA MarkedIs ==
  ASSUME IInv, NEW n \in Node, tag' = tag, ntag' = [ntag EXCEPT ![n] = tag]
  PROVE  Marked' = Marked \cup {n}
<1>1. ntag \in [Node -> 0 .. Tags]
  BY TypesAre
<1> QED BY <1>1 DEF Marked

LEMMA SameMarks ==
  ASSUME UNCHANGED <<from, marks, tag>>
  PROVE  Marked' = Marked /\ Seen' = Seen
BY DEF Marked, Seen, Made, marks

\* A step that leaves the marks, the start and the calls back alone.
LEMMA SoundStays ==
  ASSUME Sound, UNCHANGED <<links, marks, tag, start, efs>>
  PROVE  Sound'
<1>1. Marked' = Marked /\ Seen' = Seen
  BY SameMarks DEF links
<1>2. Reachable' = Reachable /\ ReachableEdges' = ReachableEdges
  BY SameReach
<1>3. efs' = efs
  OBVIOUS
<1> QED BY <1>1, <1>2, <1>3 DEF Sound

\* trav_dfs_r() at edge i of node n, which leads to node m.
DfsRound(n, i, e, m) ==
  /\ n \in Node /\ i \in 1 .. Len(out[n]) /\ Len(out[n]) \in Nat
  /\ e = out[n][i] /\ e \in Made /\ e \in Range(out[n]) /\ m = to[e] /\ m \in Node
  /\ stack[Len(stack)] = [node |-> n, i |-> i] /\ Len(stack) \in Nat \ {0}

\* What the stack becomes.
Entered(n, i, m) ==
  /\ Len(stack') \in Nat /\ Len(stack) <= Len(stack')
  /\ \A k \in 1 .. Len(stack) : k # Len(stack) => stack'[k] = stack[k]
  /\ stack'[Len(stack)] = [node |-> n, i |-> i + 1]
  /\ \A k \in 1 .. Len(stack') : k \in 1 .. Len(stack) \/ stack'[k] = [node |-> m, i |-> 1]
  /\ m \in Marked \/ \E k \in 1 .. Len(stack') : stack'[k].node = m

LEMMA DfsRoundIs ==
  ASSUME IInv, DfsEdge
  PROVE  \E n, i, e, m :
           /\ DfsRound(n, i, e, m) /\ Entered(n, i, m)
           /\ etag' = [etag EXCEPT ![e] = tag]
           /\ efs' = IF etag[e] # tag THEN Append(efs, e) ELSE efs
           /\ nfs' = Append(nfs, n)
           /\ ntag' = [ntag EXCEPT ![m] = tag]
<1> DEFINE n == Top.node
           i == Top.i
           e == out[n][i]
           m == to[e]
<1>1. /\ pc = "dfs" /\ stack # <<>> /\ i <= Len(out[n])
      /\ etag' = [etag EXCEPT ![e] = tag]
      /\ efs' = IF etag[e] # tag THEN Append(efs, e) ELSE efs
      /\ nfs' = Append(nfs, n)
      /\ ntag' = [ntag EXCEPT ![m] = tag]
      /\ stack' = Enter(m, Moved)
  BY DEF DfsEdge, Moved
<1>2. DfsAt(n, i)
  BY <1>1, DfsAtTop
<1> HIDE DEF n, i
<1>3. /\ n \in Node /\ i \in Nat \ {0} /\ Len(stack) \in Nat \ {0}
      /\ stack[Len(stack)] = [node |-> n, i |-> i]
  BY <1>2 DEF DfsAt, Top
<1>4. Len(out[n]) \in Nat
  <2>1. out[n] \in Seq(Made)
    BY <1>3, TypesAre DEF LinksOK
  <2> QED BY <2>1, LenProperties
<1>5. i \in 1 .. Len(out[n])
  BY <1>1, <1>3, <1>4
<1>6. e \in Made /\ e \in Range(out[n]) /\ m \in Node
  BY <1>3, <1>5, EdgeIs, TypesAre
<1>7. DfsRound(n, i, e, m)
  BY <1>3, <1>4, <1>5, <1>6 DEF DfsRound
<1> HIDE DEF e, m
<1>8. /\ Moved \in Seq(Frame) /\ Len(Moved) = Len(stack)
      /\ \A k \in 1 .. Len(stack) :
           Moved[k] = IF k = Len(stack) THEN [node |-> n, i |-> i + 1] ELSE stack[k]
  BY <1>2, MovedIs
<1>9. /\ \A k \in 1 .. Len(stack) : k # Len(stack) => Moved[k] = stack[k]
      /\ Moved[Len(stack)] = [node |-> n, i |-> i + 1] /\ Len(stack) \in 1 .. Len(stack)
  BY <1>3, <1>8
<1>10. Entered(n, i, m)
  <2>1. CASE ntag[m] = tag
    <3>1. stack' = Moved /\ m \in Marked
      BY <1>1, <1>6, <2>1 DEF Enter, Marked
    <3> QED BY <1>3, <1>8, <1>9, <3>1 DEF Entered
  <2>2. CASE ntag[m] # tag
    <3> DEFINE f == [node |-> m, i |-> 1]
    <3>1. stack' = Append(Moved, f)
      BY <1>1, <2>2 DEF Enter
    <3>2. f \in Frame
      BY <1>6 DEF Frame
    <3>3. f.node = m /\ f = [node |-> m, i |-> 1]
      OBVIOUS
    <3> HIDE DEF f
    <3>4. /\ Len(stack') = Len(stack) + 1 /\ stack'[Len(stack) + 1] = f
          /\ \A k \in 1 .. Len(stack) : stack'[k] = Moved[k]
      BY <1>8, <3>1, <3>2, AppendIs
    <3>5. /\ Len(stack') \in Nat /\ Len(stack) <= Len(stack')
          /\ Len(stack) + 1 \in 1 .. Len(stack')
          /\ \A k \in 1 .. Len(stack') : k \in 1 .. Len(stack) \/ k = Len(stack) + 1
      BY <1>3, <3>4
    <3>6. \A k \in 1 .. Len(stack') : k \in 1 .. Len(stack) \/ stack'[k] = f
      BY <3>4, <3>5
    <3>7. \E k \in 1 .. Len(stack') : stack'[k].node = m
      BY <3>3, <3>4, <3>5
    <3>8. /\ \A k \in 1 .. Len(stack) : k # Len(stack) => stack'[k] = stack[k]
          /\ stack'[Len(stack)] = [node |-> n, i |-> i + 1]
      BY <1>9, <3>4
    <3>9. \A k \in 1 .. Len(stack') : k \in 1 .. Len(stack) \/ stack'[k] = [node |-> m, i |-> 1]
      BY <3>3, <3>6
    <3> QED BY <3>5, <3>7, <3>8, <3>9 DEF Entered
  <2> QED BY <2>1, <2>2
<1> QED BY <1>1, <1>7, <1>10

LEMMA DfsEdgeVisits ==
  ASSUME IInv, Visiting, DfsEdge
  PROVE  Visiting'
<1>1. PICK n, i, e, m :
        /\ DfsRound(n, i, e, m) /\ Entered(n, i, m)
        /\ etag' = [etag EXCEPT ![e] = tag]
        /\ efs' = IF etag[e] # tag THEN Append(efs, e) ELSE efs
        /\ nfs' = Append(nfs, n)
        /\ ntag' = [ntag EXCEPT ![m] = tag]
  BY DfsRoundIs
<1>2. pc = "dfs" /\ pc' = pc /\ UNCHANGED <<links, start, tag>>
  BY DEF DfsEdge
<1>3. Sound /\ DfsComplete /\ LinksOK /\ start \in Node /\ nfs \in Seq(Node)
  BY <1>2, TypesAre DEF Visiting
<1>4. /\ n \in Node /\ i \in 1 .. Len(out[n]) /\ Len(out[n]) \in Nat
      /\ e = out[n][i] /\ e \in Made /\ e \in Range(out[n]) /\ m = to[e] /\ m \in Node
      /\ stack[Len(stack)] = [node |-> n, i |-> i] /\ Len(stack) \in Nat \ {0}
  BY <1>1 DEF DfsRound
<1>5. /\ Reachable' = Reachable /\ ReachableEdges' = ReachableEdges
      /\ to' = to /\ out' = out /\ start' = start
  BY <1>2, SameReach
<1>6. Len(stack) \in 1 .. Len(stack)
  BY <1>4
<1>7. n \in Marked /\ Passed(n, i)
  BY <1>3, <1>4, <1>6 DEF DfsComplete
<1>8. n \in Reachable /\ m \in Reachable /\ e \in ReachableEdges
  <2>1. n \in Reachable
    BY <1>3, <1>7 DEF Sound
  <2> QED BY <1>3, <1>4, <2>1, ReachableIs
<1>9. Marked' = Marked \cup {m}
  BY <1>1, <1>2, <1>4, MarkedIs
<1>10. /\ Seen' = Seen \cup {e} /\ Seen' \subseteq ReachableEdges'
       /\ Range(efs') = Seen' /\ IsInjective(efs')
  BY <1>1, <1>2, <1>3, <1>4, <1>8, SeenIs
<1>11. Sound'
  <2>1. Marked \subseteq Reachable
    BY <1>3 DEF Sound
  <2> QED BY <1>5, <1>8, <1>9, <1>10, <2>1 DEF Sound
<1>12. start' \in Marked' /\ Range(nfs') \subseteq Marked'
  <2>1. start \in Marked /\ Range(nfs) \subseteq Marked
    BY <1>3 DEF DfsComplete
  <2>2. Range(nfs') = Range(nfs) \cup {n}
    BY <1>1, <1>3, <1>4, AppendIs
  <2> QED BY <1>5, <1>7, <1>9, <2>1, <2>2
<1>13. ASSUME NEW k \in 1 .. Len(stack')
       PROVE  stack'[k].node \in Marked' /\ Passed(stack[k].node, stack[k].i)'
  <2>1. CASE k \in 1 .. Len(stack) /\ k # Len(stack)
    <3>1. stack'[k] = stack[k]
      BY <1>1, <2>1 DEF Entered
    <3>2. stack[k].node \in Marked /\ Passed(stack[k].node, stack[k].i)
      BY <1>3, <2>1 DEF DfsComplete
    <3> QED BY <1>5, <1>9, <1>10, <3>1, <3>2 DEF Passed
  <2>2. CASE k = Len(stack)
    <3>1. stack'[k] = [node |-> n, i |-> i + 1]
      BY <1>1, <2>2 DEF Entered
    <3>2. stack'[k].node = n /\ stack'[k].i = i + 1
      BY <3>1
    <3>3. ASSUME NEW j \in 1 .. Len(out[n]), j < i + 1 PROVE out[n][j] \in Seen'
      <4>1. CASE j = i
        BY <1>4, <1>10, <4>1
      <4>2. CASE j # i
        <5>1. j < i
          BY <1>4, <3>3, <4>2
        <5> QED BY <1>7, <1>10, <5>1 DEF Passed
      <4> QED BY <4>1, <4>2
    <3> QED BY <1>5, <1>7, <1>9, <3>1, <3>2, <3>3 DEF Passed
  <2>3. CASE k \notin 1 .. Len(stack)
    <3>1. stack'[k] = [node |-> m, i |-> 1]
      BY <1>1, <2>3 DEF Entered
    <3>2. stack'[k].node = m /\ stack'[k].i = 1
      BY <3>1
    <3>3. \A j \in 1 .. Len(out'[m]) : ~(j < 1)
      OBVIOUS
    <3> QED BY <1>9, <3>2, <3>3 DEF Passed
  <2> QED BY <1>6, <2>1, <2>2, <2>3
<1>14. \A x \in Seen' : to'[x] \in Marked'
  <2>1. \A x \in Seen : to[x] \in Marked
    BY <1>3 DEF DfsComplete
  <2> QED BY <1>4, <1>5, <1>9, <1>10, <2>1
<1>15. ASSUME NEW x \in Marked'
       PROVE  Range(out'[x]) \subseteq Seen' \/ \E k \in 1 .. Len(stack') : stack'[k].node = x
  <2>1. CASE x \in Marked
    <3>1. CASE Range(out[x]) \subseteq Seen
      BY <1>5, <1>10, <3>1
    <3>2. CASE \E k \in 1 .. Len(stack) : stack[k].node = x
      <4>1. PICK k \in 1 .. Len(stack) : stack[k].node = x
        BY <3>2
      <4>2. stack'[k].node = x
        <5>1. CASE k = Len(stack)
          <6>1. stack'[k] = [node |-> n, i |-> i + 1] /\ stack[k] = [node |-> n, i |-> i]
            BY <1>1, <1>4, <5>1 DEF Entered
          <6> QED BY <4>1, <6>1
        <5>2. CASE k # Len(stack)
          <6>1. stack'[k] = stack[k]
            BY <1>1, <4>1, <5>2 DEF Entered
          <6> QED BY <4>1, <6>1
        <5> QED BY <5>1, <5>2
      <4>3. k \in 1 .. Len(stack')
        <5>1. Len(stack') \in Nat /\ Len(stack) <= Len(stack')
          BY <1>1 DEF Entered
        <5> QED BY <1>4, <5>1
      <4> QED BY <4>2, <4>3
    <3> QED BY <1>3, <2>1, <3>1, <3>2 DEF DfsComplete
  <2>2. CASE x \notin Marked
    <3>1. x = m
      BY <1>9, <2>2
    <3> QED BY <1>1, <2>2, <3>1 DEF Entered
  <2> QED BY <2>1, <2>2
<1>16. DfsComplete'
  BY <1>12, <1>13, <1>14, <1>15 DEF DfsComplete
<1> QED BY <1>2, <1>11, <1>16 DEF Visiting

LEMMA DfsReturnVisits ==
  ASSUME IInv, Visiting, DfsReturn
  PROVE  Visiting'
<1>1. /\ pc = "dfs" /\ pc' = pc /\ stack # <<>> /\ stack' = Front(stack)
      /\ Top.i > Len(out[Top.node])
      /\ UNCHANGED <<links, marks, tag, start, nfs, efs>>
  BY DEF DfsReturn
<1>2. Sound /\ DfsComplete /\ LinksOK
  BY <1>1, TypesAre DEF Visiting
<1>3. Sound'
  BY <1>1, <1>2, SoundStays
<1>4. /\ Marked' = Marked /\ Seen' = Seen /\ to' = to /\ out' = out
      /\ start' = start /\ nfs' = nfs
  BY <1>1, SameMarks, SameReach DEF links
<1>5. stack \in Seq(Frame)
  BY <1>1 DEF IInv, Stacked
<1>6. /\ Len(stack) \in Nat \ {0} /\ Len(stack') = Len(stack) - 1
      /\ \A k \in 1 .. Len(stack) - 1 : stack'[k] = stack[k]
  BY <1>1, <1>5, FrontIs
<1>7. /\ 1 .. Len(stack') \subseteq 1 .. Len(stack) /\ Len(stack) \in 1 .. Len(stack)
      /\ \A k \in 1 .. Len(stack) : k \in 1 .. Len(stack') \/ k = Len(stack)
  BY <1>6
<1>8. \A k \in 1 .. Len(stack') : stack'[k].node \in Marked' /\ Passed(stack[k].node, stack[k].i)'
  <2>1. ASSUME NEW k \in 1 .. Len(stack')
        PROVE  stack'[k].node \in Marked' /\ Passed(stack[k].node, stack[k].i)'
    <3>1. stack'[k] = stack[k] /\ k \in 1 .. Len(stack)
      BY <1>6, <1>7
    <3>2. stack[k].node \in Marked /\ Passed(stack[k].node, stack[k].i)
      BY <1>2, <3>1 DEF DfsComplete
    <3> QED BY <1>4, <3>1, <3>2 DEF Passed
  <2> QED BY <2>1
<1>9. Range(out[Top.node]) \subseteq Seen
  <2>1. Top.node \in Marked /\ Passed(Top.node, Top.i)
    BY <1>2, <1>7 DEF DfsComplete, Top
  <2>2. Top.node \in Node /\ Top.i \in Nat
    <3>1. Top \in Frame
      BY <1>1, <1>5, TopIs
    <3> QED BY <3>1 DEF Frame
  <2>3. out[Top.node] \in Seq(Made)
    BY <1>2, <2>2 DEF LinksOK
  <2>4. Range(out[Top.node]) = {out[Top.node][j] : j \in 1 .. Len(out[Top.node])}
    BY <2>3, RangeIs
  <2>5. \A j \in 1 .. Len(out[Top.node]) : j < Top.i
    <3>1. Len(out[Top.node]) \in Nat
      BY <2>3, LenProperties
    <3> QED BY <1>1, <2>2, <3>1
  <2>6. \A j \in 1 .. Len(out[Top.node]) : out[Top.node][j] \in Seen
    BY <2>1, <2>5 DEF Passed
  <2> QED BY <2>4, <2>6
<1>10. ASSUME NEW x \in Marked'
       PROVE  Range(out'[x]) \subseteq Seen' \/ \E k \in 1 .. Len(stack') : stack'[k].node = x
  <2>1. CASE Range(out[x]) \subseteq Seen
    BY <1>4, <2>1
  <2>2. CASE \E k \in 1 .. Len(stack) : stack[k].node = x
    <3>1. PICK k \in 1 .. Len(stack) : stack[k].node = x
      BY <2>2
    <3>2. CASE k = Len(stack)
      <4>1. x = Top.node
        BY <3>1, <3>2 DEF Top
      <4> QED BY <1>4, <1>9, <4>1
    <3>3. CASE k # Len(stack)
      <4>1. k \in 1 .. Len(stack')
        BY <1>7, <3>3
      <4>2. stack'[k] = stack[k]
        BY <1>6, <4>1
      <4> QED BY <3>1, <4>1, <4>2
    <3> QED BY <3>2, <3>3
  <2> QED BY <1>2, <1>4, <2>1, <2>2 DEF DfsComplete
<1>11. /\ start \in Marked /\ Range(nfs) \subseteq Marked /\ \A x \in Seen : to[x] \in Marked
  BY <1>2 DEF DfsComplete
<1>12. DfsComplete'
  BY <1>4, <1>8, <1>10, <1>11 DEF DfsComplete
<1> QED BY <1>1, <1>3, <1>12 DEF Visiting

LEMMA BfsSkipVisits ==
  ASSUME IInv, Visiting, BfsSkip
  PROVE  Visiting'
<1>1. /\ pc = "bfs" /\ pc' = pc /\ stack # <<>> /\ stack' = Front(stack) /\ ntag[Top] = tag
      /\ UNCHANGED <<links, marks, tag, start, nfs, efs, visit>>
  BY DEF BfsSkip, Popping
<1>2. Sound /\ BfsComplete
  BY <1>1 DEF Visiting
<1>3. Sound'
  BY <1>1, <1>2, SoundStays
<1>4. /\ Marked' = Marked /\ Seen' = Seen /\ Reachable' = Reachable /\ to' = to /\ out' = out
      /\ start' = start /\ nfs' = nfs /\ visit' = visit
  BY <1>1, SameMarks, SameReach DEF links
<1>5. stack \in Seq(Node)
  BY <1>1 DEF IInv, Stacked
<1>6. Range(stack) = Range(stack') \cup {Top} /\ Top \in Node
  BY <1>1, <1>5, FrontIs DEF Top
<1>7. Top \in Marked
  BY <1>1, <1>6 DEF Marked
<1>8. /\ Range(stack) \subseteq Reachable
      /\ start \in Marked \cup Range(stack)
      /\ \A e \in Seen : to[e] \in Marked \cup Range(stack)
  BY <1>2 DEF BfsComplete
<1>9. /\ Range(stack') \subseteq Reachable'
      /\ start' \in Marked' \cup Range(stack')
      /\ \A e \in Seen' : to'[e] \in Marked' \cup Range(stack')
  BY <1>4, <1>6, <1>7, <1>8
<1>10. visit' # <<>> => visit'[1].node \in Marked' /\ Passed(visit[1].node, visit[1].i)'
  BY <1>2, <1>4 DEF BfsComplete, Passed
<1>11. \A n \in Marked' : \/ Range(out'[n]) \subseteq Seen'
                          \/ visit' # <<>> /\ visit'[1].node = n
  BY <1>2, <1>4 DEF BfsComplete
<1>12. Range(nfs') = Marked' /\ IsInjective(nfs')
  BY <1>2, <1>4 DEF BfsComplete
<1>13. BfsComplete'
  BY <1>9, <1>10, <1>11, <1>12 DEF BfsComplete
<1> QED BY <1>1, <1>3, <1>13 DEF Visiting

LEMMA BfsVisitVisits ==
  ASSUME IInv, Visiting, BfsVisit
  PROVE  Visiting'
<1>1. /\ pc = "bfs" /\ pc' = pc /\ stack # <<>> /\ stack' = Front(stack)
      /\ visit = <<>> /\ ntag[Top] # tag
      /\ ntag' = [ntag EXCEPT ![Top] = tag] /\ nfs' = Append(nfs, Top)
      /\ visit' = Following(Top, 1)
      /\ UNCHANGED <<links, etag, tag, start, efs>>
  BY DEF BfsVisit, Popping
<1>2. Sound /\ BfsComplete /\ LinksOK /\ nfs \in Seq(Node)
  BY <1>1, TypesAre DEF Visiting
<1>3. /\ Reachable' = Reachable /\ ReachableEdges' = ReachableEdges /\ Made' = Made
      /\ to' = to /\ out' = out /\ start' = start
  BY <1>1, SameReach
<1>4. stack \in Seq(Node)
  BY <1>1 DEF IInv, Stacked
<1>5. Range(stack) = Range(stack') \cup {Top} /\ Top \in Node
  BY <1>1, <1>4, FrontIs DEF Top
<1>6. Seen' = Seen
  BY <1>1, <1>3 DEF Seen
<1>7. Marked' = Marked \cup {Top}
  BY <1>1, <1>5, MarkedIs
<1>8. /\ Range(stack) \subseteq Reachable
      /\ start \in Marked \cup Range(stack)
      /\ \A e \in Seen : to[e] \in Marked \cup Range(stack)
  BY <1>2 DEF BfsComplete
<1>9. Sound'
  <2>1. /\ Marked \subseteq Reachable /\ Seen \subseteq ReachableEdges
        /\ Range(efs) = Seen /\ IsInjective(efs)
    BY <1>2 DEF Sound
  <2>2. efs' = efs
    BY <1>1
  <2> QED BY <1>3, <1>5, <1>6, <1>7, <1>8, <2>1, <2>2 DEF Sound
<1>10. /\ Range(stack') \subseteq Reachable'
       /\ start' \in Marked' \cup Range(stack')
       /\ \A e \in Seen' : to'[e] \in Marked' \cup Range(stack')
  BY <1>3, <1>5, <1>6, <1>7, <1>8
<1>11. Range(nfs') = Marked' /\ IsInjective(nfs')
  <2>1. Range(nfs) = Marked /\ IsInjective(nfs)
    BY <1>2 DEF BfsComplete
  <2>2. Top \notin Range(nfs)
    BY <1>1, <2>1 DEF Marked
  <2> QED BY <1>1, <1>2, <1>5, <1>7, <2>1, <2>2, AppendIs
<1>12. \/ visit' = <<>> /\ ~(1 <= Len(out[Top]))
       \/ visit' = <<[node |-> Top, i |-> 1]>>
  <2>1. 1 \in Nat \ {0}
    OBVIOUS
  <2> QED BY <1>1, <1>5, <2>1, FollowingIs
<1>13. visit' # <<>> => visit'[1].node = Top /\ visit'[1].i = 1
  BY <1>12
<1>14. visit' # <<>> => visit'[1].node \in Marked' /\ Passed(visit[1].node, visit[1].i)'
  <2>1. \A j \in 1 .. Len(out'[Top]) : ~(j < 1)
    OBVIOUS
  <2> QED BY <1>7, <1>13, <2>1 DEF Passed
<1>15. ASSUME NEW n \in Marked'
       PROVE  Range(out'[n]) \subseteq Seen' \/ (visit' # <<>> /\ visit'[1].node = n)
  <2>1. CASE n \in Marked
    <3>1. Range(out[n]) \subseteq Seen
      BY <1>1, <1>2, <2>1 DEF BfsComplete
    <3> QED BY <1>3, <1>6, <3>1
  <2>2. CASE n = Top /\ visit' # <<>>
    BY <1>13, <2>2
  <2>3. CASE n = Top /\ visit' = <<>>
    <3>1. <<[node |-> Top, i |-> 1]>> # <<>>
      OBVIOUS
    <3>2. out[Top] \in Seq(Made) /\ ~(1 <= Len(out[Top]))
      BY <1>2, <1>5, <1>12, <2>3, <3>1 DEF LinksOK
    <3>3. 1 .. Len(out[Top]) = {}
      <4>1. Len(out[Top]) \in Nat
        BY <3>2, LenProperties
      <4> QED BY <3>2, <4>1
    <3>4. Range(out[Top]) = {out[Top][j] : j \in 1 .. Len(out[Top])}
      BY <3>2, RangeIs
    <3>5. Range(out[Top]) = {}
      BY <3>3, <3>4
    <3> QED BY <1>3, <2>3, <3>5
  <2> QED BY <1>7, <2>1, <2>2, <2>3
<1>16. BfsComplete'
  BY <1>10, <1>11, <1>14, <1>15 DEF BfsComplete
<1> QED BY <1>1, <1>9, <1>16 DEF Visiting

LEMMA BfsEdgeVisits ==
  ASSUME IInv, Visiting, BfsEdge
  PROVE  Visiting'
<1> DEFINE n == visit[1].node
           i == visit[1].i
           e == out[n][i]
           m == to[e]
<1>1. /\ pc = "bfs" /\ pc' = pc /\ visit # <<>>
      /\ etag' = [etag EXCEPT ![e] = tag]
      /\ efs' = IF etag[e] # tag THEN Append(efs, e) ELSE efs
      /\ stack' = IF etag[e] # tag /\ ntag[m] # tag THEN Append(stack, m) ELSE stack
      /\ visit' = Following(n, i + 1)
      /\ UNCHANGED <<links, ntag, tag, start, nfs>>
  BY DEF BfsEdge
<1>2. Sound /\ BfsComplete /\ LinksOK /\ start \in Node
  BY <1>1, TypesAre DEF Visiting
<1>3. stack \in Seq(Node) /\ n \in Node /\ i \in 1 .. Len(out[n])
  <2>1. stack \in Seq(Node) /\ Placed
    BY <1>1 DEF IInv, Stacked
  <2>2. PICK a \in Node : \E j \in 1 .. Len(out[a]) : visit = <<[node |-> a, i |-> j]>>
    BY <1>1, <2>1 DEF Placed
  <2>3. PICK j \in 1 .. Len(out[a]) : visit = <<[node |-> a, i |-> j]>>
    BY <2>2
  <2>4. n = a /\ i = j
    BY <2>3
  <2> QED BY <2>1, <2>2, <2>3, <2>4
<1>4. n \in Marked /\ Passed(n, i)
  BY <1>1, <1>2 DEF BfsComplete
<1>5. \A x \in Marked : Range(out[x]) \subseteq Seen \/ x = n
  BY <1>2 DEF BfsComplete
<1> HIDE DEF n, i
<1>6. out[n] \in Seq(Made) /\ Len(out[n]) \in Nat
  <2>1. out[n] \in Seq(Made)
    BY <1>2, <1>3 DEF LinksOK
  <2> QED BY <2>1, LenProperties
<1>7. e \in Made /\ e \in Range(out[n]) /\ m \in Node
  BY <1>2, <1>3, EdgeIs
<1>8. m \in Reachable /\ e \in ReachableEdges
  <2>1. n \in Reachable
    BY <1>2, <1>4 DEF Sound
  <2> QED BY <1>2, <1>7, <2>1, ReachableIs
<1>9. /\ Reachable' = Reachable /\ ReachableEdges' = ReachableEdges
      /\ to' = to /\ out' = out /\ start' = start
  BY <1>1, SameReach
<1>10. e = out[n][i] /\ m = to[e]
  OBVIOUS
<1> HIDE DEF e, m
<1>11. /\ Seen' = Seen \cup {e} /\ Seen' \subseteq ReachableEdges'
       /\ Range(efs') = Seen' /\ IsInjective(efs')
  BY <1>1, <1>2, <1>7, <1>8, SeenIs
<1>12. Marked' = Marked
  BY <1>1 DEF Marked
<1>13. Sound'
  BY <1>2, <1>9, <1>11, <1>12 DEF Sound
<1>14. /\ Range(stack) \subseteq Reachable
       /\ start \in Marked \cup Range(stack)
       /\ \A x \in Seen : to[x] \in Marked \cup Range(stack)
       /\ Range(nfs) = Marked /\ IsInjective(nfs)
  BY <1>2 DEF BfsComplete
<1>15. Range(stack) \subseteq Range(stack') /\ Range(stack') \subseteq Range(stack) \cup {m}
  <2>1. Range(Append(stack, m)) = Range(stack) \cup {m}
    BY <1>3, <1>7, AppendIs
  <2> QED BY <1>1, <2>1
<1>16. m \in Marked \cup Range(stack')
  <2>1. CASE etag[e] = tag
    <3>1. e \in Seen
      BY <1>7, <2>1 DEF Seen
    <3> QED BY <1>10, <1>14, <1>15, <3>1
  <2>2. CASE ntag[m] = tag
    BY <1>7, <2>2 DEF Marked
  <2>3. CASE etag[e] # tag /\ ntag[m] # tag
    <3>1. stack' = Append(stack, m)
      BY <1>1, <2>3
    <3>2. Range(stack') = Range(stack) \cup {m}
      BY <1>3, <1>7, <3>1, AppendIs
    <3> QED BY <3>2
  <2> QED BY <2>1, <2>2, <2>3
<1>17. /\ Range(stack') \subseteq Reachable'
       /\ start' \in Marked' \cup Range(stack')
       /\ Range(nfs') = Marked' /\ IsInjective(nfs')
  <2>1. nfs' = nfs
    BY <1>1
  <2> QED BY <1>8, <1>9, <1>12, <1>14, <1>15, <2>1
<1>18. \A x \in Seen' : to'[x] \in Marked' \cup Range(stack')
  BY <1>9, <1>10, <1>11, <1>12, <1>14, <1>15, <1>16
<1>19. \A j \in 1 .. Len(out[n]) : j < i + 1 => out[n][j] \in Seen'
  <2>1. ASSUME NEW j \in 1 .. Len(out[n]), j < i + 1 PROVE out[n][j] \in Seen'
    <3>1. CASE j = i
      BY <1>10, <1>11, <3>1
    <3>2. CASE j # i
      <4>1. j < i
        BY <1>3, <1>6, <2>1, <3>2
      <4> QED BY <1>4, <1>11, <4>1 DEF Passed
    <3> QED BY <3>1, <3>2
  <2> QED BY <2>1
<1>20. \/ visit' = <<>> /\ ~(i + 1 <= Len(out[n]))
       \/ visit' = <<[node |-> n, i |-> i + 1]>>
  <2>1. i + 1 \in Nat \ {0}
    BY <1>3
  <2> QED BY <1>1, <1>3, <2>1, FollowingIs
<1>21. visit' # <<>> => visit'[1].node = n /\ visit'[1].i = i + 1
  BY <1>20
<1>22. visit' # <<>> => visit'[1].node \in Marked' /\ Passed(visit[1].node, visit[1].i)'
  BY <1>4, <1>9, <1>12, <1>19, <1>21 DEF Passed
<1>23. ASSUME NEW x \in Marked'
       PROVE  Range(out'[x]) \subseteq Seen' \/ (visit' # <<>> /\ visit'[1].node = x)
  <2>1. CASE Range(out[x]) \subseteq Seen
    BY <1>9, <1>11, <2>1
  <2>2. CASE x = n /\ visit' # <<>>
    BY <1>21, <2>2
  <2>3. CASE x = n /\ visit' = <<>>
    <3>1. <<[node |-> n, i |-> i + 1]>> # <<>>
      OBVIOUS
    <3>2. ~(i + 1 <= Len(out[n]))
      BY <1>20, <2>3, <3>1
    <3>3. \A j \in 1 .. Len(out[n]) : j < i + 1
      BY <1>3, <1>6, <3>2
    <3>4. \A j \in 1 .. Len(out[n]) : out[n][j] \in Seen'
      BY <1>19, <3>3
    <3>5. Range(out[n]) = {out[n][j] : j \in 1 .. Len(out[n])}
      BY <1>6, RangeIs
    <3>6. Range(out[n]) \subseteq Seen'
      BY <3>4, <3>5
    <3> QED BY <1>9, <2>3, <3>6
  <2> QED BY <1>5, <1>12, <2>1, <2>2, <2>3
<1>24. BfsComplete'
  BY <1>17, <1>18, <1>22, <1>23 DEF BfsComplete
<1> QED BY <1>1, <1>13, <1>24 DEF Visiting

\* A traversal begins: nothing carries its tag.
LEMMA TraverseVisits ==
  ASSUME FreshTags, IInv, NEW n \in Node, NEW kind \in {"dfs", "bfs"}, Traverse(n, kind)
  PROVE  Visiting'
<1>1. PICK t \in 1 .. Tags : (FreshTags => t \notin InUse) /\ tag' = t
  BY DEF Traverse
<1>2. /\ pc = "idle" /\ pc' = kind /\ start' = n
      /\ UNCHANGED <<links, etag, visit, nfs, efs>>
      /\ IF kind = "dfs" THEN stack' = <<[node |-> n, i |-> 1]>>
                              /\ ntag' = [ntag EXCEPT ![n] = tag']
                         ELSE stack' = <<n>> /\ UNCHANGED ntag
  BY DEF Traverse
<1>3. visit' = <<>> /\ nfs' = <<>> /\ efs' = <<>>
  BY <1>2 DEF IInv, Stacked
<1>4. Made' = Made
  BY <1>2 DEF Made, links
<1>5. (\A x \in Node : ntag[x] # tag') /\ (\A e \in Made : etag[e] # tag')
  BY <1>1 DEF InUse
<1>6. Seen' = {}
  BY <1>2, <1>4, <1>5 DEF Seen
<1>7. Range(<<>>) = {} /\ IsInjective(<<>>)
  BY EmptyIs
<1>8. n \in Reachable'
  BY <1>2 DEF Reachable
<1>9. CASE kind = "dfs"
  <2>1. Marked' = {n}
    <3>1. ntag \in [Node -> 0 .. Tags]
      BY TypesAre
    <3> QED BY <1>2, <1>5, <1>9, <3>1 DEF Marked
  <2>2. Sound'
    BY <1>3, <1>6, <1>7, <1>8, <2>1 DEF Sound
  <2>3. stack' = <<[node |-> n, i |-> 1]>>
    BY <1>2, <1>9
  <2> DEFINE f == [node |-> n, i |-> 1]
  <2>4. f.node = n /\ f.i = 1
    OBVIOUS
  <2>5. stack' = <<f>>
    BY <2>3
  <2> HIDE DEF f
  <2>6. Len(stack') = 1 /\ stack'[1] = f
    BY <2>5
  <2>7. \A k \in 1 .. Len(stack') : stack'[k].node = n /\ stack'[k].i = 1
    BY <2>4, <2>6
  <2>8. \A k \in 1 .. Len(stack') : stack'[k].node \in Marked' /\ Passed(stack[k].node, stack[k].i)'
    <3>1. \A j \in 1 .. Len(out'[n]) : ~(j < 1)
      OBVIOUS
    <3> QED BY <2>1, <2>7, <3>1 DEF Passed
  <2>9. 1 \in 1 .. Len(stack') /\ stack'[1].node = n
    BY <2>4, <2>6
  <2>10. DfsComplete'
    BY <1>2, <1>3, <1>6, <1>7, <2>1, <2>8, <2>9 DEF DfsComplete
  <2> QED BY <1>2, <1>9, <2>2, <2>10 DEF Visiting
<1>10. CASE kind = "bfs"
  <2>1. Marked' = {}
    BY <1>2, <1>5, <1>10 DEF Marked
  <2>2. Sound'
    BY <1>3, <1>6, <1>7, <2>1 DEF Sound
  <2>3. stack' = <<n>>
    BY <1>2, <1>10
  <2>4. Range(stack') = {n}
    <3>1. <<n>> \in Seq(Node) /\ Len(<<n>>) = 1 /\ <<n>>[1] = n
      BY OneIs
    <3>2. Range(<<n>>) = {<<n>>[j] : j \in 1 .. Len(<<n>>)}
      BY <3>1, RangeIs
    <3>3. 1 .. Len(<<n>>) = {1}
      BY <3>1
    <3> QED BY <2>3, <3>1, <3>2, <3>3
  <2>5. BfsComplete'
    BY <1>2, <1>3, <1>6, <1>7, <1>8, <2>1, <2>4 DEF BfsComplete
  <2> QED BY <1>2, <1>10, <2>2, <2>5 DEF Visiting
<1> QED BY <1>9, <1>10

\* Between traversals there is nothing to keep.
LEMMA IdleVisits == ASSUME pc' = "idle" PROVE Visiting'
BY DEF Visiting

LEMMA StepVisits ==
  ASSUME FreshTags, IInv, Visiting, [Next]_vars
  PROVE  Visiting'
<1>1. CASE \E a, b \in Node : Link(a, b) \/ Unlink(a, b)
  <2>1. PICK a, b \in Node : Link(a, b) \/ Unlink(a, b)
    BY <1>1
  <2>2. pc' = "idle"
    BY <2>1 DEF Link, Unlink, DropEdge, Unvisited
  <2> QED BY <2>2, IdleVisits
<1>2. CASE \E e \in Made : DropEdge(e)
  <2>1. pc' = "idle"
    BY <1>2 DEF DropEdge, Unvisited
  <2> QED BY <2>1, IdleVisits
<1>3. CASE \E n \in Node, kind \in {"dfs", "bfs"} : Traverse(n, kind)
  BY <1>3, TraverseVisits
<1>4. CASE Finish
  BY <1>4, IdleVisits DEF Finish
<1>5. CASE UNCHANGED vars
  <2>1. /\ UNCHANGED <<links, marks, tag, start, pc, stack, visit, nfs, efs>>
    BY <1>5 DEF vars
  <2>2. /\ Reachable' = Reachable /\ Marked' = Marked /\ Seen' = Seen /\ to' = to /\ out' = out
    BY <2>1, SameReach, SameMarks DEF links
  <2>3. pc # "idle" => Sound'
    BY <2>1, SoundStays DEF Visiting
  <2>4. DfsComplete => DfsComplete'
    BY <2>1, <2>2 DEF DfsComplete, Passed
  <2>5. BfsComplete => BfsComplete'
    BY <2>1, <2>2 DEF BfsComplete, Passed
  <2> QED BY <2>1, <2>3, <2>4, <2>5 DEF Visiting
<1> QED BY <1>1, <1>2, <1>3, <1>4, <1>5, DfsEdgeVisits, DfsReturnVisits, BfsSkipVisits,
           BfsVisitVisits, BfsEdgeVisits DEF Next, Running

\* A traversal with an empty stack has marked everything there is a way to.
LEMMA DoneVisits == ASSUME IInv, Visiting PROVE VisitsAll
<1> SUFFICES ASSUME Done
             PROVE  /\ Range(efs) = ReachableEdges /\ IsInjective(efs)
                    /\ Range(nfs) \subseteq Reachable
                    /\ pc = "bfs" => Range(nfs) = Reachable /\ IsInjective(nfs)
  BY DEF VisitsAll
<1>1. /\ pc # "idle" /\ stack = <<>> /\ visit = <<>> /\ Sound
      /\ LinksOK /\ start \in Node /\ pc \in {"dfs", "bfs"}
  BY TypesAre DEF Done, Visiting
<1>2. Len(stack) = 0 /\ Range(stack) = {}
  BY <1>1, EmptyIs
<1>3. /\ start \in Marked /\ Range(nfs) \subseteq Marked
      /\ \A e \in Seen : to[e] \in Marked
      /\ \A n \in Marked : Range(out[n]) \subseteq Seen
      /\ pc = "bfs" => Range(nfs) = Marked /\ IsInjective(nfs)
  <2>1. CASE pc = "dfs"
    <3>1. DfsComplete
      BY <2>1 DEF Visiting
    <3>2. ~ \E k \in 1 .. Len(stack) : TRUE
      BY <1>2
    <3> QED BY <2>1, <3>1, <3>2 DEF DfsComplete
  <2>2. CASE pc = "bfs"
    <3>1. BfsComplete
      BY <2>2 DEF Visiting
    <3> QED BY <1>1, <1>2, <3>1 DEF BfsComplete
  <2> QED BY <1>1, <2>1, <2>2
<1>4. Marked \in SUBSET Node /\ Closed(Marked)
  <2>1. Marked \in SUBSET Node
    BY DEF Marked
  <2> QED BY <1>3, <2>1 DEF Closed
<1>5. Reachable = Marked
  <2>1. Reachable \subseteq Marked
    BY <1>1, <1>3, <1>4, ReachableIs
  <2> QED BY <1>1, <2>1 DEF Sound
<1>6. ReachableEdges = Seen
  <2>1. ReachableEdges \subseteq Seen
    BY <1>3, <1>5 DEF ReachableEdges
  <2> QED BY <1>1, <2>1 DEF Sound
<1>7. Range(efs) = ReachableEdges /\ IsInjective(efs)
  BY <1>1, <1>6 DEF Sound
<1> QED BY <1>3, <1>5, <1>7

\* As long as rand() returns no tag that is in use, a traversal that ends has
\* called back once for every edge there is a way to, and trav_bfs() once for
\* every node.
THEOREM TraversalsVisitAll == ASSUME FreshTags PROVE Spec => []VisitsAll
<1>1. Init => IInv /\ Visiting
  <2>1. Init => pc = "idle"
    BY DEF Init
  <2> QED BY <2>1, InitIInv DEF Visiting
<1>2. IInv /\ Visiting /\ [Next]_vars => IInv' /\ Visiting'
  BY NextIInv, StepVisits
<1>3. IInv /\ Visiting => VisitsAll
  BY DoneVisits
<1> QED BY <1>1, <1>2, <1>3, PTL DEF Spec

=============================================================================
