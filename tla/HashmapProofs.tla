---------------------------- MODULE HashmapProofs ----------------------------
(***************************************************************************)
(* Proofs about Hashmap, for every set of keys and values, every hash      *)
(* function and every number of buckets: the paired lists are a function   *)
(* from keys to values with a right count, and an iteration is exact where *)
(* the map was not changed.                                                *)
(***************************************************************************)
EXTENDS Hashmap, FiniteSetTheorems, SequenceTheorems, WellFoundedInduction, TLAPS

USE NoneAssumption, BucketsAssumption, HashAssumption, FailsAssumption

-----------------------------------------------------------------------------
(* Lists of pairs *)

\* A set of natural numbers has a least element.
LEMMA Least ==
  ASSUME NEW S \in SUBSET Nat, S # {}
  PROVE  \E x \in S : \A y \in S : x <= y
<1> DEFINE R == OpToRel(<, Nat)
<1>1. IsWellFoundedOn(R, Nat)
  BY NatLessThanWellFounded
<1>2. R = {ss \in Nat \X Nat : ss[1] < ss[2]}
  BY DEF OpToRel
<1> HIDE DEF R
<1>3. PICK x \in S : \A y \in S : ~(<<y, x>> \in R)
  BY <1>1, WFMin
<1>4. \A y \in S : ~(y < x)
  BY <1>2, <1>3
<1> QED BY <1>4

\* No key is twice in a list.
Has(ks, k) == \E i \in 1 .. Len(ks) : ks[i] = k
Distinct(ks) == \A i, j \in 1 .. Len(ks) : ks[i] = ks[j] => i = j

\* ptrlist_findeqfn() and ptrlist_get() on the two lists of a bucket
Place(ks, k) == SelectInSeq(ks, LAMBDA x : x = k)
Lookup(ks, vs, k) == IF Place(ks, k) = 0 THEN None ELSE At(vs, Place(ks, k))

\* A key is found where it is, and a key that is nowhere at 0.
LEMMA PlaceIs ==
  ASSUME NEW ks \in Seq(Key), Distinct(ks), NEW k
  PROVE  /\ \A i \in 1 .. Len(ks) : ks[i] = k => Place(ks, k) = i
         /\ (\A i \in 1 .. Len(ks) : ks[i] # k) => Place(ks, k) = 0
<1> DEFINE I == {i \in 1 .. Len(ks) : ks[i] = k}
<1>1. Place(ks, k) = IF I # {} THEN Min(I) ELSE 0
  BY DEF Place, SelectInSeq
<1>2. ASSUME NEW i \in 1 .. Len(ks), ks[i] = k PROVE Place(ks, k) = i
  <2>1. I = {i}
    BY <1>2 DEF Distinct
  <2>2. Len(ks) \in Nat
    BY LenProperties
  <2>3. Min({i}) = i
    BY <2>2 DEF Min
  <2> QED BY <1>1, <2>1, <2>3
<1>3. ASSUME \A i \in 1 .. Len(ks) : ks[i] # k PROVE Place(ks, k) = 0
  BY <1>1, <1>3
<1> QED BY <1>2, <1>3

\* What a lookup in the lists of a bucket returns.
LEMMA LookupIs ==
  ASSUME NEW ks \in Seq(Key), Distinct(ks), NEW vs \in Seq(Value), NEW k
  PROVE  /\ \A i \in 1 .. Len(ks) : ks[i] = k => Lookup(ks, vs, k) = At(vs, i)
         /\ (\A i \in 1 .. Len(ks) : ks[i] # k) => Lookup(ks, vs, k) = None
<1>1. ASSUME NEW i \in 1 .. Len(ks), ks[i] = k PROVE Lookup(ks, vs, k) = At(vs, i)
  <2>1. Place(ks, k) = i /\ i # 0
    BY <1>1, PlaceIs, LenProperties
  <2> QED BY <2>1 DEF Lookup
<1>2. ASSUME \A i \in 1 .. Len(ks) : ks[i] # k PROVE Lookup(ks, vs, k) = None
  BY <1>2, PlaceIs DEF Lookup
<1> QED BY <1>1, <1>2

LEMMA AtInside ==
  ASSUME NEW S, NEW s \in Seq(S), NEW i \in 1 .. Len(s)
  PROVE  At(s, i) = s[i] /\ s[i] \in S
BY ElementOfSeq, LenProperties DEF At

\* ptrlist_insert() at the front
LEMMA InFront ==
  ASSUME NEW S, NEW s \in Seq(S), NEW x \in S
  PROVE  /\ <<x>> \o s \in Seq(S) /\ Len(<<x>> \o s) = Len(s) + 1 /\ Len(s) \in Nat
         /\ (<<x>> \o s)[1] = x
         /\ \A i \in 1 .. Len(s) : (<<x>> \o s)[i + 1] = s[i]
<1>1. <<x>> \in Seq(S) /\ Len(<<x>>) = 1 /\ <<x>>[1] = x /\ Len(s) \in Nat
  BY LenProperties
<1>2. /\ <<x>> \o s \in Seq(S)
      /\ Len(<<x>> \o s) = 1 + Len(s)
      /\ \A i \in 1 .. 1 + Len(s) : (<<x>> \o s)[i] = IF i <= 1 THEN <<x>>[i] ELSE s[i - 1]
  BY <1>1, ConcatProperties
<1>3. (<<x>> \o s)[1] = x
  BY <1>1, <1>2
<1>4. ASSUME NEW i \in 1 .. Len(s) PROVE (<<x>> \o s)[i + 1] = s[i]
  <2>1. i + 1 \in 1 .. 1 + Len(s) /\ ~(i + 1 <= 1) /\ (i + 1) - 1 = i
    BY <1>1
  <2> QED BY <1>2, <2>1
<1> QED BY <1>1, <1>2, <1>3, <1>4

\* ptrlist_remove()
LEMMA Removed ==
  ASSUME NEW S, NEW s \in Seq(S), NEW i \in 1 .. Len(s)
  PROVE  /\ Dropped(s, i) \in Seq(S) /\ Len(Dropped(s, i)) = Len(s) - 1 /\ Len(s) \in Nat
         /\ \A j \in 1 .. Len(s) - 1 :
              Dropped(s, i)[j] = IF j < i THEN s[j] ELSE s[j + 1]
<1> DEFINE a == SubSeq(s, 1, i - 1)
           b == SubSeq(s, i + 1, Len(s))
<1>1. Len(s) \in Nat /\ i \in Nat /\ i >= 1 /\ i <= Len(s) /\ \A j \in 1 .. Len(s) : s[j] \in S
  BY LenProperties, ElementOfSeq
<1>2. Dropped(s, i) = a \o b
  BY LenProperties DEF Dropped, RemoveAt
<1>3. /\ a \in Seq(S) /\ Len(a) = i - 1
      /\ \A j \in 1 .. i - 1 : a[j] = s[j]
  <2>1. \A j \in 1 .. i - 1 : s[j] \in S
    BY <1>1
  <2>2. 1 \in Int /\ i - 1 \in Int
    BY <1>1
  <2>3. /\ a \in Seq(S)
        /\ Len(a) = IF 1 <= i - 1 THEN (i - 1) - 1 + 1 ELSE 0
        /\ \A j \in 1 .. (i - 1) - 1 + 1 : a[j] = s[1 + j - 1]
    BY <2>1, <2>2, SubSeqProperties
  <2> HIDE DEF a
  <2>4. Len(a) = i - 1
    BY <1>1, <2>3
  <2>5. ASSUME NEW j \in 1 .. i - 1 PROVE a[j] = s[j]
    <3>1. j \in 1 .. (i - 1) - 1 + 1 /\ 1 + j - 1 = j
      BY <1>1
    <3> QED BY <2>3, <3>1
  <2> QED BY <2>3, <2>4, <2>5
<1>4. /\ b \in Seq(S) /\ Len(b) = Len(s) - i
      /\ \A j \in 1 .. Len(s) - i : b[j] = s[i + j]
  <2>1. \A j \in i + 1 .. Len(s) : s[j] \in S
    BY <1>1
  <2>2. i + 1 \in Int /\ Len(s) \in Int
    BY <1>1
  <2>3. /\ b \in Seq(S)
        /\ Len(b) = IF i + 1 <= Len(s) THEN Len(s) - (i + 1) + 1 ELSE 0
        /\ \A j \in 1 .. Len(s) - (i + 1) + 1 : b[j] = s[(i + 1) + j - 1]
    BY <2>1, <2>2, SubSeqProperties
  <2> HIDE DEF b
  <2>4. Len(b) = Len(s) - i
    BY <1>1, <2>3
  <2>5. ASSUME NEW j \in 1 .. Len(s) - i PROVE b[j] = s[i + j]
    <3>1. j \in 1 .. Len(s) - (i + 1) + 1 /\ (i + 1) + j - 1 = i + j
      BY <1>1
    <3> QED BY <2>3, <3>1
  <2> QED BY <2>3, <2>4, <2>5
<1> HIDE DEF a, b
<1>5. /\ a \o b \in Seq(S) /\ Len(a \o b) = Len(a) + Len(b)
      /\ \A j \in 1 .. Len(a) + Len(b) :
           (a \o b)[j] = IF j <= Len(a) THEN a[j] ELSE b[j - Len(a)]
  <2>1. a \in Seq(S) /\ b \in Seq(S)
    BY <1>3, <1>4
  <2> QED BY <2>1, ConcatProperties
<1>6. Len(a) + Len(b) = Len(s) - 1
  BY <1>1, <1>3, <1>4
<1>7. ASSUME NEW j \in 1 .. Len(s) - 1
      PROVE  (a \o b)[j] = IF j < i THEN s[j] ELSE s[j + 1]
  <2>1. CASE j < i
    <3>1. j \in 1 .. Len(a) + Len(b) /\ j <= Len(a) /\ j \in 1 .. i - 1
      BY <1>1, <1>3, <1>6, <2>1
    <3> QED BY <1>3, <1>5, <2>1, <3>1
  <2>2. CASE ~(j < i)
    <3>1. j \in 1 .. Len(a) + Len(b) /\ ~(j <= Len(a))
      BY <1>1, <1>3, <1>6, <2>2
    <3>2. j - Len(a) \in 1 .. Len(s) - i /\ i + (j - Len(a)) = j + 1
      BY <1>1, <1>3, <2>2
    <3> QED BY <1>4, <1>5, <2>2, <3>1, <3>2
  <2> QED BY <2>1, <2>2
<1>8. Dropped(s, i) \in Seq(S) /\ Len(Dropped(s, i)) = Len(s) - 1
  BY <1>2, <1>5, <1>6
<1>9. \A j \in 1 .. Len(s) - 1 : Dropped(s, i)[j] = IF j < i THEN s[j] ELSE s[j + 1]
  BY <1>2, <1>7
<1> QED BY <1>1, <1>8, <1>9

\* A key that is new stays the only one of its name in front of the others.
LEMMA KeyInFront ==
  ASSUME NEW ks \in Seq(Key), Distinct(ks), NEW k \in Key, ~Has(ks, k)
  PROVE  /\ Distinct(<<k>> \o ks)
         /\ \A j : Has(<<k>> \o ks, j) <=> (j = k \/ Has(ks, j))
<1> DEFINE K == <<k>> \o ks
<1>1. /\ K \in Seq(Key) /\ Len(K) = Len(ks) + 1 /\ Len(ks) \in Nat /\ K[1] = k
      /\ \A i \in 1 .. Len(ks) : K[i + 1] = ks[i]
  BY InFront
<1> HIDE DEF K
<1>2. ASSUME NEW i \in 1 .. Len(K)
      PROVE  i = 1 \/ (i - 1 \in 1 .. Len(ks) /\ K[i] = ks[i - 1])
  <2>1. CASE i # 1
    <3>1. i - 1 \in 1 .. Len(ks) /\ (i - 1) + 1 = i
      BY <1>1, <2>1
    <3> QED BY <1>1, <3>1
  <2> QED BY <2>1
<1>3. Distinct(K)
  <2> SUFFICES ASSUME NEW i \in 1 .. Len(K), NEW j \in 1 .. Len(K), K[i] = K[j]
               PROVE  i = j
    BY DEF Distinct
  <2>1. CASE i = 1 /\ j = 1
    BY <2>1
  <2>2. CASE i # 1 /\ j # 1
    <3>1. i - 1 \in 1 .. Len(ks) /\ j - 1 \in 1 .. Len(ks) /\ ks[i - 1] = ks[j - 1]
      BY <1>2, <2>2
    <3>2. i - 1 = j - 1
      BY <3>1 DEF Distinct
    <3>3. i \in Nat /\ j \in Nat
      BY <1>1
    <3> QED BY <3>2, <3>3
  <2>3. CASE i = 1 /\ j # 1
    BY <1>1, <1>2, <2>3 DEF Has
  <2>4. CASE i # 1 /\ j = 1
    BY <1>1, <1>2, <2>4 DEF Has
  <2> QED BY <2>1, <2>2, <2>3, <2>4
<1>4. ASSUME NEW j PROVE Has(K, j) <=> (j = k \/ Has(ks, j))
  <2>1. ASSUME Has(K, j) PROVE j = k \/ Has(ks, j)
    <3>1. PICK i \in 1 .. Len(K) : K[i] = j
      BY <2>1 DEF Has
    <3>2. CASE i = 1
      BY <1>1, <3>1, <3>2
    <3>3. CASE i # 1
      BY <1>2, <3>1, <3>3 DEF Has
    <3> QED BY <3>2, <3>3
  <2>2. ASSUME j = k PROVE Has(K, j)
    <3>1. 1 \in 1 .. Len(K)
      BY <1>1
    <3> QED BY <1>1, <2>2, <3>1 DEF Has
  <2>3. ASSUME Has(ks, j) PROVE Has(K, j)
    <3>1. PICK i \in 1 .. Len(ks) : ks[i] = j
      BY <2>3 DEF Has
    <3>2. i + 1 \in 1 .. Len(K)
      BY <1>1
    <3> QED BY <1>1, <3>1, <3>2 DEF Has
  <2> QED BY <2>1, <2>2, <2>3
<1> QED BY <1>3, <1>4 DEF K

\* It gets its value, and the others keep theirs.
LEMMA LookupInFront ==
  ASSUME NEW ks \in Seq(Key), Distinct(ks), NEW vs \in Seq(Value), Len(vs) = Len(ks),
         NEW k \in Key, NEW v \in Value, ~Has(ks, k)
  PROVE  \A j \in Key : Lookup(<<k>> \o ks, <<v>> \o vs, j) =
           IF j = k THEN v ELSE Lookup(ks, vs, j)
<1> DEFINE K == <<k>> \o ks
           V == <<v>> \o vs
<1>1. /\ K \in Seq(Key) /\ Len(K) = Len(ks) + 1 /\ Len(ks) \in Nat /\ K[1] = k
      /\ \A i \in 1 .. Len(ks) : K[i + 1] = ks[i]
  BY InFront
<1>2. /\ V \in Seq(Value) /\ Len(V) = Len(ks) + 1 /\ V[1] = v
      /\ \A i \in 1 .. Len(ks) : V[i + 1] = vs[i]
  BY InFront
<1>3. Distinct(K) /\ \A j : Has(K, j) <=> (j = k \/ Has(ks, j))
  BY KeyInFront
<1> HIDE DEF K, V
<1>4. K \in Seq(Key) /\ V \in Seq(Value) /\ Len(K) = Len(V) /\ Distinct(K)
  BY <1>1, <1>2, <1>3
<1>5. ASSUME NEW j \in Key
      PROVE  Lookup(K, V, j) = IF j = k THEN v ELSE Lookup(ks, vs, j)
  <2>1. CASE j = k
    <3>1. 1 \in 1 .. Len(K) /\ K[1] = j
      BY <1>1, <2>1
    <3>2. Lookup(K, V, j) = At(V, 1)
      BY <1>4, <3>1, LookupIs
    <3>3. At(V, 1) = v
      BY <1>4, <1>2, <3>1, AtInside
    <3> QED BY <2>1, <3>2, <3>3
  <2>2. CASE j # k /\ Has(ks, j)
    <3>1. PICK i \in 1 .. Len(ks) : ks[i] = j
      BY <2>2 DEF Has
    <3>2. i + 1 \in 1 .. Len(K) /\ K[i + 1] = j /\ V[i + 1] = vs[i]
      BY <1>1, <1>2, <3>1
    <3>3. Lookup(K, V, j) = At(V, i + 1)
      BY <1>4, <3>2, LookupIs
    <3>4. At(V, i + 1) = V[i + 1] /\ At(vs, i) = vs[i]
      BY <1>4, <3>2, AtInside
    <3>5. Lookup(ks, vs, j) = At(vs, i)
      BY <3>1, LookupIs
    <3> QED BY <2>2, <3>2, <3>3, <3>4, <3>5
  <2>3. CASE j # k /\ ~Has(ks, j)
    <3>1. ~Has(K, j)
      BY <1>3, <2>3
    <3>2. Lookup(K, V, j) = None
      BY <1>4, <3>1, LookupIs DEF Has
    <3>3. Lookup(ks, vs, j) = None
      BY <2>3, LookupIs DEF Has
    <3> QED BY <2>3, <3>2, <3>3
  <2> QED BY <2>1, <2>2, <2>3
<1> QED BY <1>5 DEF K, V

\* A new value in a key's place is that key's and no other's.
LEMMA LookupReplaced ==
  ASSUME NEW ks \in Seq(Key), Distinct(ks), NEW vs \in Seq(Value), Len(vs) = Len(ks),
         NEW i \in 1 .. Len(ks), NEW v \in Value
  PROVE  /\ [vs EXCEPT ![i] = v] \in Seq(Value) /\ Len([vs EXCEPT ![i] = v]) = Len(ks)
         /\ \A j \in Key : Lookup(ks, [vs EXCEPT ![i] = v], j) =
              IF j = ks[i] THEN v ELSE Lookup(ks, vs, j)
<1> DEFINE V == [vs EXCEPT ![i] = v]
<1>1. /\ V \in Seq(Value) /\ Len(V) = Len(ks) /\ V[i] = v
      /\ \A n \in 1 .. Len(ks) : n # i => V[n] = vs[n]
  BY ExceptSeq, LenProperties
<1> HIDE DEF V
<1>2. ASSUME NEW j \in Key
      PROVE  Lookup(ks, V, j) = IF j = ks[i] THEN v ELSE Lookup(ks, vs, j)
  <2>1. CASE \E n \in 1 .. Len(ks) : ks[n] = j
    <3>1. PICK n \in 1 .. Len(ks) : ks[n] = j
      BY <2>1
    <3>2. Lookup(ks, V, j) = At(V, n) /\ Lookup(ks, vs, j) = At(vs, n)
      BY <1>1, <3>1, LookupIs
    <3>3. At(V, n) = V[n] /\ At(vs, n) = vs[n]
      BY <1>1, AtInside
    <3>4. n = i <=> j = ks[i]
      BY <3>1 DEF Distinct
    <3> QED BY <1>1, <3>2, <3>3, <3>4
  <2>2. CASE \A n \in 1 .. Len(ks) : ks[n] # j
    <3>1. Lookup(ks, V, j) = None /\ Lookup(ks, vs, j) = None
      BY <1>1, <2>2, LookupIs
    <3> QED BY <2>2, <3>1
  <2> QED BY <2>1, <2>2
<1> QED BY <1>1, <1>2 DEF V

\* The place an element had before the one at place i was taken out.
Before(i, n) == IF n < i THEN n ELSE n + 1

LEMMA Places ==
  ASSUME NEW len \in Nat, NEW i \in 1 .. len
  PROVE  /\ \A n \in 1 .. len - 1 : Before(i, n) \in 1 .. len /\ Before(i, n) # i
         /\ \A n, p \in 1 .. len - 1 : Before(i, n) = Before(i, p) => n = p
         /\ \A p \in 1 .. len : p # i => \E n \in 1 .. len - 1 : Before(i, n) = p
<1>1. \A n \in 1 .. len - 1 : Before(i, n) \in 1 .. len /\ Before(i, n) # i
  BY DEF Before
<1>2. \A n, p \in 1 .. len - 1 : Before(i, n) = Before(i, p) => n = p
  BY DEF Before
<1>3. ASSUME NEW p \in 1 .. len, p # i PROVE \E n \in 1 .. len - 1 : Before(i, n) = p
  <2>1. CASE p < i
    <3>1. p \in 1 .. len - 1 /\ Before(i, p) = p
      BY <1>3, <2>1 DEF Before
    <3> QED BY <3>1
  <2>2. CASE p > i
    <3>1. p - 1 \in 1 .. len - 1 /\ Before(i, p - 1) = p
      BY <1>3, <2>2 DEF Before
    <3> QED BY <3>1
  <2> QED BY <1>3, <2>1, <2>2
<1> QED BY <1>1, <1>2, <1>3

\* Taking a key out of its list takes out that key and no other.
LEMMA KeyRemoved ==
  ASSUME NEW ks \in Seq(Key), Distinct(ks), NEW i \in 1 .. Len(ks)
  PROVE  /\ Distinct(Dropped(ks, i))
         /\ \A j : Has(Dropped(ks, i), j) <=> (j # ks[i] /\ Has(ks, j))
<1> DEFINE K == Dropped(ks, i)
           m == Len(ks) - 1
<1>1. /\ K \in Seq(Key) /\ Len(K) = m /\ Len(ks) \in Nat
      /\ \A n \in 1 .. m : K[n] = ks[Before(i, n)]
  <2>1. /\ K \in Seq(Key) /\ Len(K) = m /\ Len(ks) \in Nat
        /\ \A n \in 1 .. m : K[n] = IF n < i THEN ks[n] ELSE ks[n + 1]
    BY Removed
  <2> QED BY <2>1 DEF Before
<1>2. /\ \A n \in 1 .. m : Before(i, n) \in 1 .. Len(ks) /\ Before(i, n) # i
      /\ \A n, p \in 1 .. m : Before(i, n) = Before(i, p) => n = p
      /\ \A p \in 1 .. Len(ks) : p # i => \E n \in 1 .. m : Before(i, n) = p
  BY <1>1, Places
<1> HIDE DEF K, m
<1>3. Distinct(K)
  <2> SUFFICES ASSUME NEW n \in 1 .. m, NEW p \in 1 .. m, K[n] = K[p] PROVE n = p
    BY <1>1 DEF Distinct
  <2>1. /\ Before(i, n) \in 1 .. Len(ks) /\ Before(i, p) \in 1 .. Len(ks)
        /\ ks[Before(i, n)] = ks[Before(i, p)]
    BY <1>1, <1>2
  <2>2. Before(i, n) = Before(i, p)
    BY <2>1 DEF Distinct
  <2> QED BY <1>2, <2>2
<1>4. ASSUME NEW j PROVE Has(K, j) <=> (j # ks[i] /\ Has(ks, j))
  <2>1. ASSUME Has(K, j) PROVE j # ks[i] /\ Has(ks, j)
    <3>1. PICK n \in 1 .. m : K[n] = j
      BY <1>1, <2>1 DEF Has
    <3>2. Before(i, n) \in 1 .. Len(ks) /\ Before(i, n) # i /\ ks[Before(i, n)] = j
      BY <1>1, <1>2, <3>1
    <3> QED BY <3>2 DEF Has, Distinct
  <2>2. ASSUME j # ks[i], Has(ks, j) PROVE Has(K, j)
    <3>1. PICK p \in 1 .. Len(ks) : ks[p] = j /\ p # i
      BY <2>2 DEF Has
    <3>2. PICK n \in 1 .. m : Before(i, n) = p
      BY <1>2, <3>1
    <3> QED BY <1>1, <3>1, <3>2 DEF Has
  <2> QED BY <2>1, <2>2
<1> QED BY <1>3, <1>4 DEF K

\* With its value taken out of the same place, the others keep theirs.
LEMMA LookupRemoved ==
  ASSUME NEW ks \in Seq(Key), Distinct(ks), NEW vs \in Seq(Value), Len(vs) = Len(ks),
         NEW i \in 1 .. Len(ks)
  PROVE  \A j \in Key : Lookup(Dropped(ks, i), Dropped(vs, i), j) =
           IF j = ks[i] THEN None ELSE Lookup(ks, vs, j)
<1> DEFINE K == Dropped(ks, i)
           V == Dropped(vs, i)
           m == Len(ks) - 1
<1>1. /\ K \in Seq(Key) /\ Len(K) = m /\ Len(ks) \in Nat
      /\ \A n \in 1 .. m : K[n] = ks[Before(i, n)]
  <2>1. /\ K \in Seq(Key) /\ Len(K) = m /\ Len(ks) \in Nat
        /\ \A n \in 1 .. m : K[n] = IF n < i THEN ks[n] ELSE ks[n + 1]
    BY Removed
  <2> QED BY <2>1 DEF Before
<1>2. /\ V \in Seq(Value) /\ Len(V) = m
      /\ \A n \in 1 .. m : V[n] = vs[Before(i, n)]
  <2>1. /\ V \in Seq(Value) /\ Len(V) = m
        /\ \A n \in 1 .. m : V[n] = IF n < i THEN vs[n] ELSE vs[n + 1]
    BY Removed
  <2> QED BY <2>1 DEF Before
<1>3. \A p \in 1 .. Len(ks) : p # i => \E n \in 1 .. m : Before(i, n) = p
  BY <1>1, Places
<1>4. Distinct(K) /\ \A j : Has(K, j) <=> (j # ks[i] /\ Has(ks, j))
  BY KeyRemoved
<1> HIDE DEF K, V, m
<1>5. K \in Seq(Key) /\ V \in Seq(Value) /\ Len(V) = Len(K) /\ Distinct(K)
  BY <1>1, <1>2, <1>4
<1>6. ASSUME NEW j \in Key
      PROVE  Lookup(K, V, j) = IF j = ks[i] THEN None ELSE Lookup(ks, vs, j)
  <2>1. CASE j = ks[i]
    <3>1. ~Has(K, j)
      BY <1>4, <2>1
    <3> QED BY <1>5, <2>1, <3>1, LookupIs DEF Has
  <2>2. CASE j # ks[i] /\ Has(ks, j)
    <3>1. PICK p \in 1 .. Len(ks) : ks[p] = j /\ p # i
      BY <2>2 DEF Has
    <3>2. PICK n \in 1 .. m : Before(i, n) = p
      BY <1>3, <3>1
    <3>3. n \in 1 .. Len(K) /\ K[n] = j /\ V[n] = vs[p]
      BY <1>1, <1>2, <3>1, <3>2
    <3>4. Lookup(K, V, j) = At(V, n) /\ Lookup(ks, vs, j) = At(vs, p)
      BY <1>5, <3>1, <3>3, LookupIs
    <3>5. At(V, n) = V[n] /\ At(vs, p) = vs[p]
      BY <1>5, <3>3, AtInside
    <3> QED BY <2>2, <3>3, <3>4, <3>5
  <2>3. CASE j # ks[i] /\ ~Has(ks, j)
    <3>1. ~Has(K, j)
      BY <1>4, <2>3
    <3>2. Lookup(K, V, j) = None /\ Lookup(ks, vs, j) = None
      BY <1>5, <2>3, <3>1, LookupIs DEF Has
    <3> QED BY <2>3, <3>2
  <2> QED BY <2>1, <2>2, <2>3
<1> QED BY <1>6 DEF K, V

-----------------------------------------------------------------------------
(* The inductive invariant *)

\* A key is in the bucket of its hash, and there once.
Placed ==
  \A b \in Bucket : /\ Distinct(keys[b])
                    /\ \A k \in Key : Has(keys[b], k) => Ind(k) = b

\* The keys in the map; each was counted once when it came, and one that
\* malloc() failed for was counted, too.
Listed == {k \in Key : Has(keys[Ind(k)], k)}

Counted ==
  /\ IsFiniteSet(Listed)
  /\ Cardinality(Listed) <= count
  /\ ~MallocFails => Cardinality(Listed) = count

\* The iterator has not passed the end of a bucket that was not changed.
Reached ==
  \A b \in Bucket \ touched : b = buckiter => listiter <= Len(keys[b])

IInv == TypeOK /\ Placed /\ Counted /\ IterationVisitsUntouched /\ Reached

LEMMA IndType == ASSUME NEW k \in Key PROVE Ind(k) \in Bucket
BY DEF Ind, Bucket

\* ptrlist_findeqfn() finds the keys that are listed.
LEMMA FindIs ==
  ASSUME IInv, NEW k \in Key
  PROVE  /\ Find(k) = 0 <=> k \notin Listed
         /\ k \in Listed => /\ Find(k) \in 1 .. Len(keys[Ind(k)])
                            /\ keys[Ind(k)][Find(k)] = k
<1>1. Ind(k) \in Bucket /\ keys[Ind(k)] \in Seq(Key) /\ Distinct(keys[Ind(k)])
  BY IndType DEF IInv, TypeOK, Placed
<1>2. Find(k) = Place(keys[Ind(k)], k)
  BY DEF Find, Place
<1>3. CASE k \in Listed
  <2>1. PICK i \in 1 .. Len(keys[Ind(k)]) : keys[Ind(k)][i] = k
    BY <1>3 DEF Listed, Has
  <2>2. Find(k) = i
    BY <1>1, <1>2, <2>1, PlaceIs
  <2>3. i # 0
    BY <1>1, LenProperties
  <2> QED BY <1>3, <2>1, <2>2, <2>3
<1>4. CASE k \notin Listed
  <2>1. \A i \in 1 .. Len(keys[Ind(k)]) : keys[Ind(k)][i] # k
    BY <1>4 DEF Listed, Has
  <2> QED BY <1>1, <1>2, <1>4, <2>1, PlaceIs
<1> QED BY <1>3, <1>4

\* A new list for one bucket.
LEMMA ListChanged ==
  ASSUME IInv, NEW b \in Bucket, NEW K \in Seq(Key), keys' = [keys EXCEPT ![b] = K],
         Distinct(K), \A k \in Key : Has(K, k) => Ind(k) = b
  PROVE  /\ keys' \in [Bucket -> Seq(Key)]
         /\ Placed'
         /\ \A c \in Bucket : c # b => keys'[c] = keys[c]
         /\ keys'[b] = K
         /\ \A k \in Key : k \in Listed' <=> IF Ind(k) = b THEN Has(K, k) ELSE k \in Listed
<1>1. /\ keys' \in [Bucket -> Seq(Key)]
      /\ \A c \in Bucket : c # b => keys'[c] = keys[c]
      /\ keys'[b] = K
  BY DEF IInv, TypeOK
<1>2. Placed'
  <2> SUFFICES ASSUME NEW c \in Bucket
               PROVE  /\ Distinct(keys'[c])
                      /\ \A k \in Key : Has(keys'[c], k) => Ind(k) = c
    BY DEF Placed, Ind, Bucket
  <2>1. CASE c = b
    BY <1>1, <2>1
  <2>2. CASE c # b
    <3>1. keys'[c] = keys[c]
      BY <1>1, <2>2
    <3> QED BY <3>1 DEF IInv, Placed
  <2> QED BY <2>1, <2>2
<1>3. ASSUME NEW k \in Key
      PROVE  k \in Listed' <=> IF Ind(k) = b THEN Has(K, k) ELSE k \in Listed
  <2>1. k \in Listed' <=> Has(keys'[Ind(k)], k)
    BY DEF Listed, Ind
  <2>2. CASE Ind(k) = b
    BY <1>1, <2>1, <2>2
  <2>3. CASE Ind(k) # b
    <3>1. keys'[Ind(k)] = keys[Ind(k)]
      BY <1>1, <2>3, IndType
    <3>2. k \in Listed <=> Has(keys[Ind(k)], k)
      BY DEF Listed
    <3> QED BY <2>1, <2>3, <3>1, <3>2
  <2> QED BY <2>2, <2>3
<1> QED BY <1>1, <1>2, <1>3

\* A change of the map leaves what the iteration has shown of the buckets it
\* did not touch.
LEMMA VisitsKept ==
  ASSUME IInv, TypeOK', UNCHANGED <<buckiter, listiter, seen>>,
         \A c \in Bucket \ touched' : c \notin touched /\ keys'[c] = keys[c]
  PROVE  IterationVisitsUntouched' /\ Reached'
<1>1. ASSUME NEW c \in Bucket \ touched'
      PROVE  /\ seen'[c] = CASE c < buckiter' -> keys'[c]
                             [] c = buckiter' -> SubSeq(keys'[c], 1, listiter')
                             [] c > buckiter' -> <<>>
             /\ c = buckiter' => listiter' <= Len(keys'[c])
  <2>1. c \in Bucket \ touched /\ keys'[c] = keys[c]
    BY <1>1
  <2>2. seen[c] = CASE c < buckiter -> keys[c]
                    [] c = buckiter -> SubSeq(keys[c], 1, listiter)
                    [] c > buckiter -> <<>>
    BY <2>1 DEF IInv, IterationVisitsUntouched
  <2>3. c = buckiter => listiter <= Len(keys[c])
    BY <2>1 DEF IInv, Reached
  <2> QED BY <2>1, <2>2, <2>3
<1>2. IterationVisitsUntouched'
  BY <1>1 DEF IterationVisitsUntouched, Bucket
<1>3. Reached'
  BY <1>1 DEF Reached, Bucket
<1> QED BY <1>2, <1>3

LEMMA InitKeeps == Init => IInv
<1> SUFFICES ASSUME Init PROVE IInv
  OBVIOUS
<1>1. TypeOK
  BY EmptySeq DEF Init, TypeOK, NothingSeen, Bucket
<1>2. \A b \in Bucket : \A k : ~Has(keys[b], k)
  BY EmptySeq DEF Init, Has
<1>3. Placed
  BY <1>2 DEF Init, Placed, Distinct, Has
<1>4. Counted
  <2>1. Listed = {}
    BY <1>2, IndType DEF Listed
  <2> QED BY <2>1, FS_EmptySet DEF Init, Counted
<1>5. IterationVisitsUntouched /\ Reached
  BY <1>1 DEF Init, IterationVisitsUntouched, Reached
<1> QED BY <1>1, <1>3, <1>4, <1>5 DEF IInv

\* hmap_put() of a key that is not there, whichever insertion fails.
LEMMA PutNewKeeps ==
  ASSUME IInv, NEW k \in Key, NEW v \in Value,
         NEW keyok \in {TRUE, ~MallocFails}, NEW valok \in {TRUE, ~MallocFails},
         Put(k, v, keyok, valok), Find(k) = 0
  PROVE  IInv'
<1> DEFINE b == Ind(k)
<1>1. /\ b \in Bucket /\ k \notin Listed
      /\ keys[b] \in Seq(Key) /\ vals[b] \in Seq(Value)
      /\ Distinct(keys[b]) /\ \A j \in Key : Has(keys[b], j) => Ind(j) = b
  BY IndType, FindIs DEF IInv, TypeOK, Placed
<1>2. /\ keys' = IF keyok THEN [keys EXCEPT ![b] = <<k>> \o keys[b]] ELSE keys
      /\ vals' = IF valok THEN [vals EXCEPT ![b] = <<v>> \o vals[b]] ELSE vals
      /\ count' = count + 1
      /\ touched' = touched \cup {b}
      /\ latest' = [latest EXCEPT ![k] = v]
      /\ UNCHANGED <<iterating, buckiter, listiter, out, seen>>
  BY <1>1 DEF Put, PutNew, iterator, IInv, TypeOK
<1>3. ~Has(keys[b], k)
  BY <1>1 DEF Listed
<1>4. ASSUME keyok PROVE keys' \in [Bucket -> Seq(Key)] /\ Placed' /\ Counted'
  <2> DEFINE K == <<k>> \o keys[b]
  <2>1. /\ K \in Seq(Key) /\ Distinct(K)
        /\ \A j : Has(K, j) <=> (j = k \/ Has(keys[b], j))
    BY <1>1, <1>3, InFront, KeyInFront
  <2>2. keys' = [keys EXCEPT ![b] = K]
    BY <1>2, <1>4
  <2> HIDE DEF K
  <2>3. \A j \in Key : Has(K, j) => Ind(j) = b
    BY <1>1, <2>1
  <2>4. /\ keys' \in [Bucket -> Seq(Key)] /\ Placed'
        /\ \A c \in Bucket : c # b => keys'[c] = keys[c]
        /\ \A j \in Key : j \in Listed' <=> IF Ind(j) = b THEN Has(K, j) ELSE j \in Listed
    BY <1>1, <2>1, <2>2, <2>3, ListChanged
  <2>5. Listed' = Listed \cup {k}
    <3>1. \A j \in Key : Ind(j) = b => (j \in Listed <=> Has(keys[b], j))
      BY DEF Listed
    <3>2. \A j \in Key : j \in Listed' <=> (j = k \/ j \in Listed)
      BY <2>1, <2>4, <3>1
    <3>3. Listed' \subseteq Key /\ Listed \subseteq Key
      BY DEF Listed
    <3> QED BY <3>2, <3>3
  <2>6. IsFiniteSet(Listed) /\ Cardinality(Listed) <= count
        /\ (~MallocFails => Cardinality(Listed) = count) /\ count \in Nat
    BY DEF IInv, Counted, TypeOK
  <2>7. IsFiniteSet(Listed') /\ Cardinality(Listed') = Cardinality(Listed) + 1
    BY <1>1, <2>5, <2>6, FS_AddElement
  <2>8. Counted'
    BY <1>2, <2>6, <2>7, FS_CardinalityType DEF Counted
  <2> QED BY <2>4, <2>8
<1>5. ASSUME ~keyok PROVE keys' \in [Bucket -> Seq(Key)] /\ Placed' /\ Counted'
  <2>1. MallocFails /\ keys' = keys
    BY <1>2, <1>5
  <2>2. Listed' = Listed /\ Placed' /\ keys' \in [Bucket -> Seq(Key)]
    BY <2>1 DEF IInv, TypeOK, Placed, Listed, Ind, Bucket
  <2>3. Counted'
    BY <1>2, <2>1, <2>2, FS_CardinalityType DEF IInv, TypeOK, Counted
  <2> QED BY <2>1, <2>2, <2>3
<1>6. TypeOK' /\ Placed' /\ Counted' /\ \A c \in Bucket : c # b => keys'[c] = keys[c]
  <2>1. keys' \in [Bucket -> Seq(Key)] /\ Placed' /\ Counted'
    BY <1>4, <1>5
  <2>2. vals' \in [Bucket -> Seq(Value)]
    <3>1. <<v>> \o vals[b] \in Seq(Value)
      BY <1>1, InFront
    <3> QED BY <1>2, <3>1 DEF IInv, TypeOK
  <2>3. TypeOK'
    <3>1. count' \in Nat /\ touched' \subseteq Bucket /\ latest' \in [Key -> Value \cup {None}]
      BY <1>1, <1>2 DEF IInv, TypeOK
    <3>2. /\ iterating' \in BOOLEAN /\ buckiter' \in 0 .. Buckets
          /\ iterating' => buckiter' \in Bucket
          /\ listiter' \in Nat /\ out' \in (Key \cup {None}) \X (Value \cup {None})
          /\ seen' \in [Bucket -> Seq(Key)]
      BY <1>2 DEF IInv, TypeOK
    <3> QED BY <2>1, <2>2, <3>1, <3>2 DEF TypeOK, Bucket
  <2>4. \A c \in Bucket : c # b => keys'[c] = keys[c]
    BY <1>2 DEF IInv, TypeOK
  <2> QED BY <2>1, <2>3, <2>4
<1>7. \A c \in Bucket \ touched' : c \notin touched /\ keys'[c] = keys[c]
  BY <1>2, <1>6
<1>8. UNCHANGED <<buckiter, listiter, seen>>
  BY <1>2
<1> QED BY <1>6, <1>7, <1>8, VisitsKept DEF IInv

\* hmap_put() of a key that is there replaces its value.
LEMMA PutOldKeeps ==
  ASSUME IInv, NEW k \in Key, NEW v \in Value, NEW keyok, NEW valok,
         Put(k, v, keyok, valok), Find(k) # 0
  PROVE  IInv'
<1> DEFINE b == Ind(k)
           i == Find(k)
<1>1. b \in Bucket /\ vals[b] \in Seq(Value)
  BY IndType DEF IInv, TypeOK
<1>2. /\ vals' = IF i \in DOMAIN vals[b] THEN [vals EXCEPT ![b][i] = v] ELSE vals
      /\ latest' = [latest EXCEPT ![k] = v]
      /\ UNCHANGED <<keys, count, touched, iterating, buckiter, listiter, out, seen>>
  BY DEF Put, iterator
<1>3. vals' \in [Bucket -> Seq(Value)]
  <2>1. CASE i \in DOMAIN vals[b]
    <3>1. i \in 1 .. Len(vals[b])
      BY <1>1, <2>1, LenProperties
    <3>2. [vals[b] EXCEPT ![i] = v] \in Seq(Value)
      BY <1>1, <3>1, ExceptSeq
    <3>3. vals' = [vals EXCEPT ![b] = [vals[b] EXCEPT ![i] = v]]
      BY <1>2, <2>1
    <3> QED BY <1>1, <3>2, <3>3 DEF IInv, TypeOK
  <2>2. CASE i \notin DOMAIN vals[b]
    BY <1>2, <2>2 DEF IInv, TypeOK
  <2> QED BY <2>1, <2>2
<1>4. TypeOK'
  BY <1>2, <1>3 DEF IInv, TypeOK, Bucket
<1>5. Placed' /\ Counted'
  BY <1>2 DEF IInv, Placed, Counted, Listed, Ind, Bucket
<1>6. \A c \in Bucket \ touched' : c \notin touched /\ keys'[c] = keys[c]
  BY <1>2
<1> QED BY <1>2, <1>4, <1>5, <1>6, VisitsKept DEF IInv

LEMMA DelKeeps ==
  ASSUME IInv, NEW k \in Key, Del(k)
  PROVE  IInv'
<1> DEFINE b == Ind(k)
           i == Find(k)
           K == Dropped(keys[b], i)
<1>1. /\ keys' = [keys EXCEPT ![b] = K]
      /\ vals' = [vals EXCEPT ![b] = Dropped(vals[b], i)]
      /\ count' = count - 1
      /\ touched' = touched \cup {b}
      /\ latest' = [latest EXCEPT ![k] = None]
      /\ UNCHANGED <<iterating, buckiter, listiter, out, seen>>
  BY IndType DEF Del, iterator, IInv, TypeOK
<1>2. /\ b \in Bucket /\ keys[b] \in Seq(Key) /\ vals[b] \in Seq(Value)
      /\ Distinct(keys[b]) /\ \A j \in Key : Has(keys[b], j) => Ind(j) = b
  BY IndType DEF IInv, TypeOK, Placed
<1>3. k \in Listed /\ i \in 1 .. Len(keys[b]) /\ keys[b][i] = k
  BY FindIs DEF Del
<1>4. /\ K \in Seq(Key) /\ Distinct(K)
      /\ \A j : Has(K, j) <=> (j # k /\ Has(keys[b], j))
  <2>1. K \in Seq(Key)
    BY <1>2, <1>3, Removed
  <2>2. /\ Distinct(K)
        /\ \A j : Has(K, j) <=> (j # keys[b][i] /\ Has(keys[b], j))
    <3> HIDE DEF b, i
    <3> QED BY <1>2, <1>3, KeyRemoved
  <2> HIDE DEF K
  <2> QED BY <1>3, <2>1, <2>2
<1>5. Dropped(vals[b], i) \in Seq(Value)
  <2>1. CASE i \in DOMAIN vals[b]
    <3>1. i \in 1 .. Len(vals[b])
      BY <1>2, <2>1, LenProperties
    <3> QED BY <1>2, <3>1, Removed
  <2>2. CASE i \notin DOMAIN vals[b]
    BY <1>2, <2>2 DEF Dropped
  <2> QED BY <2>1, <2>2
<1> HIDE DEF K, i
<1>6. \A j \in Key : Has(K, j) => Ind(j) = b
  BY <1>2, <1>4
<1>7. /\ keys' \in [Bucket -> Seq(Key)] /\ Placed'
      /\ \A c \in Bucket : c # b => keys'[c] = keys[c]
      /\ \A j \in Key : j \in Listed' <=> IF Ind(j) = b THEN Has(K, j) ELSE j \in Listed
  BY <1>1, <1>2, <1>4, <1>6, ListChanged
<1>8. Listed' = Listed \ {k}
  <2>1. \A j \in Key : Ind(j) = b => (j \in Listed <=> Has(keys[b], j))
    BY DEF Listed
  <2>2. \A j \in Key : j \in Listed' <=> (j # k /\ j \in Listed)
    BY <1>4, <1>7, <2>1
  <2>3. Listed' \subseteq Key /\ Listed \subseteq Key
    BY DEF Listed
  <2> QED BY <2>2, <2>3
<1>9. IsFiniteSet(Listed') /\ Cardinality(Listed') = Cardinality(Listed) - 1
      /\ Cardinality(Listed) \in Nat /\ Cardinality(Listed') \in Nat
  <2>1. IsFiniteSet(Listed)
    BY DEF IInv, Counted
  <2> QED BY <1>3, <1>8, <2>1, FS_RemoveElement, FS_CardinalityType
<1>10. count' \in Nat /\ Counted'
  <2>1. /\ Cardinality(Listed) <= count /\ count \in Nat
        /\ ~MallocFails => Cardinality(Listed) = count
    BY DEF IInv, Counted, TypeOK
  <2> QED BY <1>1, <1>9, <2>1 DEF Counted
<1>11. TypeOK'
  <2>1. vals' \in [Bucket -> Seq(Value)]
    BY <1>1, <1>5 DEF IInv, TypeOK
  <2> QED BY <1>1, <1>2, <1>7, <1>10, <2>1 DEF IInv, TypeOK, Bucket
<1>12. \A c \in Bucket \ touched' : c \notin touched /\ keys'[c] = keys[c]
  BY <1>1, <1>7
<1> QED BY <1>1, <1>7, <1>10, <1>11, <1>12, VisitsKept DEF IInv

LEMMA ClearKeeps ==
  ASSUME IInv, Clear
  PROVE  IInv'
<1>1. /\ keys' = [b \in Bucket |-> <<>>] /\ vals' = [b \in Bucket |-> <<>>]
      /\ count' = 0
      /\ touched' = touched \cup {b \in Bucket : keys[b] # <<>>}
      /\ latest' = [k \in Key |-> None]
      /\ UNCHANGED <<iterating, buckiter, listiter, out, seen>>
  BY DEF Clear, iterator
<1>2. TypeOK'
  BY <1>1, EmptySeq DEF IInv, TypeOK, Bucket
<1>3. \A b \in Bucket : \A k : ~Has(keys'[b], k)
  BY <1>1, EmptySeq DEF Has
<1>4. Placed'
  BY <1>1, <1>3 DEF Placed, Distinct, Has, Bucket
<1>5. Counted'
  <2>1. Listed' = {}
    BY <1>3, IndType DEF Listed, Ind
  <2> QED BY <1>1, <2>1, FS_EmptySet DEF Counted
<1>6. \A c \in Bucket \ touched' : c \notin touched /\ keys'[c] = keys[c]
  BY <1>1
<1> QED BY <1>1, <1>2, <1>4, <1>5, <1>6, VisitsKept DEF IInv

-----------------------------------------------------------------------------
(* Iteration *)

LEMMA NonEmptyFromIs ==
  ASSUME NEW from \in 0 .. Buckets
  PROVE  /\ NonEmptyFrom(from) \in from .. Buckets
         /\ NonEmptyFrom(from) = Buckets \/ keys[NonEmptyFrom(from)] # <<>>
         /\ \A c \in from .. NonEmptyFrom(from) - 1 : keys[c] = <<>>
<1> DEFINE S == {b \in from .. Buckets : b = Buckets \/ keys[b] # <<>>}
<1>1. S \in SUBSET Nat /\ Buckets \in S
  OBVIOUS
<1>2. PICK b \in S : \A c \in S : b <= c
  BY <1>1, Least
<1>3. b \in from .. Buckets /\ (b = Buckets \/ keys[b] # <<>>)
  BY <1>2
<1>4. ASSUME NEW c \in from .. b - 1 PROVE keys[c] = <<>>
  <2>1. c \in from .. Buckets /\ c < b
    BY <1>3
  <2> QED BY <1>2, <2>1
<1>5. \E d \in from .. Buckets :
        /\ d = Buckets \/ keys[d] # <<>>
        /\ \A c \in from .. d - 1 : keys[c] = <<>>
  BY <1>3, <1>4
<1> QED BY <1>5 DEF NonEmptyFrom

LEMMA OneMore ==
  ASSUME NEW S, NEW s \in Seq(S), NEW n \in Nat, n + 1 \in 1 .. Len(s)
  PROVE  SubSeq(s, 1, n + 1) = Append(SubSeq(s, 1, n), s[n + 1])
<1>1. Len(s) \in Nat /\ \A i \in 1 .. Len(s) : s[i] \in S
  BY LenProperties, ElementOfSeq
<1> DEFINE a == SubSeq(s, 1, n)
           b == SubSeq(s, 1, n + 1)
<1>2. a \in Seq(S) /\ Len(a) = n /\ \A i \in 1 .. n : a[i] = s[i]
  <2>1. 1 \in Int /\ n \in Int /\ \A i \in 1 .. n : s[i] \in S
    BY <1>1
  <2>2. /\ a \in Seq(S)
        /\ Len(a) = IF 1 <= n THEN n - 1 + 1 ELSE 0
        /\ \A i \in 1 .. n - 1 + 1 : a[i] = s[1 + i - 1]
    BY <2>1, SubSeqProperties
  <2> HIDE DEF a
  <2> QED BY <2>2
<1>3. b \in Seq(S) /\ Len(b) = n + 1 /\ \A i \in 1 .. n + 1 : b[i] = s[i]
  <2>1. 1 \in Int /\ n + 1 \in Int /\ \A i \in 1 .. n + 1 : s[i] \in S
    BY <1>1
  <2>2. /\ b \in Seq(S)
        /\ Len(b) = IF 1 <= n + 1 THEN (n + 1) - 1 + 1 ELSE 0
        /\ \A i \in 1 .. (n + 1) - 1 + 1 : b[i] = s[1 + i - 1]
    BY <2>1, SubSeqProperties
  <2> HIDE DEF b
  <2> QED BY <2>2
<1> HIDE DEF a, b
<1>4. /\ Append(a, s[n + 1]) \in Seq(S) /\ Len(Append(a, s[n + 1])) = n + 1
      /\ \A i \in 1 .. n : Append(a, s[n + 1])[i] = a[i]
      /\ Append(a, s[n + 1])[n + 1] = s[n + 1]
  <2>1. s[n + 1] \in S
    BY <1>1
  <2> QED BY <1>2, <2>1, AppendProperties
<1>5. ASSUME NEW i \in 1 .. n + 1 PROVE b[i] = Append(a, s[n + 1])[i]
  <2>1. i = n + 1 \/ i \in 1 .. n
    OBVIOUS
  <2> QED BY <1>2, <1>3, <1>4, <2>1
<1>6. b = Append(a, s[n + 1])
  BY <1>3, <1>4, <1>5, SeqEqual
<1> QED BY <1>6 DEF a, b

LEMMA FirstOf ==
  ASSUME NEW S, NEW s \in Seq(S), s # <<>>
  PROVE  1 \in 1 .. Len(s) /\ SubSeq(s, 1, 1) = Append(<<>>, s[1])
<1>1. Len(s) \in Nat \ {0}
  BY EmptySeq
<1>2. 0 \in Nat /\ 0 + 1 = 1 /\ 1 \in 1 .. Len(s)
  BY <1>1
<1>3. SubSeq(s, 1, 0 + 1) = Append(SubSeq(s, 1, 0), s[0 + 1])
  BY <1>2, OneMore
<1>4. SubSeq(s, 1, 0) = <<>>
  BY SubSeqEmpty
<1> QED BY <1>2, <1>3, <1>4

\* The pair at a place of a bucket's lists is returned: the key is one of that
\* bucket's, so the iteration has seen one more of this bucket and no other.
LEMMA ReturnIs ==
  ASSUME IInv, NEW b \in Bucket, NEW i \in 1 .. Len(keys[b]),
         NEW before \in [Bucket -> Seq(Key)], Return(b, i, before)
  PROVE  /\ buckiter' = b /\ iterating' = TRUE
         /\ out' = <<keys[b][i], At(vals[b], i)>>
         /\ out' \in (Key \cup {None}) \X (Value \cup {None})
         /\ seen' = [before EXCEPT ![b] = Append(before[b], keys[b][i])]
         /\ seen' \in [Bucket -> Seq(Key)]
<1>1. keys[b] \in Seq(Key) /\ vals[b] \in Seq(Value)
  BY DEF IInv, TypeOK
<1>2. At(keys[b], i) = keys[b][i] /\ keys[b][i] \in Key
  BY <1>1, AtInside
<1>3. Ind(keys[b][i]) = b
  <2>1. Has(keys[b], keys[b][i])
    BY DEF Has
  <2> QED BY <1>2, <2>1 DEF IInv, Placed
<1>4. b # Buckets
  BY DEF Bucket
<1>5. At(vals[b], i) \in Value \cup {None}
  <2>1. CASE i \in DOMAIN vals[b]
    <3>1. i \in 1 .. Len(vals[b])
      BY <1>1, <2>1, LenProperties
    <3> QED BY <1>1, <3>1, AtInside
  <2>2. CASE i \notin DOMAIN vals[b]
    BY <2>2 DEF At
  <2> QED BY <2>1, <2>2
<1>6. /\ buckiter' = b /\ iterating' = TRUE
      /\ out' = <<keys[b][i], At(vals[b], i)>>
      /\ seen' = [before EXCEPT ![b] = Append(before[b], keys[b][i])]
  BY <1>2, <1>3, <1>4 DEF Return
<1>7. Append(before[b], keys[b][i]) \in Seq(Key)
  BY <1>2, AppendProperties
<1> QED BY <1>2, <1>5, <1>6, <1>7

\* Going on to the next bucket that has a key, if any.
LEMMA NextBucket ==
  ASSUME IInv, UNCHANGED <<table, latest>>, touched' \subseteq Bucket,
         NEW from \in 0 .. Buckets, NEW before \in [Bucket -> Seq(Key)], NEW n \in Nat,
         \A c \in Bucket \ touched' : before[c] = IF c < from THEN keys[c] ELSE <<>>,
         Return(NonEmptyFrom(from), 1, before),
         listiter' = IF NonEmptyFrom(from) = Buckets THEN n ELSE 1
  PROVE  IInv'
<1> DEFINE b == NonEmptyFrom(from)
<1>1. /\ b \in from .. Buckets
      /\ b = Buckets \/ keys[b] # <<>>
      /\ \A c \in from .. b - 1 : keys[c] = <<>>
  BY NonEmptyFromIs
<1>2. /\ Return(b, 1, before) /\ listiter' = IF b = Buckets THEN n ELSE 1
  OBVIOUS
<1> HIDE DEF b
<1>3. keys' = keys /\ vals' = vals /\ count' = count /\ latest' = latest
  BY DEF table
<1>4. Placed' /\ Counted'
  BY <1>3 DEF IInv, Placed, Counted, Listed, Ind, Bucket
<1>5. ASSUME /\ buckiter' = b /\ listiter' \in Nat /\ iterating' \in BOOLEAN
             /\ iterating' => buckiter' \in Bucket
             /\ out' \in (Key \cup {None}) \X (Value \cup {None})
             /\ seen' \in [Bucket -> Seq(Key)]
      PROVE  TypeOK'
  <2>1. buckiter' \in 0 .. Buckets
    BY <1>1, <1>5
  <2> QED BY <1>3, <1>5, <2>1 DEF IInv, TypeOK, Bucket
<1>6. CASE b = Buckets
  <2>1. /\ buckiter' = b /\ listiter' = n /\ iterating' = FALSE
        /\ out' = <<None, None>> /\ seen' = before
    BY <1>2, <1>6 DEF Return
  <2>2. TypeOK'
    BY <1>5, <2>1
  <2>3. ASSUME NEW c \in Bucket \ touched'
        PROVE  c < buckiter' /\ seen'[c] = keys'[c]
    <3>1. c < b
      BY <1>6 DEF Bucket
    <3>2. CASE c < from
      BY <1>3, <2>1, <3>1, <3>2
    <3>3. CASE ~(c < from)
      <4>1. c \in from .. b - 1
        BY <1>1, <3>1, <3>3 DEF Bucket
      <4> QED BY <1>1, <1>3, <2>1, <3>1, <3>3, <4>1
    <3> QED BY <3>2, <3>3
  <2>4. \A c \in Bucket : c < buckiter' => c # buckiter' /\ ~(c > buckiter')
    BY <1>1, <2>1 DEF Bucket
  <2>5. IterationVisitsUntouched'
    BY <2>2, <2>3, <2>4 DEF IterationVisitsUntouched, Bucket
  <2>6. Reached'
    BY <2>3, <2>4 DEF Reached, Bucket
  <2> QED BY <1>4, <2>2, <2>5, <2>6 DEF IInv
<1>7. CASE b # Buckets
  <2>1. b \in Bucket /\ keys[b] # <<>>
    BY <1>1, <1>7 DEF Bucket
  <2>2. keys[b] \in Seq(Key)
    BY <2>1 DEF IInv, TypeOK
  <2>3. 1 \in 1 .. Len(keys[b]) /\ SubSeq(keys[b], 1, 1) = Append(<<>>, keys[b][1])
    BY <2>1, <2>2, FirstOf
  <2>4. /\ buckiter' = b /\ iterating' = TRUE
        /\ out' \in (Key \cup {None}) \X (Value \cup {None})
        /\ seen' = [before EXCEPT ![b] = Append(before[b], keys[b][1])]
        /\ seen' \in [Bucket -> Seq(Key)]
    BY <1>2, <2>1, <2>3, ReturnIs
  <2>5. listiter' = 1
    BY <1>2, <1>7
  <2>6. TypeOK'
    BY <1>5, <2>1, <2>4, <2>5
  <2>7. ASSUME NEW c \in Bucket \ touched'
        PROVE  /\ c < b => seen'[c] = keys[c]
               /\ c = b => seen'[c] = SubSeq(keys[c], 1, 1)
               /\ c > b => seen'[c] = <<>>
    <3>1. CASE c < b
      <4>1. c # b /\ ~(c > b)
        BY <1>1, <3>1 DEF Bucket
      <4>2. seen'[c] = before[c]
        BY <2>4, <4>1
      <4>3. CASE c < from
        BY <4>1, <4>2, <4>3
      <4>4. CASE ~(c < from)
        <5>1. c \in from .. b - 1
          BY <1>1, <3>1, <4>4 DEF Bucket
        <5> QED BY <1>1, <4>1, <4>2, <4>4, <5>1
      <4> QED BY <4>3, <4>4
    <3>2. CASE c = b
      <4>1. ~(c < from) /\ ~(c < b) /\ ~(c > b)
        BY <1>1, <3>2 DEF Bucket
      <4>2. seen'[c] = Append(before[c], keys[c][1]) /\ before[c] = <<>>
        BY <2>4, <3>2, <4>1
      <4> QED BY <2>3, <3>2, <4>1, <4>2
    <3>3. CASE c > b
      <4>1. ~(c < from) /\ ~(c < b) /\ c # b
        BY <1>1, <3>3 DEF Bucket
      <4> QED BY <2>4, <4>1
    <3>4. c < b \/ c = b \/ c > b
      BY <2>1 DEF Bucket
    <3> QED BY <3>1, <3>2, <3>3, <3>4
  <2>8. ASSUME NEW c \in Bucket \ touched'
        PROVE  seen'[c] = CASE c < b -> keys[c]
                            [] c = b -> SubSeq(keys[c], 1, 1)
                            [] c > b -> <<>>
    <3>1. c \in Int /\ b \in Int
      BY <2>1 DEF Bucket
    <3>2. CASE c < b
      BY <2>7, <3>1, <3>2
    <3>3. CASE c = b
      BY <2>7, <3>1, <3>3
    <3>4. CASE c > b
      BY <2>7, <3>1, <3>4
    <3> QED BY <3>1, <3>2, <3>3, <3>4
  <2>9. IterationVisitsUntouched'
    BY <1>3, <2>4, <2>5, <2>6, <2>8 DEF IterationVisitsUntouched, Bucket
  <2>10. Reached'
    <3> SUFFICES ASSUME NEW c \in Bucket \ touched', c = b
                 PROVE  1 <= Len(keys[c])
      BY <1>3, <2>4, <2>5 DEF Reached, Bucket
    <3> QED BY <2>2, <2>3, LenProperties
  <2> QED BY <1>4, <2>6, <2>9, <2>10 DEF IInv
<1> QED BY <1>6, <1>7

LEMMA FirstKeeps == ASSUME IInv, First PROVE IInv'
<1>1. /\ Return(NonEmptyFrom(0), 1, NothingSeen)
      /\ listiter' = IF NonEmptyFrom(0) = Buckets THEN listiter ELSE 1
      /\ touched' = {} /\ UNCHANGED <<table, latest>>
  BY DEF First
<1>2. NothingSeen \in [Bucket -> Seq(Key)] /\ \A c \in Bucket : NothingSeen[c] = <<>>
  BY EmptySeq DEF NothingSeen
<1>3. \A c \in Bucket \ touched' : NothingSeen[c] = IF c < 0 THEN keys[c] ELSE <<>>
  BY <1>2 DEF Bucket
<1>4. 0 \in 0 .. Buckets /\ listiter \in Nat /\ touched' \subseteq Bucket
  BY <1>1 DEF IInv, TypeOK
<1> QED BY <1>1, <1>2, <1>3, <1>4, NextBucket

LEMMA NextElemKeeps == ASSUME IInv, NextElem PROVE IInv'
<1>1. /\ buckiter \in Bucket /\ listiter \in Nat /\ keys[buckiter] \in Seq(Key)
      /\ seen \in [Bucket -> Seq(Key)] /\ touched \subseteq Bucket
  BY DEF NextElem, IInv, TypeOK
<1>2. touched' = touched /\ keys' = keys /\ vals' = vals /\ count' = count
      /\ latest' = latest
  BY DEF NextElem, table
<1>3. Len(keys[buckiter]) \in Nat /\ DOMAIN keys[buckiter] = 1 .. Len(keys[buckiter])
  BY <1>1, LenProperties
<1>4. ASSUME NEW c \in Bucket \ touched
      PROVE  /\ c < buckiter => seen[c] = keys[c]
             /\ c = buckiter => seen[c] = SubSeq(keys[c], 1, listiter)
             /\ c > buckiter => seen[c] = <<>>
             /\ c = buckiter => listiter <= Len(keys[c])
  <2>1. c \in Int /\ buckiter \in Int
    BY <1>1 DEF Bucket
  <2>2. seen[c] = CASE c < buckiter -> keys[c]
                    [] c = buckiter -> SubSeq(keys[c], 1, listiter)
                    [] c > buckiter -> <<>>
    BY DEF IInv, IterationVisitsUntouched
  <2>3. c = buckiter => listiter <= Len(keys[c])
    BY DEF IInv, Reached
  <2>4. CASE c < buckiter
    BY <2>1, <2>2, <2>4
  <2>5. CASE c = buckiter
    <3>1. ~(c < buckiter) /\ ~(c > buckiter)
      BY <2>1, <2>5
    <3>2. seen[c] = SubSeq(keys[c], 1, listiter)
      BY <2>2, <2>5, <3>1
    <3> QED BY <2>3, <2>5, <3>1, <3>2
  <2>6. CASE c > buckiter
    BY <2>1, <2>2, <2>6
  <2> QED BY <2>1, <2>4, <2>5, <2>6
<1>5. CASE ListDone
  <2>1. /\ Return(NonEmptyFrom(buckiter + 1), 0 + 1, seen)
        /\ listiter' = IF NonEmptyFrom(buckiter + 1) = Buckets THEN 0 ELSE 0 + 1
        /\ UNCHANGED <<table, touched, latest>>
    BY <1>5 DEF NextElem
  <2>2. buckiter + 1 \in 0 .. Buckets /\ 0 + 1 = 1 /\ 0 \in Nat
    BY <1>1 DEF Bucket
  <2>3. ASSUME NEW c \in Bucket \ touched'
        PROVE  seen[c] = IF c < buckiter + 1 THEN keys[c] ELSE <<>>
    <3>1. c \in Bucket \ touched
      BY <1>2
    <3>2. CASE c < buckiter
      <4>1. c < buckiter + 1
        BY <1>1, <3>2 DEF Bucket
      <4> QED BY <1>4, <3>1, <3>2, <4>1
    <3>3. CASE c = buckiter
      <4>1. ~(c < buckiter) /\ c < buckiter + 1
        BY <1>1, <3>3 DEF Bucket
      <4>2. seen[c] = SubSeq(keys[c], 1, listiter) /\ listiter <= Len(keys[c])
        BY <1>4, <3>1, <3>3, <4>1
      <4>3. listiter = Len(keys[c])
        BY <1>1, <1>3, <1>5, <3>3, <4>2 DEF ListDone
      <4>4. SubSeq(keys[c], 1, Len(keys[c])) = keys[c]
        BY <1>1, <3>3, SubSeqFull
      <4> QED BY <4>1, <4>2, <4>3, <4>4
    <3>4. CASE c > buckiter
      <4>1. ~(c < buckiter) /\ c # buckiter /\ ~(c < buckiter + 1)
        BY <1>1, <3>4 DEF Bucket
      <4> QED BY <1>4, <3>1, <3>4, <4>1
    <3>5. c < buckiter \/ c = buckiter \/ c > buckiter
      BY <1>1 DEF Bucket
    <3> QED BY <3>2, <3>3, <3>4, <3>5
  <2> QED BY <1>1, <1>2, <2>1, <2>2, <2>3, NextBucket
<1>6. CASE ~ListDone
  <2> DEFINE n == listiter + 1
  <2>1. /\ Return(buckiter, n, seen)
        /\ listiter' = IF buckiter = Buckets THEN listiter ELSE n
    BY <1>6 DEF NextElem
  <2>2. n \in 1 .. Len(keys[buckiter])
    BY <1>1, <1>3, <1>6 DEF ListDone
  <2> HIDE DEF n
  <2>3. /\ buckiter' = buckiter /\ iterating' = TRUE
        /\ out' \in (Key \cup {None}) \X (Value \cup {None})
        /\ seen' = [seen EXCEPT ![buckiter] = Append(seen[buckiter], keys[buckiter][n])]
        /\ seen' \in [Bucket -> Seq(Key)]
    BY <1>1, <2>1, <2>2, ReturnIs
  <2>4. listiter' = n
    BY <1>1, <2>1 DEF Bucket
  <2>5. TypeOK'
    <3>1. listiter' \in Nat /\ buckiter' \in 0 .. Buckets /\ buckiter' \in Bucket
      BY <1>1, <2>3, <2>4 DEF n, Bucket
    <3>2. touched' \subseteq Bucket /\ iterating' \in BOOLEAN
      BY <1>1, <1>2, <2>3
    <3> QED BY <1>2, <2>3, <3>1, <3>2 DEF IInv, TypeOK, Bucket
  <2>6. Placed' /\ Counted'
    BY <1>2 DEF IInv, Placed, Counted, Listed, Ind, Bucket
  <2>7. ASSUME NEW c \in Bucket \ touched'
        PROVE  seen'[c] = CASE c < buckiter' -> keys'[c]
                            [] c = buckiter' -> SubSeq(keys'[c], 1, listiter')
                            [] c > buckiter' -> <<>>
    <3>1. c \in Bucket \ touched
      BY <1>2
    <3>2. c \in Int /\ buckiter' \in Int
      BY <1>1, <2>3 DEF Bucket
    <3>3. CASE c = buckiter
      <4>1. ~(c < buckiter) /\ ~(c > buckiter)
        BY <1>1, <3>3 DEF Bucket
      <4>2. seen[c] = SubSeq(keys[c], 1, listiter)
        BY <1>4, <3>1, <3>3
      <4>3. SubSeq(keys[c], 1, n) = Append(SubSeq(keys[c], 1, listiter), keys[c][n])
        BY <1>1, <2>2, <3>3, OneMore DEF n
      <4>4. seen'[c] = SubSeq(keys[c], 1, n)
        BY <1>1, <2>3, <3>3, <4>2, <4>3
      <4> QED BY <1>2, <2>3, <2>4, <3>3, <4>1, <4>4
    <3>4. CASE c # buckiter
      <4>1. seen'[c] = seen[c]
        BY <1>1, <2>3, <3>4
      <4>2. /\ c < buckiter => seen[c] = keys[c]
            /\ c > buckiter => seen[c] = <<>>
        BY <1>4, <3>1
      <4>3. CASE c < buckiter
        BY <1>2, <2>3, <3>2, <4>1, <4>2, <4>3
      <4>4. CASE c > buckiter
        BY <1>2, <2>3, <3>2, <4>1, <4>2, <4>4
      <4> QED BY <2>3, <3>2, <3>4, <4>3, <4>4
    <3> QED BY <3>3, <3>4
  <2>8. IterationVisitsUntouched'
    BY <2>5, <2>7 DEF IterationVisitsUntouched, Bucket
  <2>9. Reached'
    <3> SUFFICES ASSUME NEW c \in Bucket \ touched', c = buckiter
                 PROVE  n <= Len(keys[c])
      BY <1>2, <2>3, <2>4 DEF Reached, Bucket
    <3> QED BY <1>3, <2>2
  <2> QED BY <2>5, <2>6, <2>8, <2>9 DEF IInv
<1> QED BY <1>5, <1>6

\* A step that changes nothing, and every step.
LEMMA NextKeeps == ASSUME IInv, [Next]_vars PROVE IInv'
<1>1. ASSUME NEW k \in Key, NEW v \in Value, NEW keyok \in {TRUE, ~MallocFails},
             NEW valok \in {TRUE, ~MallocFails}, Put(k, v, keyok, valok)
      PROVE  IInv'
  BY <1>1, PutNewKeeps, PutOldKeeps
<1>2. ASSUME NEW k \in Key, Del(k) PROVE IInv'
  BY <1>2, DelKeeps
<1>3. CASE Clear
  BY <1>3, ClearKeeps
<1>4. CASE First
  BY <1>4, FirstKeeps
<1>5. CASE NextElem
  BY <1>5, NextElemKeeps
<1>6. CASE UNCHANGED vars
  <2>1. UNCHANGED <<keys, vals, count, iterating, buckiter, listiter, out, seen, touched, latest>>
    BY <1>6 DEF vars, table, iterator
  <2>2. TypeOK'
    BY <2>1 DEF IInv, TypeOK, Bucket
  <2>3. Placed' /\ Counted'
    BY <2>1 DEF IInv, Placed, Counted, Listed, Ind, Bucket
  <2>4. \A c \in Bucket \ touched' : c \notin touched /\ keys'[c] = keys[c]
    BY <2>1
  <2> QED BY <2>1, <2>2, <2>3, <2>4, VisitsKept DEF IInv
<1> QED BY <1>1, <1>2, <1>3, <1>4, <1>5, <1>6 DEF Next

\* hmap_put(), hmap_del() and hmap_clear() keep every key in the bucket its hash
\* names, once, and the count no less than the keys in the map; it is higher only
\* where an insertion that hmap_put() does not check had failed.
THEOREM Inductive == Spec => []IInv
<1>1. Init => IInv
  BY InitKeeps
<1>2. IInv /\ [Next]_vars => IInv'
  BY NextKeeps
<1> QED BY <1>1, <1>2, PTL DEF Spec

\* Whatever else was put, deleted or changed, and whether or not malloc() fails,
\* the iterator returns the keys of a bucket that no key came to or left: all of
\* them, once, in the order of their list.
THEOREM IterationExact == Spec => []IterationVisitsUntouched
<1>1. IInv => IterationVisitsUntouched
  BY DEF IInv
<1> QED BY <1>1, Inductive, PTL

-----------------------------------------------------------------------------
(* Values: while malloc() does not fail, the two lists of a bucket match, and *)
(* so do what a lookup finds and what was put last.                           *)

Got(k) == Lookup(keys[Ind(k)], vals[Ind(k)], k)

Paired ==
  /\ \A b \in Bucket : Len(vals[b]) = Len(keys[b])
  /\ \A k \in Key : latest[k] = Got(k)

PInv == IInv /\ Paired

\* What the lists of a bucket are.
LEMMA Lists ==
  ASSUME PInv, NEW b \in Bucket
  PROVE  /\ keys[b] \in Seq(Key) /\ Distinct(keys[b])
         /\ vals[b] \in Seq(Value) /\ Len(vals[b]) = Len(keys[b])
         /\ latest \in [Key -> Value \cup {None}]
BY DEF PInv, IInv, TypeOK, Placed, Paired

\* New lists K and V for the bucket b of key k, that give it the value v.
NewPairs(b, K, V, k, v) ==
  /\ b \in Bucket /\ k \in Key /\ Ind(k) = b /\ Len(V) = Len(K)
  /\ keys' = [keys EXCEPT ![b] = K] /\ vals' = [vals EXCEPT ![b] = V]
  /\ latest' = [latest EXCEPT ![k] = v]
  /\ \A j \in Key : Lookup(K, V, j) = IF j = k THEN v ELSE Lookup(keys[b], vals[b], j)

LEMMA PairChanged ==
  ASSUME PInv, NEW b, NEW K, NEW V, NEW k, NEW v, NewPairs(b, K, V, k, v)
  PROVE  Paired'
<1> USE DEF NewPairs
<1>1. /\ keys'[b] = K /\ vals'[b] = V
      /\ \A c \in Bucket : c # b => keys'[c] = keys[c] /\ vals'[c] = vals[c]
  BY DEF PInv, IInv, TypeOK
<1>2. ASSUME NEW c \in Bucket PROVE Len(vals'[c]) = Len(keys'[c])
  BY <1>1, Lists
<1>3. ASSUME NEW j \in Key
      PROVE  latest'[j] = Lookup(keys'[Ind(j)], vals'[Ind(j)], j)
  <2>1. latest[j] = Lookup(keys[Ind(j)], vals[Ind(j)], j)
    BY DEF PInv, Paired, Got
  <2>2. latest'[j] = IF j = k THEN v ELSE latest[j]
    BY Lists
  <2>3. CASE Ind(j) = b
    BY <1>1, <2>1, <2>2, <2>3
  <2>4. CASE Ind(j) # b
    <3>1. j # k /\ keys'[Ind(j)] = keys[Ind(j)] /\ vals'[Ind(j)] = vals[Ind(j)]
      BY <1>1, <2>4, IndType
    <3> QED BY <2>1, <2>2, <3>1
  <2> QED BY <2>3, <2>4
<1> QED BY <1>2, <1>3 DEF Paired, Got, Ind, Bucket

LEMMA PutPairs ==
  ASSUME PInv, NEW k \in Key, NEW v \in Value, Put(k, v, TRUE, TRUE)
  PROVE  Paired'
<1> DEFINE b == Ind(k)
           i == Find(k)
<1>1. b \in Bucket
  BY IndType
<1>2. /\ keys[b] \in Seq(Key) /\ Distinct(keys[b])
      /\ vals[b] \in Seq(Value) /\ Len(vals[b]) = Len(keys[b])
      /\ keys \in [Bucket -> Seq(Key)] /\ vals \in [Bucket -> Seq(Value)]
  BY <1>1, Lists DEF PInv, IInv, TypeOK
<1>3. latest' = [latest EXCEPT ![k] = v]
  BY DEF Put
<1>4. CASE i = 0
  <2>1. /\ keys' = [keys EXCEPT ![b] = <<k>> \o keys[b]]
        /\ vals' = [vals EXCEPT ![b] = <<v>> \o vals[b]]
    BY <1>1, <1>2, <1>4 DEF Put, PutNew
  <2>2. ~Has(keys[b], k)
    BY <1>4, FindIs DEF PInv, Listed
  <2>3. \A j \in Key : Lookup(<<k>> \o keys[b], <<v>> \o vals[b], j) =
                       IF j = k THEN v ELSE Lookup(keys[b], vals[b], j)
    <3> HIDE DEF b
    <3>1. /\ keys[b] \in Seq(Key) /\ Distinct(keys[b])
          /\ vals[b] \in Seq(Value) /\ Len(vals[b]) = Len(keys[b])
      BY <1>1, Lists
    <3>2. \A ks \in Seq(Key), vs \in Seq(Value) :
            Distinct(ks) /\ Len(vs) = Len(ks) /\ ~Has(ks, k) =>
              \A j \in Key : Lookup(<<k>> \o ks, <<v>> \o vs, j) =
                               IF j = k THEN v ELSE Lookup(ks, vs, j)
      BY LookupInFront
    <3> QED BY <2>2, <3>1, <3>2
  <2>4. Len(<<v>> \o vals[b]) = Len(<<k>> \o keys[b])
    BY <1>2, InFront
  <2> DEFINE K == <<k>> \o keys[b]
             V == <<v>> \o vals[b]
  <2>5. keys' = [keys EXCEPT ![b] = K] /\ vals' = [vals EXCEPT ![b] = V]
    BY <2>1
  <2>6. /\ Len(V) = Len(K)
        /\ \A j \in Key : Lookup(K, V, j) = IF j = k THEN v ELSE Lookup(keys[b], vals[b], j)
    BY <2>3, <2>4
  <2>7. Ind(k) = b
    OBVIOUS
  <2> HIDE DEF K, V, b
  <2>8. NewPairs(b, K, V, k, v)
    BY <1>1, <1>3, <2>5, <2>6, <2>7 DEF NewPairs
  <2> QED BY <2>8, PairChanged
<1>5. CASE i # 0
  <2>1. i \in 1 .. Len(keys[b]) /\ keys[b][i] = k
    BY <1>5, FindIs DEF PInv
  <2> DEFINE V == [vals[b] EXCEPT ![i] = v]
  <2>2. DOMAIN vals[b] = 1 .. Len(keys[b])
    BY <1>2, LenProperties
  <2>3. vals' = [vals EXCEPT ![b] = V] /\ keys' = keys
    BY <1>5, <2>1, <2>2 DEF Put
  <2>4. keys' = [keys EXCEPT ![b] = keys[b]]
    BY <1>2, <2>3
  <2>5. /\ V \in Seq(Value) /\ Len(V) = Len(keys[b])
        /\ \A j \in Key : Lookup(keys[b], V, j) =
                           IF j = keys[b][i] THEN v ELSE Lookup(keys[b], vals[b], j)
    <3> HIDE DEF i, b
    <3>1. \A ks \in Seq(Key), vs \in Seq(Value) : Distinct(ks) /\ Len(vs) = Len(ks) =>
            \A n \in 1 .. Len(ks) :
              /\ [vs EXCEPT ![n] = v] \in Seq(Value)
              /\ Len([vs EXCEPT ![n] = v]) = Len(ks)
              /\ \A j \in Key : Lookup(ks, [vs EXCEPT ![n] = v], j) =
                                 IF j = ks[n] THEN v ELSE Lookup(ks, vs, j)
      BY LookupReplaced
    <3> QED BY <1>2, <2>1, <3>1
  <2>6. Ind(k) = b
    OBVIOUS
  <2> HIDE DEF V, b, i
  <2>7. \A j \in Key : Lookup(keys[b], V, j) =
                       IF j = k THEN v ELSE Lookup(keys[b], vals[b], j)
    BY <2>1, <2>5
  <2>8. NewPairs(b, keys[b], V, k, v)
    BY <1>1, <1>3, <2>3, <2>4, <2>5, <2>6, <2>7 DEF NewPairs
  <2> QED BY <2>8, PairChanged
<1> QED BY <1>4, <1>5

LEMMA DelPairs ==
  ASSUME PInv, NEW k \in Key, Del(k)
  PROVE  Paired'
<1> DEFINE b == Ind(k)
           i == Find(k)
<1>1. b \in Bucket
  BY IndType
<1>2. /\ keys[b] \in Seq(Key) /\ Distinct(keys[b])
      /\ vals[b] \in Seq(Value) /\ Len(vals[b]) = Len(keys[b])
      /\ keys \in [Bucket -> Seq(Key)] /\ vals \in [Bucket -> Seq(Value)]
  BY <1>1, Lists DEF PInv, IInv, TypeOK
<1>3. i \in 1 .. Len(keys[b]) /\ keys[b][i] = k
  BY FindIs DEF Del, PInv
<1>4. /\ keys' = [keys EXCEPT ![b] = Dropped(keys[b], i)]
      /\ vals' = [vals EXCEPT ![b] = Dropped(vals[b], i)]
      /\ latest' = [latest EXCEPT ![k] = None]
  BY <1>1, <1>2 DEF Del
<1> HIDE DEF i
<1>5. \A j \in Key : Lookup(Dropped(keys[b], i), Dropped(vals[b], i), j) =
                     IF j = k THEN None ELSE Lookup(keys[b], vals[b], j)
  <2> HIDE DEF b
  <2>1. \A ks \in Seq(Key), vs \in Seq(Value) : Distinct(ks) /\ Len(vs) = Len(ks) =>
          \A n \in 1 .. Len(ks) :
            \A j \in Key : Lookup(Dropped(ks, n), Dropped(vs, n), j) =
                             IF j = ks[n] THEN None ELSE Lookup(ks, vs, j)
    BY LookupRemoved
  <2>2. /\ keys[b] \in Seq(Key) /\ Distinct(keys[b])
        /\ vals[b] \in Seq(Value) /\ Len(vals[b]) = Len(keys[b])
    BY <1>1, Lists
  <2>3. \A j \in Key : Lookup(Dropped(keys[b], i), Dropped(vals[b], i), j) =
                       IF j = keys[b][i] THEN None ELSE Lookup(keys[b], vals[b], j)
    BY <1>3, <2>1, <2>2
  <2> QED BY <1>3, <2>3
<1>6. Len(Dropped(vals[b], i)) = Len(Dropped(keys[b], i))
  <2>1. Len(Dropped(vals[b], i)) = Len(vals[b]) - 1
    BY <1>2, <1>3, Removed
  <2>2. Len(Dropped(keys[b], i)) = Len(keys[b]) - 1
    BY <1>2, <1>3, Removed
  <2> QED BY <1>2, <2>1, <2>2
<1> DEFINE K == Dropped(keys[b], i)
           V == Dropped(vals[b], i)
<1>7. /\ keys' = [keys EXCEPT ![b] = K] /\ vals' = [vals EXCEPT ![b] = V]
      /\ Len(V) = Len(K)
      /\ \A j \in Key : Lookup(K, V, j) = IF j = k THEN None ELSE Lookup(keys[b], vals[b], j)
  BY <1>4, <1>5, <1>6
<1>8. Ind(k) = b
  OBVIOUS
<1> HIDE DEF K, V, b
<1>9. NewPairs(b, K, V, k, None)
  BY <1>1, <1>4, <1>7, <1>8 DEF NewPairs
<1> QED BY <1>9, PairChanged

LEMMA EmptyPairs ==
  ASSUME keys = [b \in Bucket |-> <<>>], vals = [b \in Bucket |-> <<>>],
         latest = [k \in Key |-> None]
  PROVE  Paired
<1>1. ASSUME NEW k \in Key PROVE Got(k) = None
  <2>1. <<>> \in Seq(Key) /\ <<>> \in Seq(Value) /\ Len(<<>>) = 0
    BY EmptySeq
  <2>2. Distinct(<<>>) /\ \A i \in 1 .. Len(<<>>) : <<>>[i] # k
    BY <2>1 DEF Distinct
  <2>3. Lookup(<<>>, <<>>, k) = None
    BY <2>1, <2>2, LookupIs
  <2> QED BY <2>3, IndType DEF Got
<1> QED BY <1>1 DEF Paired

LEMMA ClearPairs ==
  ASSUME Clear
  PROVE  Paired'
<1>1. /\ keys' = [b \in Bucket |-> <<>>] /\ vals' = [b \in Bucket |-> <<>>]
      /\ latest' = [k \in Key |-> None]
  BY DEF Clear
<1>2. ASSUME NEW k \in Key PROVE Lookup(keys'[Ind(k)], vals'[Ind(k)], k) = None
  <2>1. <<>> \in Seq(Key) /\ <<>> \in Seq(Value) /\ Len(<<>>) = 0
    BY EmptySeq
  <2>2. Distinct(<<>>) /\ \A i \in 1 .. Len(<<>>) : <<>>[i] # k
    BY <2>1 DEF Distinct
  <2>3. Lookup(<<>>, <<>>, k) = None
    BY <2>1, <2>2, LookupIs
  <2> QED BY <1>1, <2>3, IndType
<1> QED BY <1>1, <1>2 DEF Paired, Got, Ind, Bucket

LEMMA PairsKeep ==
  ASSUME ~MallocFails, PInv, [Next]_vars
  PROVE  PInv'
<1>1. ASSUME NEW k \in Key, NEW v \in Value, NEW keyok \in {TRUE, ~MallocFails},
             NEW valok \in {TRUE, ~MallocFails}, Put(k, v, keyok, valok)
      PROVE  Paired'
  <2>1. keyok = TRUE /\ valok = TRUE
    OBVIOUS
  <2> QED BY <1>1, <2>1, PutPairs
<1>2. ASSUME NEW k \in Key, Del(k) PROVE Paired'
  BY <1>2, DelPairs
<1>3. ASSUME Clear PROVE Paired'
  BY <1>3, ClearPairs
<1>4. ASSUME First \/ NextElem \/ UNCHANGED vars PROVE Paired'
  <2>1. keys' = keys /\ vals' = vals /\ latest' = latest
    BY <1>4 DEF First, NextElem, vars, table
  <2> QED BY <2>1 DEF PInv, Paired, Got, Ind, Bucket
<1>5. IInv'
  BY NextKeeps DEF PInv
<1> QED BY <1>1, <1>2, <1>3, <1>4, <1>5 DEF Next, PInv

LEMMA InitPairs == Init => PInv
<1> SUFFICES ASSUME Init PROVE PInv
  OBVIOUS
<1>1. Paired
  BY EmptyPairs DEF Init
<1> QED BY <1>1, InitKeeps DEF PInv

LEMMA PairedInductive == ASSUME ~MallocFails PROVE Spec => []PInv
<1>1. Init => PInv
  BY InitPairs
<1>2. PInv /\ [Next]_vars => PInv'
  BY PairsKeep
<1> QED BY <1>1, <1>2, PTL DEF Spec

\* What the lists hold is the map, and the count is that of its keys.
LEMMA ContentsAre ==
  ASSUME ~MallocFails, PInv
  PROVE  latest = Contents /\ count = Cardinality({k \in Key : Contents[k] # None})
<1>1. ASSUME NEW k \in Key
      PROVE  Get(k) = Got(k) /\ (Got(k) # None <=> k \in Listed)
  <2> DEFINE b == Ind(k)
  <2>1. /\ keys[b] \in Seq(Key) /\ Distinct(keys[b])
        /\ vals[b] \in Seq(Value) /\ Len(vals[b]) = Len(keys[b])
    BY IndType, Lists
  <2>2. Get(k) = Got(k)
    BY DEF Get, Got, Lookup, Find, Place
  <2>3. CASE k \in Listed
    <3>1. PICK i \in 1 .. Len(keys[b]) : keys[b][i] = k
      BY <2>3 DEF Listed, Has
    <3>2. Got(k) = At(vals[b], i)
      BY <2>1, <3>1, LookupIs DEF Got
    <3>3. At(vals[b], i) \in Value
      BY <2>1, AtInside
    <3> QED BY <2>2, <2>3, <3>2, <3>3
  <2>4. CASE k \notin Listed
    <3>1. \A i \in 1 .. Len(keys[b]) : keys[b][i] # k
      BY <2>4 DEF Listed, Has
    <3>2. Got(k) = None
      BY <2>1, <3>1, LookupIs DEF Got
    <3> QED BY <2>2, <2>4, <3>2
  <2> QED BY <2>3, <2>4
<1>2. latest = Contents
  <2>1. latest \in [Key -> Value \cup {None}]
    BY DEF PInv, IInv, TypeOK
  <2>2. \A k \in Key : latest[k] = Contents[k]
    BY <1>1 DEF PInv, Paired, Contents
  <2>3. DOMAIN Contents = Key /\ Contents = [k \in Key |-> Contents[k]]
    BY DEF Contents
  <2> QED BY <2>1, <2>2, <2>3
<1>3. {k \in Key : Contents[k] # None} = Listed
  <2>1. \A k \in Key : Contents[k] = Get(k)
    BY DEF Contents
  <2>2. Listed \subseteq Key
    BY DEF Listed
  <2> QED BY <1>1, <2>1, <2>2
<1> QED BY <1>2, <1>3 DEF PInv, IInv, Counted

\* Each call changes the value of its own key only, whatever shares its bucket,
\* and hmap_count() is the number of keys that have a value.
THEOREM HashmapImplementsMap == ASSUME ~MallocFails PROVE Spec => ImplementsMap
<1> DEFINE Step == /\ \A k \in Key, v \in Value : Put(k, v, TRUE, TRUE) => Map!KPut(k, v)
                   /\ \A k \in Key : Del(k) => Map!KDel(k)
                   /\ Clear => Map!KClear
                   /\ First \/ NextElem => Map!KRead
           Is == latest = Contents /\ count = Cardinality({k \in Key : Contents[k] # None})
<1>1. ASSUME Is, Is' PROVE Step
  <2>1. latest = Contents
    BY <1>1
  <2>2. /\ latest' = Contents'
        /\ count' = Map!Cardinality({k \in Key : Contents'[k] # None})
    BY <1>1 DEF Cardinality, Map!Cardinality
  <2>3. ASSUME NEW k \in Key, NEW v \in Value, Put(k, v, TRUE, TRUE)
        PROVE  Map!KPut(k, v)
    <3>1. Contents' = [Contents EXCEPT ![k] = v]
      BY <2>1, <2>2, <2>3 DEF Put
    <3> QED BY <2>2, <3>1 DEF Map!KPut, Map!KChange, Map!Present
  <2>4. ASSUME NEW k \in Key, Del(k) PROVE Map!KDel(k)
    <3>1. Contents' = [Contents EXCEPT ![k] = None]
      BY <2>1, <2>2, <2>4 DEF Del
    <3> QED BY <2>2, <3>1 DEF Map!KDel, Map!KChange, Map!Present
  <2>5. ASSUME Clear PROVE Map!KClear
    <3>1. Contents' = [k \in Key |-> None]
      BY <2>2, <2>5 DEF Clear
    <3> QED BY <2>2, <3>1 DEF Map!KClear, Map!KChange, Map!Present
  <2>6. ASSUME First \/ NextElem PROVE Map!KRead
    <3>1. latest' = latest /\ count' = count
      BY <2>6 DEF First, NextElem, table
    <3> QED BY <2>1, <2>2, <3>1 DEF Map!KRead
  <2> QED BY <2>3, <2>4, <2>5, <2>6
<1>2. ImplementsMap <=> [][Step]_vars
  BY DEF ImplementsMap
<1>3. PInv => Is
  BY ContentsAre
<1> HIDE DEF Step, Is
<1>4. Spec => []PInv
  BY PairedInductive
<1> QED BY <1>1, <1>2, <1>3, <1>4, PTL DEF Spec

\* Every pair the iterator returns is from one place of a bucket's two lists.
LEMMA PairOfPlace ==
  ASSUME IInv, First \/ NextElem, iterating'
  PROVE  \E b \in Bucket : \E i \in 1 .. Len(keys[b]) : out' = <<keys[b][i], At(vals[b], i)>>
<1>1. ASSUME NEW from \in 0 .. Buckets, NEW before \in [Bucket -> Seq(Key)],
             Return(NonEmptyFrom(from), 1, before)
      PROVE  \E b \in Bucket :
               \E i \in 1 .. Len(keys[b]) : out' = <<keys[b][i], At(vals[b], i)>>
  <2> DEFINE b == NonEmptyFrom(from)
  <2>1. b \in 0 .. Buckets /\ b # Buckets /\ keys[b] # <<>>
    <3>1. b \in from .. Buckets /\ (b = Buckets \/ keys[b] # <<>>)
      BY NonEmptyFromIs
    <3>2. b # Buckets
      BY <1>1 DEF Return
    <3> HIDE DEF b
    <3> QED BY <3>1, <3>2
  <2>2. b \in Bucket
    BY <2>1 DEF Bucket
  <2>3. Return(b, 1, before)
    BY <1>1
  <2> HIDE DEF b
  <2>4. 1 \in 1 .. Len(keys[b])
    BY <2>1, <2>2, FirstOf DEF IInv, TypeOK
  <2>5. out' = <<keys[b][1], At(vals[b], 1)>>
    BY <1>1, <2>2, <2>3, <2>4, ReturnIs
  <2> QED BY <2>2, <2>4, <2>5
<1>2. CASE First
  <2>1. NothingSeen \in [Bucket -> Seq(Key)]
    BY EmptySeq DEF NothingSeen
  <2>2. Return(NonEmptyFrom(0), 1, NothingSeen)
    BY <1>2 DEF First
  <2>3. 0 \in 0 .. Buckets
    OBVIOUS
  <2> QED BY <1>1, <2>1, <2>2, <2>3
<1>3. CASE NextElem
  <2>1. /\ buckiter \in Bucket /\ listiter \in Nat /\ keys[buckiter] \in Seq(Key)
        /\ seen \in [Bucket -> Seq(Key)]
    BY <1>3 DEF NextElem, IInv, TypeOK
  <2>2. CASE ListDone
    <3>1. Return(NonEmptyFrom(buckiter + 1), 0 + 1, seen)
      BY <1>3, <2>2 DEF NextElem
    <3>2. buckiter + 1 \in 0 .. Buckets /\ 0 + 1 = 1
      BY <2>1 DEF Bucket
    <3> QED BY <1>1, <2>1, <3>1, <3>2
  <2>3. CASE ~ListDone
    <3> DEFINE i == listiter + 1
    <3>1. Return(buckiter, i, seen)
      BY <1>3, <2>3 DEF NextElem
    <3>2. i \in 1 .. Len(keys[buckiter])
      BY <2>1, <2>3, LenProperties DEF ListDone
    <3> HIDE DEF i
    <3>3. out' = <<keys[buckiter][i], At(vals[buckiter], i)>>
      BY <2>1, <3>1, <3>2, ReturnIs
    <3> QED BY <2>1, <3>2, <3>3
  <2> QED BY <2>2, <2>3
<1> QED BY <1>2, <1>3

\* The value the iterator returns with a key is the one put for it last, even
\* where keys were put and deleted in the middle of the iteration.
THEOREM HashmapPairs == ASSUME ~MallocFails PROVE Spec => IterationPairs
<1> DEFINE Step == (First \/ NextElem) /\ iterating' => out'[2] = latest[out'[1]]
<1>1. ASSUME PInv PROVE Step
  <2> SUFFICES ASSUME First \/ NextElem, iterating'
               PROVE  out'[2] = latest[out'[1]]
    OBVIOUS
  <2>1. PICK b \in Bucket : \E i \in 1 .. Len(keys[b]) :
                              out' = <<keys[b][i], At(vals[b], i)>>
    BY <1>1, PairOfPlace DEF PInv
  <2>2. PICK i \in 1 .. Len(keys[b]) : out' = <<keys[b][i], At(vals[b], i)>>
    BY <2>1
  <2> DEFINE k == keys[b][i]
  <2>3. /\ keys[b] \in Seq(Key) /\ Distinct(keys[b])
        /\ vals[b] \in Seq(Value) /\ Len(vals[b]) = Len(keys[b])
    BY <1>1, Lists
  <2>4. k \in Key
    BY <2>3, AtInside
  <2>5. Ind(k) = b
    <3>1. Has(keys[b], k)
      BY DEF Has
    <3> QED BY <1>1, <2>4, <3>1 DEF PInv, IInv, Placed
  <2>6. Lookup(keys[b], vals[b], k) = At(vals[b], i)
    BY <2>3, LookupIs
  <2>7. latest[k] = At(vals[b], i)
    BY <1>1, <2>4, <2>5, <2>6 DEF PInv, Paired, Got
  <2> QED BY <2>2, <2>7
<1>2. IterationPairs <=> [][Step]_vars
  BY DEF IterationPairs
<1> HIDE DEF Step
<1>3. Spec => []PInv
  BY PairedInductive
<1> QED BY <1>1, <1>2, <1>3, PTL DEF Spec

=============================================================================
