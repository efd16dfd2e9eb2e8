----------------------------- MODULE ArraysProofs -----------------------------
(***************************************************************************)
(* Proofs about the containers that are arrays, for every value of their   *)
(* constants: the deque's elements lie within its array and are a sequence *)
(* used from its two ends; no element of the heap is less than its parent  *)
(* between calls, and the heap is a priority queue; a place of the dynamic *)
(* array that nobody wrote reads NULL, and no call disturbs an element it  *)
(* does not mean to.  Each part begins with its inductive invariant.       *)
(***************************************************************************)
EXTENDS Arrays, SequenceTheorems, FiniteSetTheorems, WellFoundedInduction, TLAPS

-----------------------------------------------------------------------------
(* The deque *)

USE NoneAssumption, SizesAssumption, FailsAssumption, BoundsAssumption

\* A push has an element, and an iterator nothing has overtaken stands on one.
Pending ==
  /\ pc \in Side => arg \in Elem
  /\ steady => iter \in back .. front - 1

IInv == TypeOK /\ Pending

-----------------------------------------------------------------------------
(* Where deque_resize() puts the elements *)

\* A multiple of w that is bounded bounds its quotient.
LEMMA Quotient ==
  ASSUME NEW x \in Nat, NEW w \in Nat \ {0}, NEW k \in Nat, x <= k * w
  PROVE  x \div w \in 0 .. k
OBVIOUS

LEMMA ProductBelow ==
  ASSUME NEW h \in Nat, NEW a \in Nat, NEW b \in Nat, a <= b
  PROVE  h * a \in Nat /\ h * a <= h * b
OBVIOUS

\* However many pushes one side had more than the other, the elements fit
\* behind the place computed for them.
LEMMA NewBackFits ==
  ASSUME TypeOK, NEW n \in Nat, n >= Count
  PROVE  NewBack(n) \in 0 .. n - Count
<1> DEFINE half == (n - Count) \div 2
<1>1. /\ Count \in Nat /\ nelem \in Nat \ {0} /\ lead \in Int /\ n - Count \in Nat
  BY DEF TypeOK, Count
<1>2. half \in Nat /\ 2 * half <= n - Count
  BY <1>1
<1> HIDE DEF half
<1>3. CASE 20 * lead > 9 * nelem
  <2>1. NewBack(n) = (half * 19) \div 10
    BY <1>1, <1>3 DEF NewBack, half
  <2> QED BY <2>1, <1>1, <1>2
<1>4. CASE 20 * lead < -9 * nelem
  <2>1. NewBack(n) = half \div 10
    BY <1>1, <1>4 DEF NewBack, half
  <2> QED BY <2>1, <1>1, <1>2
<1>5. CASE ~(20 * lead > 9 * nelem) /\ ~(20 * lead < -9 * nelem)
  <2> DEFINE w == nelem + 2 * lead
  <2>1. NewBack(n) = (half * w) \div nelem
    BY <1>1, <1>5 DEF NewBack, half
  <2>2. w \in Nat /\ w <= 2 * nelem
    BY <1>1, <1>5
  <2> HIDE DEF w
  <2>3. half * w \in Nat /\ half * w <= half * (2 * nelem)
    BY <2>2, <1>1, <1>2, ProductBelow
  <2>4. half * (2 * nelem) = (2 * half) * nelem
    BY <1>1, <1>2
  <2>5. (half * w) \div nelem \in 0 .. 2 * half
    BY <2>3, <2>4, <1>1, <1>2, Quotient
  <2> QED BY <2>1, <2>5, <1>1, <1>2
<1> QED BY <1>3, <1>4, <1>5

\* deque_resize() keeps every element, in its order.
LEMMA ResizeKeeps ==
  ASSUME TypeOK, NEW n \in Nat \ {0}, Resize(n)
  PROVE  /\ nelem' = n /\ data' \in [0 .. n - 1 -> Elem \cup {Junk}]
         /\ back' \in 0 .. n /\ front' \in back' .. n
         /\ front' - back' = Count
         /\ \A i \in 1 .. Count : data'[back' + i - 1] = data[back + i - 1]
         /\ \A i \in back' .. front' - 1 : data'[i] \in Elem
<1>1. /\ Count \in Nat /\ front = back + Count /\ back \in Nat
      /\ \A i \in 1 .. Count : data[back + i - 1] \in Elem
  BY DEF TypeOK, Count
<1>2. PICK b : b = NewBack(n)
  OBVIOUS
<1>3. b \in 0 .. n - Count
  BY <1>2, NewBackFits DEF Resize
<1>4. nelem' = n /\ back' = b /\ front' = b + Count /\ data' = Moved(n, b)
  BY <1>2 DEF Resize
<1>5. /\ \A i \in 0 .. n - 1 : Moved(n, b)[i] = IF i \in b .. b + Count - 1
                                                THEN data[back + i - b] ELSE Junk
      /\ DOMAIN Moved(n, b) = 0 .. n - 1
      /\ Moved(n, b) = [i \in 0 .. n - 1 |-> Moved(n, b)[i]]
  BY DEF Moved
<1>6. \A i \in b .. b + Count - 1 : /\ i \in 0 .. n - 1
                                    /\ back + i - b = back + (i - b + 1) - 1
                                    /\ i - b + 1 \in 1 .. Count
  BY <1>1, <1>3
<1>7. \A i \in b .. b + Count - 1 : Moved(n, b)[i] = data[back + i - b]
                                    /\ Moved(n, b)[i] \in Elem
  BY <1>1, <1>5, <1>6
<1>8. Moved(n, b) \in [0 .. n - 1 -> Elem \cup {Junk}]
  BY <1>5, <1>7
<1>9. \A i \in 1 .. Count : Moved(n, b)[b + i - 1] = data[back + i - 1]
  <2> TAKE i \in 1 .. Count
  <2>1. b + i - 1 \in b .. b + Count - 1 /\ back + (b + i - 1) - b = back + i - 1
    BY <1>1, <1>3
  <2> QED BY <2>1, <1>7
<1> QED BY <1>1, <1>3, <1>4, <1>7, <1>8, <1>9

-----------------------------------------------------------------------------
(* The elements stay within the array *)

LEMMA InitIInv == Init => IInv
<1> SUFFICES ASSUME Init PROVE IInv
  OBVIOUS
<1>1. nelem \in Nat \ {0}
  BY DEF Init
<1>2. steady \in BOOLEAN /\ ~steady
  BY DEF Init
<1> QED BY <1>1, <1>2 DEF Init, IInv, TypeOK, Pending, Blank, Side, Unset

LEMMA ResizedIInv ==
  ASSUME IInv, NEW n \in Nat \ {0}, Resize(n), steady' = FALSE,
         UNCHANGED <<lead, iter, pc, arg, out>>
  PROVE  IInv'
BY ResizeKeeps DEF IInv, TypeOK, Pending

LEMMA StoreIInv ==
  ASSUME IInv, Store
  PROVE  IInv'
<1> USE DEF IInv, TypeOK, Pending
<1>1. /\ steady' \in BOOLEAN /\ ~steady' /\ pc' = "idle" /\ pc' \notin Side /\ arg' = None
      /\ UNCHANGED <<nelem, iter, out>>
  BY DEF Store, Side
<1>2. arg \in Elem /\ back \in Nat /\ front \in Nat /\ nelem \in Nat
  BY DEF Store
<1>3. CASE pc = "front"
  <2>1. /\ front \in 0 .. nelem - 1 /\ data' = [data EXCEPT ![front] = arg]
        /\ front' = front + 1 /\ back' = back /\ lead' = lead + 1
    BY <1>2, <1>3 DEF Store, NoRoom
  <2>2. data' \in [0 .. nelem - 1 -> Elem \cup {Junk}]
    BY <1>2, <2>1
  <2>3. \A i \in back .. front : data'[i] \in Elem
    BY <1>2, <2>1
  <2>4. back' \in 0 .. nelem' /\ front' \in back' .. nelem' /\ lead' \in Int
    BY <1>1, <1>2, <2>1
  <2>5. \A i \in back' .. front' - 1 : data'[i] \in Elem
    BY <1>2, <2>1, <2>3
  <2> QED BY <1>1, <1>2, <2>2, <2>4, <2>5
<1>4. CASE pc = "back"
  <2>1. /\ back \in 1 .. nelem /\ data' = [data EXCEPT ![back - 1] = arg]
        /\ back' = back - 1 /\ front' = front /\ lead' = lead - 1
    BY <1>2, <1>4 DEF Store, NoRoom
  <2>2. data' \in [0 .. nelem - 1 -> Elem \cup {Junk}]
    BY <1>2, <2>1
  <2>3. \A i \in back - 1 .. front - 1 : data'[i] \in Elem
    BY <1>2, <2>1
  <2> QED BY <1>1, <1>2, <2>1, <2>2, <2>3
<1> QED BY <1>3, <1>4 DEF Store, Side

LEMMA PopIInv ==
  ASSUME IInv, NEW side \in Side, Pop(side)
  PROVE  IInv'
<1> USE DEF IInv, TypeOK, Pending
<1>1. Count \in Nat /\ Count = front - back /\ back \in Nat /\ front \in Nat /\ nelem \in Nat
  BY DEF Count
<1>2. /\ steady' \in BOOLEAN /\ ~steady' /\ pc' = pc /\ arg' = arg
      /\ UNCHANGED <<nelem, lead, iter>>
  BY DEF Pop, PopFrom, array
<1>3. CASE Count = 0
  <2>1. out' = None /\ UNCHANGED <<data, back, front>>
    BY <1>3 DEF Pop, PopFrom, EndPlace, array
  <2> QED BY <1>2, <2>1
<1>4. CASE Count # 0
  <2>1. PICK i \in back .. front - 1 : out' = data[i] /\ data' = [data EXCEPT ![i] = Junk]
                                       /\ i = IF side = "front" THEN front - 1 ELSE back
    BY <1>1, <1>4 DEF Pop, PopFrom, EndPlace
  <2>2. data' \in [0 .. nelem - 1 -> Elem \cup {Junk}] /\ out' \in Elem
    BY <1>1, <2>1
  <2>3. \A k \in back .. front - 1 : k # i => data'[k] \in Elem
    BY <1>1, <2>1
  <2>4. CASE Count = 1
    <3>1. back' = nelem \div 2 /\ front' = nelem \div 2
      BY <2>4 DEF Pop, PopFrom, Recentered
    <3>2. back' \in 0 .. nelem' /\ front' \in back' .. nelem'
      BY <1>1, <1>2, <3>1
    <3>3. \A k \in back' .. front' - 1 : data'[k] \in Elem
      BY <1>1, <3>1
    <3> QED BY <1>2, <2>2, <3>2, <3>3
  <2>5. CASE Count > 1 /\ side = "front"
    <3>1. front' = front - 1 /\ back' = back
      BY <1>1, <2>5 DEF Pop, PopFrom
    <3> QED BY <1>1, <1>2, <2>1, <2>2, <2>3, <2>5, <3>1
  <2>6. CASE Count > 1 /\ side = "back"
    <3>1. back' = back + 1 /\ front' = front
      BY <1>1, <2>6 DEF Pop, PopFrom
    <3> QED BY <1>1, <1>2, <2>1, <2>2, <2>3, <2>6, <3>1
  <2> QED BY <1>1, <1>4, <2>4, <2>5, <2>6 DEF Side
<1> QED BY <1>3, <1>4

LEMMA ReadIInv ==
  ASSUME IInv,
         \/ \E side \in Side : Peek(side) \/ First(side)
         \/ \E step \in {1, -1} : NextElem(step)
  PROVE  IInv'
<1> USE DEF IInv, TypeOK, Pending, array
<1>1. Count \in Nat /\ Count = front - back /\ back \in Nat /\ front \in Nat
  BY DEF Count
<1>2. ASSUME NEW side \in Side, Peek(side) PROVE IInv'
  <2>1. out' \in Elem \cup {None}
    BY <1>1, <1>2 DEF Peek, EndPlace
  <2> QED BY <1>2, <2>1 DEF Peek
<1>3. ASSUME NEW side \in Side, First(side) PROVE IInv'
  <2>1. CASE Count = 0
    BY <1>3, <2>1 DEF First
  <2>2. CASE Count # 0
    <3>1. iter' \in back .. front - 1 /\ out' = data[iter'] /\ steady' \in BOOLEAN
      BY <1>1, <1>3, <2>2 DEF First, EndPlace
    <3> QED BY <1>1, <1>3, <3>1 DEF First
  <2> QED BY <2>1, <2>2
<1>4. ASSUME NEW step \in {1, -1}, NextElem(step) PROVE IInv'
  <2>1. CASE AtEnd(step)
    <3>1. out' = None /\ UNCHANGED <<data, nelem, back, front, lead, iter, pc, arg, steady>>
      BY <1>4, <2>1 DEF NextElem
    <3> QED BY <3>1
  <2>2. CASE ~AtEnd(step)
    <3>1. /\ iter + step \in 0 .. nelem - 1 /\ iter' = iter + step /\ out' = data[iter']
          /\ UNCHANGED <<data, nelem, back, front, lead, pc, arg, steady>>
      BY <1>4, <2>2 DEF NextElem
    <3>2. iter \in Nat /\ iter' \in Nat
      BY <1>4, <3>1 DEF NextElem
    <3>3. steady => iter' \in back .. front - 1
      BY <1>1, <1>4, <2>2, <3>1 DEF AtEnd
    <3> QED BY <3>1, <3>2, <3>3
  <2> QED BY <2>1, <2>2
<1> QED BY <1>2, <1>3, <1>4

LEMMA NextIInv == IInv /\ [Next]_vars => IInv'
<1> SUFFICES ASSUME IInv, [Next]_vars PROVE IInv'
  OBVIOUS
<1>1. ASSUME NEW side \in Side, NEW x \in Elem, PushCall(side, x) PROVE IInv'
  BY <1>1 DEF PushCall, IInv, TypeOK, Pending, array, Side
<1>2. CASE Grow
  <2>1. nelem * 2 \in Nat \ {0}
    BY DEF IInv, TypeOK
  <2> QED BY <1>2, <2>1, ResizedIInv DEF Grow
<1>3. CASE GrowFails
  BY <1>3 DEF GrowFails, IInv, TypeOK, Pending, array, Side
<1>4. CASE Store
  BY <1>4, StoreIInv
<1>5. CASE Clear
  <2> USE DEF IInv, TypeOK, Pending
  <2>1. /\ data' = Blank(nelem) /\ back' = nelem \div 2 /\ front' = nelem \div 2
        /\ steady' \in BOOLEAN /\ ~steady' /\ UNCHANGED <<nelem, lead, iter, pc, arg, out>>
    BY <1>5 DEF Clear, Recentered
  <2>2. data' \in [0 .. nelem' - 1 -> Elem \cup {Junk}]
    BY <2>1 DEF Blank
  <2>3. back' \in 0 .. nelem' /\ front' \in back' .. nelem'
    BY <2>1
  <2>4. \A i \in back' .. front' - 1 : data'[i] \in Elem
    BY <2>1
  <2> QED BY <2>1, <2>2, <2>3, <2>4
<1>6. ASSUME NEW factor \in Factors, Shrink(factor) PROVE IInv'
  <2>1. Count \in Nat /\ factor \in Nat \ {0} /\ factor * Count \in Nat
    BY DEF IInv, TypeOK, Count
  <2>2. (IF factor * Count = 0 THEN 1 ELSE factor * Count) \in Nat \ {0}
    BY <2>1
  <2> QED BY <1>6, <2>2, ResizedIInv DEF Shrink
<1>7. CASE UNCHANGED vars
  BY <1>7 DEF vars, array, IInv, TypeOK, Pending
<1> QED
  BY <1>1, <1>2, <1>3, <1>4, <1>5, <1>6, <1>7, PopIInv, ReadIInv DEF Next, Running

\* The elements lie within the array, and no place in use was never written,
\* wherever deque_resize() moved them and whatever was pushed before malloc()
\* failed.
THEOREM TypeCorrect == Spec => []TypeOK
<1>1. IInv => TypeOK
  BY DEF IInv
<1> QED BY InitIInv, NextIInv, <1>1, PTL DEF Spec

-----------------------------------------------------------------------------
(* The deque is a sequence *)

Content == [i \in 1 .. Count |-> data[back + i - 1]]
Pos == IF steady THEN iter - back + 1 ELSE 0

ContentFacts ==
  /\ Count \in Nat /\ Count = front - back
  /\ Content \in Seq(Elem) /\ Len(Content) = Count
  /\ \A i \in 1 .. Count : Content[i] = data[back + i - 1]

LEMMA ContentIsSeq == IInv => ContentFacts
<1> SUFFICES ASSUME IInv PROVE ContentFacts
  OBVIOUS
<1>1. Count \in Nat /\ Count = front - back
  BY DEF IInv, TypeOK, Count
<1>2. \A i \in 1 .. Count : Content[i] = data[back + i - 1]
  BY DEF Content
<1>3. \A i \in 1 .. Count : data[back + i - 1] \in Elem
  BY <1>1 DEF IInv, TypeOK
<1>4. Content \in [1 .. Count -> Elem]
  BY <1>3 DEF Content
<1> QED BY <1>1, <1>2, <1>4, SeqDef, LenProperties DEF ContentFacts

\* Elements that keep their order, wherever they are, are the same sequence.
LEMMA SameContent ==
  ASSUME ContentFacts, ContentFacts', Count' = Count,
         \A i \in 1 .. Count : data'[back' + i - 1] = data[back + i - 1]
  PROVE  Content' = Content
<1>1. \A i \in 1 .. Len(Content) : Content'[i] = Content[i]
  BY DEF ContentFacts
<1> QED BY <1>1, SeqEqual DEF ContentFacts

\* deque_resize() moves the elements and changes nothing else.
LEMMA ResizeRefines ==
  ASSUME IInv, ContentFacts, ContentFacts', NEW n \in Nat \ {0}, Resize(n)
  PROVE  Content' = Content
<1>1. /\ front' - back' = Count
      /\ \A i \in 1 .. Count : data'[back' + i - 1] = data[back + i - 1]
  BY ResizeKeeps DEF IInv
<1>2. Count' = Count
  BY <1>1 DEF Count
<1> QED BY <1>1, <1>2, SameContent

\* A push adds its element at its end.
LEMMA StoreRefines ==
  ASSUME IInv, IInv', ContentFacts, ContentFacts', Store
  PROVE  List!SPush(pc, arg)
<1>1. /\ arg \in Elem /\ back \in Nat /\ front \in Nat /\ nelem \in Nat
      /\ Count \in Nat /\ front = back + Count /\ Content \in Seq(Elem) /\ Len(Content) = Count
      /\ Content' \in Seq(Elem) /\ Len(Content') = Count' /\ Count' = front' - back'
      /\ \A i \in 1 .. Count : Content[i] = data[back + i - 1]
      /\ \A i \in 1 .. Count' : Content'[i] = data'[back' + i - 1]
      /\ data \in [0 .. nelem - 1 -> Elem \cup {Junk}] /\ front <= nelem
  <2>1. pc \in Side
    BY DEF Store
  <2>2. /\ arg \in Elem /\ back \in Nat /\ front \in Nat /\ nelem \in Nat /\ front <= nelem
        /\ data \in [0 .. nelem - 1 -> Elem \cup {Junk}]
    BY <2>1 DEF IInv, TypeOK, Pending
  <2>3. Count' = front' - back' /\ Count = front - back
    BY DEF Count
  <2> QED BY <2>2, <2>3 DEF ContentFacts
<1>2. steady' \in BOOLEAN /\ ~steady' /\ out' = out
  BY DEF Store
<1>3. CASE pc = "front"
  <2>1. /\ data' = [data EXCEPT ![front] = arg] /\ front < nelem
        /\ front' = front + 1 /\ back' = back
    BY <1>1, <1>3 DEF Store, NoRoom
  <2>2. Count' = Count + 1
    BY <1>1, <2>1
  <2>3. /\ Append(Content, arg) \in Seq(Elem) /\ Len(Append(Content, arg)) = Count + 1
        /\ \A i \in 1 .. Count : Append(Content, arg)[i] = Content[i]
        /\ Append(Content, arg)[Count + 1] = arg
    BY <1>1, AppendProperties
  <2>4. \A i \in 1 .. Count : Content'[i] = Content[i]
    BY <1>1, <2>1, <2>2
  <2>5. Content'[Count + 1] = arg
    BY <1>1, <2>1, <2>2
  <2>6. Content' = Append(Content, arg)
    <3>1. ASSUME NEW i \in 1 .. Count + 1 PROVE Content'[i] = Append(Content, arg)[i]
      <4>1. i = Count + 1 \/ i \in 1 .. Count
        BY <1>1
      <4> QED BY <4>1, <2>3, <2>4, <2>5
    <3>2. Len(Content') = Count + 1 /\ Len(Append(Content, arg)) = Count + 1
      BY <1>1, <2>2, <2>3
    <3> QED BY <1>1, <2>3, <3>1, <3>2, SeqEqual
  <2> QED BY <1>2, <1>3, <2>6 DEF List!SPush, Content
<1>4. CASE pc = "back"
  <2>1. /\ data' = [data EXCEPT ![back - 1] = arg] /\ back > 0
        /\ front' = front /\ back' = back - 1
    BY <1>1, <1>4 DEF Store, NoRoom
  <2>2. Count' = Count + 1
    BY <1>1, <2>1
  <2> DEFINE L == <<arg>> \o Content
  <2>3. <<arg>> \in Seq(Elem) /\ Len(<<arg>>) = 1 /\ <<arg>>[1] = arg
    BY <1>1
  <2>4. /\ L \in Seq(Elem) /\ Len(L) = 1 + Count
        /\ \A i \in 1 .. 1 + Count : L[i] = IF i <= 1 THEN <<arg>>[i] ELSE Content[i - 1]
    BY <1>1, <2>3, ConcatProperties
  <2> HIDE DEF L
  <2>5. \A i \in 2 .. Count + 1 : Content'[i] = Content[i - 1] /\ L[i] = Content[i - 1]
    BY <1>1, <2>1, <2>2, <2>4
  <2>6. Content'[1] = arg /\ L[1] = arg
    BY <1>1, <2>1, <2>2, <2>3, <2>4
  <2>7. Content' = L
    <3>1. ASSUME NEW i \in 1 .. Count + 1 PROVE Content'[i] = L[i]
      <4>1. i = 1 \/ i \in 2 .. Count + 1
        BY <1>1
      <4> QED BY <4>1, <2>5, <2>6
    <3>2. Len(Content') = Count + 1 /\ Len(L) = Count + 1
      BY <1>1, <2>2, <2>4
    <3> QED BY <1>1, <2>4, <3>1, <3>2, SeqEqual
  <2>8. Content' = <<arg>> \o Content
    BY <2>7 DEF L
  <2> QED BY <1>2, <1>4, <2>8 DEF List!SPush, Content
<1> QED BY <1>3, <1>4 DEF Store, Side

\* An empty deque is the empty sequence.
LEMMA EmptyContent ==
  ASSUME ContentFacts
  PROVE  (Count = 0) <=> (Content = <<>>)
BY EmptySeq, SeqEqual DEF ContentFacts

\* What is taken or looked at is the first or the last of the sequence.
LEMMA EndOfContent ==
  ASSUME ContentFacts, front \in Int, back \in Int, Count # 0, NEW side \in Side
  PROVE  /\ List!EndOf(side) = IF side = "front" THEN Count ELSE 1
         /\ List!EndOf(side) \in 1 .. Count
         /\ Content[List!EndOf(side)] = data[IF side = "front" THEN front - 1 ELSE back]
<1>1. List!EndOf(side) = IF side = "front" THEN Count ELSE 1
  BY DEF List!EndOf, ContentFacts, Content
<1> QED BY <1>1 DEF ContentFacts

\* A pop takes the element at its end; that deque_clear() then moves both ends
\* to the middle shows nowhere.
LEMMA PopRefines ==
  ASSUME IInv, ContentFacts, ContentFacts', NEW side \in Side, Pop(side)
  PROVE  List!SPop(side)
<1>1. /\ back \in Nat /\ front \in Nat /\ nelem \in Nat \ {0} /\ front <= nelem /\ back <= front
      /\ data \in [0 .. nelem - 1 -> Elem \cup {Junk}]
  BY DEF IInv, TypeOK
<1>2. /\ Count \in Nat /\ front = back + Count /\ Content \in Seq(Elem) /\ Len(Content) = Count
      /\ \A i \in 1 .. Count : Content[i] = data[back + i - 1]
      /\ Content' \in Seq(Elem) /\ Len(Content') = Count' /\ Count' = front' - back'
      /\ \A i \in 1 .. Count' : Content'[i] = data'[back' + i - 1]
  BY <1>1 DEF ContentFacts
<1>3. steady' \in BOOLEAN /\ ~steady'
  BY DEF Pop, PopFrom
<1>4. CASE Count = 0
  <2>1. out' = None /\ UNCHANGED array
    BY <1>4 DEF Pop, PopFrom
  <2>2. Content = <<>> /\ Content' = Content
    BY <1>4, <2>1, EmptyContent DEF array, Content, Count
  <2> QED BY <1>3, <2>1, <2>2 DEF List!SPop, Content
<1>5. CASE Count # 0
  <2>1. /\ out' = data[IF side = "front" THEN front - 1 ELSE back]
        /\ data' = [data EXCEPT ![IF side = "front" THEN front - 1 ELSE back] = Junk]
    BY <1>5 DEF Pop, PopFrom, EndPlace
  <2>2. Content # <<>> /\ out' = Content[List!EndOf(side)]
    BY <1>1, <1>5, <2>1, EmptyContent, EndOfContent
  <2>3. Count = 1 => Count' = 0
    <3>1. Count = 1 => front' = nelem \div 2 /\ back' = nelem \div 2
      BY <1>5 DEF Pop, PopFrom, Recentered
    <3>2. nelem \div 2 \in Nat
      BY <1>1
    <3> QED BY <1>2, <3>1, <3>2
  <2>4. CASE side = "front"
    <3>1. /\ Count' = Count - 1
          /\ Count > 1 => back' = back
      <4>1. CASE Count = 1
        BY <1>2, <2>3, <4>1
      <4>2. CASE Count > 1
        <5>1. front' = front - 1 /\ back' = back
          BY <1>5, <2>4, <4>2 DEF Pop, PopFrom
        <5> QED BY <1>1, <1>2, <5>1
      <4> QED BY <1>2, <1>5, <4>1, <4>2
    <3> DEFINE R == SubSeq(Content, 1, Count - 1)
    <3>2. \A i \in 1 .. Count - 1 : Content[i] \in Elem
      BY <1>2, ElementOfSeq
    <3>3. /\ R \in Seq(Elem) /\ Len(R) = Count - 1
          /\ \A i \in 1 .. Count - 1 : R[i] = Content[i]
      BY <1>2, <1>5, <3>2, SubSeqProperties
    <3> HIDE DEF R
    <3>4. \A i \in 1 .. Count - 1 : Content'[i] = Content[i]
      <4> TAKE i \in 1 .. Count - 1
      <4>1. /\ back' = back /\ Content'[i] = data'[back' + i - 1]
            /\ Content[i] = data[back + i - 1]
        BY <1>2, <3>1
      <4>2. back + i - 1 \in 0 .. nelem - 1 /\ back + i - 1 # front - 1
        BY <1>1, <1>2
      <4>3. data' = [data EXCEPT ![front - 1] = Junk]
        BY <2>1, <2>4
      <4> QED BY <1>1, <4>1, <4>2, <4>3
    <3>5. Content' = R
      BY <1>2, <3>1, <3>3, <3>4, SeqEqual
    <3>6. Content' = SubSeq(Content, 1, Len(Content) - 1)
      BY <1>2, <3>5 DEF R
    <3> QED BY <1>3, <2>2, <2>4, <3>6 DEF List!SPop, Content
  <2>5. CASE side = "back"
    <3>1. /\ Count' = Count - 1
          /\ Count > 1 => back' = back + 1
      <4>1. CASE Count = 1
        BY <1>2, <2>3, <4>1
      <4>2. CASE Count > 1
        <5>1. front' = front /\ back' = back + 1
          BY <1>5, <2>5, <4>2 DEF Pop, PopFrom
        <5> QED BY <1>1, <1>2, <5>1
      <4> QED BY <1>2, <1>5, <4>1, <4>2
    <3>2. /\ Tail(Content) \in Seq(Elem) /\ Len(Tail(Content)) = Count - 1
          /\ \A i \in 1 .. Count - 1 : Tail(Content)[i] = Content[i + 1]
      BY <1>2, <2>2, HeadTailProperties
    <3>3. \A i \in 1 .. Count - 1 : Content'[i] = Content[i + 1]
      <4> TAKE i \in 1 .. Count - 1
      <4>1. /\ back' = back + 1 /\ Content'[i] = data'[back' + i - 1]
            /\ Content[i + 1] = data[back + i] /\ back' + i - 1 = back + i
        BY <1>1, <1>2, <3>1
      <4>2. back + i \in 0 .. nelem - 1 /\ back + i # back
        BY <1>1, <1>2
      <4>3. data' = [data EXCEPT ![back] = Junk]
        BY <2>1, <2>5
      <4> QED BY <1>1, <4>1, <4>2, <4>3
    <3>4. Content' = Tail(Content)
      BY <1>2, <3>1, <3>2, <3>3, SeqEqual
    <3> QED BY <1>3, <2>2, <2>5, <3>4 DEF List!SPop, Content
  <2> QED BY <2>4, <2>5 DEF Side
<1> QED BY <1>4, <1>5

LEMMA PeekRefines ==
  ASSUME IInv, ContentFacts, NEW side \in Side, Peek(side)
  PROVE  List!SPeek(side)
<1>1. back \in Int /\ front \in Int
  BY DEF IInv, TypeOK
<1>2. Content' = Content /\ Pos' = Pos
  BY DEF Peek, array, Content, Count, Pos
<1>3. CASE Count = 0
  <2>1. Content = <<>> /\ out' = None
    BY <1>3, EmptyContent DEF Peek
  <2> QED BY <1>2, <2>1 DEF List!SPeek, Content, Pos
<1>4. CASE Count # 0
  <2>1. Content # <<>> /\ out' = Content[List!EndOf(side)]
    BY <1>1, <1>4, EmptyContent, EndOfContent DEF Peek, EndPlace
  <2> QED BY <1>2, <2>1 DEF List!SPeek, Content, Pos
<1> QED BY <1>3, <1>4

\* The iterator is set to the end that was asked for.
LEMMA FirstRefines ==
  ASSUME IInv, ContentFacts, NEW side \in Side, First(side)
  PROVE  List!SFirst(side)
<1>1. back \in Nat /\ front \in Nat /\ Count = front - back
  BY DEF IInv, TypeOK, Count
<1>2. Content' = Content /\ UNCHANGED array
  BY DEF First, array, Content, Count
<1>3. CASE Count = 0
  <2>1. Content = <<>> /\ out' = None /\ Pos' = Pos
    BY <1>2, <1>3, EmptyContent DEF First, array, Pos
  <2> QED BY <1>2, <2>1 DEF List!SFirst, Content, Pos
<1>4. CASE Count # 0
  <2>1. Content # <<>> /\ out' = Content[List!EndOf(side)]
    BY <1>1, <1>4, EmptyContent, EndOfContent DEF First, EndPlace, Side
  <2>2. /\ steady' \in BOOLEAN /\ steady' /\ back' = back
        /\ iter' = IF side = "back" THEN back ELSE front - 1
    BY <1>4 DEF First, EndPlace, Side, array
  <2>3. Pos' = iter' - back' + 1
    BY <2>2 DEF Pos
  <2>4. List!EndOf(side) = IF side = "front" THEN Count ELSE 1
    BY <1>1, <1>4, EndOfContent
  <2>5. Pos' = List!EndOf(side)
    BY <1>1, <2>2, <2>3, <2>4 DEF Side
  <2> QED BY <1>2, <2>1, <2>5 DEF List!SFirst, Content, Pos
<1> QED BY <1>3, <1>4

\* An iterator nothing has overtaken goes to the neighbour, or stops at the end
\* although only that end is looked at.
LEMMA NextElemRefines ==
  ASSUME IInv, ContentFacts, NEW step \in {1, -1}, NextElem(step), steady
  PROVE  List!SNext(step)
<1>1. /\ back \in Nat /\ front \in Nat /\ Count = front - back /\ Count \in Nat
      /\ iter \in back .. front - 1
  BY DEF IInv, TypeOK, Pending, Count, ContentFacts
<1>2. Content' = Content /\ back' = back /\ steady' = steady
  BY DEF NextElem, array, Content, Count
<1>3. Pos = iter - back + 1 /\ Pos' = iter' - back + 1
  BY <1>2 DEF Pos
<1>4. Pos \in 1 .. Count
  BY <1>1, <1>3
<1>5. DOMAIN Content = 1 .. Count
  BY DEF Content
<1>6. CASE AtEnd(step)
  <2>1. Pos + step \notin DOMAIN Content
    BY <1>1, <1>3, <1>5, <1>6 DEF AtEnd
  <2>2. out' = None /\ Pos' = Pos
    BY <1>3, <1>6 DEF NextElem
  <2> QED BY <1>2, <1>4, <2>1, <2>2 DEF List!SNext, Content, Pos
<1>7. CASE ~AtEnd(step)
  <2>1. Pos + step \in 1 .. Count
    BY <1>1, <1>3, <1>7 DEF AtEnd
  <2>2. iter' = iter + step /\ out' = data[iter + step]
    BY <1>7 DEF NextElem
  <2>3. Pos' = Pos + step
    BY <1>1, <1>3, <2>2
  <2>4. back + (Pos + step) - 1 = iter + step
    BY <1>1, <1>3
  <2>5. out' = Content[Pos + step]
    BY <2>1, <2>2, <2>4 DEF ContentFacts
  <2> QED BY <1>2, <1>4, <1>5, <2>1, <2>3, <2>5 DEF List!SNext, Content, Pos
<1> QED BY <1>6, <1>7

LEMMA ClearRefines ==
  ASSUME IInv, ContentFacts', Clear
  PROVE  List!SClear
<1>1. nelem \in Nat /\ back' = nelem \div 2 /\ front' = nelem \div 2
      /\ steady' \in BOOLEAN /\ ~steady' /\ out' = out
  BY DEF IInv, TypeOK, Clear, Recentered
<1>2. nelem \div 2 \in Nat
  BY <1>1
<1>3. Count' = 0
  BY <1>1, <1>2 DEF Count
<1>4. Content' = <<>>
  BY <1>3, EmptySeq, SeqEqual DEF ContentFacts
<1> QED BY <1>1, <1>4 DEF List!SClear, Content

\* The deque, wherever its elements stand in the array and however often they
\* moved, is a sequence used from both ends.
THEOREM DequeImplementsSides == Spec => ImplementsSides
<1> DEFINE Step ==
             /\ Store => List!SPush(pc, arg)
             /\ \A side \in Side : /\ Pop(side) => List!SPop(side)
                                   /\ Peek(side) => List!SPeek(side)
                                   /\ First(side) => List!SFirst(side)
             /\ \A step \in {1, -1} : (NextElem(step) /\ steady) => List!SNext(step)
             /\ Clear => List!SClear
             /\ (pc # "idle" /\ ~Store) => List!SOther
             /\ \A factor \in Factors : Shrink(factor) => List!SOther
<1>1. IInv /\ IInv' /\ ContentFacts /\ ContentFacts' /\ [Next]_vars => [Step]_vars
  <2> SUFFICES ASSUME IInv, IInv', ContentFacts, ContentFacts', Next PROVE Step
    OBVIOUS
  <2>1. Store => List!SPush(pc, arg)
    BY StoreRefines
  <2>2. ASSUME NEW side \in Side
        PROVE  /\ Pop(side) => List!SPop(side)
               /\ Peek(side) => List!SPeek(side)
               /\ First(side) => List!SFirst(side)
    BY <2>2, PopRefines, PeekRefines, FirstRefines
  <2>3. \A step \in {1, -1} : (NextElem(step) /\ steady) => List!SNext(step)
    BY NextElemRefines
  <2>4. Clear => List!SClear
    BY ClearRefines
  <2>5. ASSUME pc # "idle", ~Store PROVE List!SOther
    <3>1. Grow \/ GrowFails
      BY <2>5 DEF Next, Running, PushCall, Pop, PopFrom, Peek, First, Clear, Shrink, NextElem
    <3>2. CASE Grow
      <4>1. nelem * 2 \in Nat \ {0}
        BY DEF IInv, TypeOK
      <4> QED BY <3>2, <4>1, ResizeRefines DEF Grow, List!SOther, Content
    <3>3. CASE GrowFails
      BY <3>3 DEF GrowFails, array, List!SOther, Count
    <3> QED BY <3>1, <3>2, <3>3
  <2>6. ASSUME NEW factor \in Factors, Shrink(factor) PROVE List!SOther
    <3>1. factor \in Nat \ {0} /\ Count \in Nat /\ factor * Count \in Nat
      BY DEF ContentFacts
    <3>2. (IF factor * Count = 0 THEN 1 ELSE factor * Count) \in Nat \ {0}
      BY <3>1
    <3> QED BY <2>6, <3>2, ResizeRefines DEF Shrink, List!SOther, Content
  <2> QED BY <2>1, <2>2, <2>3, <2>4, <2>5, <2>6
<1>2. ImplementsSides <=> [][Step]_vars
  BY DEF ImplementsSides
<1> QED BY InitIInv, NextIInv, ContentIsSeq, <1>1, <1>2, PTL DEF Spec

HIDE BoundsAssumption
HIDE FailsAssumption
HIDE SizesAssumption
HIDE NoneAssumption

-----------------------------------------------------------------------------
(* The heap *)

\* The loops of upheap() and downheap() stay among the elements; an emptied
\* heap still runs downheap(), at the root.
LoopInTree ==
  /\ treesz > 0
  /\ loop = "up" => node \in 1 .. next - 1
  /\ loop = "down" => node = 0 \/ node \in 1 .. next - 1

HeapInv == HeapOrder /\ LoopInTree

USE RankAssumption, NothingAssumption, HeapSizeAssumption, MaxHeapAssumption

-----------------------------------------------------------------------------
(* The shape of the tree *)

LEMMA ParentBelow ==
  ASSUME NEW n \in Nat \ {0}
  PROVE  Parent(n) \in Nat /\ Parent(n) < n
BY DEF Parent

LEMMA Children ==
  ASSUME NEW n \in Nat \ {0}, NEW p \in Nat
  PROVE  Parent(n) = p <=> n = Left(p) \/ n = Right(p)
BY DEF Parent, Left, Right

LEMMA ChildrenAbove ==
  ASSUME NEW p \in Nat
  PROVE  /\ Left(p) \in Nat \ {0} /\ Right(p) \in Nat \ {0}
         /\ Left(p) > p /\ Right(p) > p /\ Left(p) # Right(p)
         /\ Parent(Left(p)) = p /\ Parent(Right(p)) = p
BY DEF Parent, Left, Right

LEMMA InUse ==
  ASSUME HeapTypeOK
  PROVE  /\ next \in Nat /\ treesz \in Nat /\ next <= treesz /\ node \in Nat
         /\ \A i \in 0 .. next - 1 : tree[i] \in Nat
<1>1. next \in Nat /\ treesz \in Nat /\ next <= treesz /\ node \in Nat
  BY DEF HeapTypeOK
<1>2. ASSUME NEW i \in 0 .. next - 1 PROVE tree[i] \in Nat
  <2>1. tree[i] \in Rank
    BY DEF HeapTypeOK
  <2> QED BY <2>1
<1> QED BY <1>1, <1>2

\* What a swap of two elements in use leaves behind.
LEMMA SwapKeepsType ==
  ASSUME HeapTypeOK, NEW m \in 0 .. next - 1, NEW n \in 0 .. next - 1
  PROVE  /\ Swapped(m, n) \in [0 .. treesz - 1 -> Rank \cup {Rubbish}]
         /\ Swapped(m, n)[n] = tree[m]
         /\ Swapped(m, n)[m] = tree[n]
         /\ \A i \in 0 .. treesz - 1 : i # m /\ i # n => Swapped(m, n)[i] = tree[i]
         /\ \A i \in 0 .. next - 1 : Swapped(m, n)[i] \in Rank
BY DEF HeapTypeOK, Swapped

-----------------------------------------------------------------------------
(* The order *)

LEMMA InitHeapInv == HeapInit => HeapInv
BY DEF HeapInit, HeapInv, HeapOrder, HeapTypeOK, LoopInTree

LEMMA InsertKeepsHeapInv ==
  ASSUME HeapInv, NEW x \in Rank, heap_insert(x)
  PROVE  HeapInv'
<1> USE DEF HeapInv, HeapOrder
<1>1. /\ treesz' \in Nat \ {0} /\ next < treesz' /\ next' = next + 1
      /\ tree' \in [0 .. treesz' - 1 -> Rank \cup {Rubbish}]
      /\ tree'[next] = x
      /\ \A i \in 0 .. next - 1 : tree'[i] = tree[i]
  BY DEF heap_insert, HeapResized, Full, HeapTypeOK, LoopInTree
<1>2. HeapTypeOK'
  BY <1>1 DEF HeapTypeOK, heap_insert
<1>3. LoopInTree'
  BY <1>1 DEF HeapTypeOK, LoopInTree, heap_insert
<1>4. ASSUME NEW n \in 1 .. next' - 1
      PROVE  \/ tree'[Parent(n)] <= tree'[n]
             \/ loop' = "up" /\ n = node'
  <2>1. CASE n = next
    BY <2>1, <1>1 DEF heap_insert, HeapTypeOK
  <2>2. CASE n # next
    <3>1. n \in 1 .. next - 1 /\ Parent(n) \in 0 .. next - 1
      BY <2>2, <1>1, ParentBelow DEF HeapTypeOK
    <3> QED BY <3>1, <1>1 DEF heap_insert, HeapTypeOK
  <2> QED BY <2>1, <2>2
<1>5. ASSUME loop' # "idle", node' > 0, NEW n \in 1 .. next' - 1, Parent(n) = node'
      PROVE  FALSE
  BY <1>5, <1>1, ParentBelow DEF heap_insert, HeapTypeOK
<1> QED BY <1>2, <1>3, <1>4, <1>5

LEMMA UpStepKeepsHeapInv ==
  ASSUME HeapInv, UpStep
  PROVE  HeapInv'
<1> DEFINE p == Parent(node)
<1> USE DEF HeapInv, HeapOrder
<1>1. /\ node \in 1 .. next - 1 /\ p \in 0 .. next - 1 /\ p < node
      /\ tree[node] \in Nat /\ tree[p] \in Nat
  <2>1. node \in 1 .. next - 1
    BY InUse DEF UpStep, LoopInTree
  <2>2. p \in 0 .. next - 1 /\ p < node
    BY <2>1, InUse, ParentBelow
  <2> QED BY <2>1, <2>2, InUse
<1>2. tree[node] < tree[p]
  BY DEF UpStep, LessThanParent
<1>3. /\ tree' \in [0 .. treesz - 1 -> Rank \cup {Rubbish}]
      /\ tree'[p] = tree[node] /\ tree'[node] = tree[p]
      /\ \A i \in 0 .. next - 1 : i # node /\ i # p => tree'[i] = tree[i]
      /\ \A i \in 0 .. next - 1 : tree'[i] \in Rank
  BY <1>1, SwapKeepsType DEF UpStep, HeapTypeOK
<1>4. /\ UNCHANGED <<treesz, count, next, taken>> /\ node' = p
      /\ loop' = IF p = 0 THEN "idle" ELSE "up"
  BY DEF UpStep
<1>5. HeapTypeOK' /\ LoopInTree'
  BY <1>1, <1>3, <1>4 DEF HeapTypeOK, LoopInTree
<1>6. ASSUME NEW n \in 1 .. next - 1, n # node
      PROVE  tree[n] \in Nat /\ Parent(n) \in 0 .. next - 1 /\ tree[Parent(n)] \in Nat
             /\ tree[Parent(n)] <= tree[n]
  <2>1. n \in Nat \ {0} /\ n \in 0 .. next - 1
    BY InUse
  <2>2. Parent(n) \in 0 .. next - 1
    BY <2>1, ParentBelow, InUse
  <2>3. tree[Parent(n)] <= tree[n]
    BY <1>6 DEF UpStep
  <2> QED BY <2>1, <2>2, <2>3, InUse
<1>7. ASSUME NEW n \in 1 .. next - 1, n # p
      PROVE  tree'[Parent(n)] <= tree'[n]
  <2>1. CASE n = node
    BY <2>1, <1>1, <1>2, <1>3
  <2>2. CASE n # node /\ Parent(n) = node
    BY <2>2, <1>1, <1>3, <1>6, <1>7 DEF UpStep
  <2>3. CASE n # node /\ Parent(n) = p
    BY <2>3, <1>1, <1>2, <1>3, <1>6, <1>7
  <2>4. CASE n # node /\ Parent(n) # node /\ Parent(n) # p
    BY <2>4, <1>3, <1>6, <1>7
  <2> QED BY <2>1, <2>2, <2>3, <2>4
<1>8. ASSUME p > 0, NEW n \in 1 .. next - 1, Parent(n) = p
      PROVE  tree'[Parent(p)] <= tree'[n]
  <2>1. /\ Parent(p) \in 0 .. next - 1 /\ Parent(p) < p
        /\ tree[Parent(p)] <= tree[p] /\ tree[Parent(p)] \in Nat
    BY <1>1, <1>6, <1>8, ParentBelow
  <2>2. tree'[Parent(p)] = tree[Parent(p)]
    BY <2>1, <1>1, <1>3
  <2>3. CASE n = node
    BY <2>1, <2>2, <2>3, <1>3
  <2>4. CASE n # node
    <3>1. n # p /\ tree[p] <= tree[n] /\ tree'[n] = tree[n] /\ tree[n] \in Nat
      BY <2>4, <1>3, <1>6, <1>8, ParentBelow
    <3> QED BY <3>1, <2>1, <2>2, <1>1
  <2> QED BY <2>3, <2>4
<1> QED BY <1>1, <1>4, <1>5, <1>7, <1>8

LEMMA UpDoneKeepsHeapInv ==
  ASSUME HeapInv, UpDone
  PROVE  HeapInv'
<1> USE DEF HeapInv, HeapOrder
<1>1. HeapTypeOK' /\ LoopInTree'
  BY DEF UpDone, HeapTypeOK, LoopInTree
<1>2. tree[Parent(node)] <= tree[node]
  <2>1. node \in 1 .. next - 1 /\ Parent(node) \in 0 .. next - 1
    BY ParentBelow DEF UpDone, HeapTypeOK, LoopInTree
  <2>2. tree[node] \in Nat /\ tree[Parent(node)] \in Nat
    BY <2>1, InUse
  <2> QED BY <2>2 DEF UpDone, LessThanParent
<1>3. ASSUME NEW n \in 1 .. next - 1
      PROVE  tree[Parent(n)] <= tree[n]
  BY <1>2 DEF UpDone
<1> QED BY <1>1, <1>3 DEF UpDone

LEMMA RemoveKeepsHeapInv ==
  ASSUME HeapInv, heap_remove
  PROVE  HeapInv'
<1> USE DEF HeapInv, HeapOrder
<1>1. /\ next \in 1 .. treesz /\ next' = next - 1 /\ next' \in Nat
      /\ tree' \in [0 .. treesz - 1 -> Rank \cup {Rubbish}]
      /\ tree'[0] = tree[next - 1] /\ tree'[0] \in Rank
      /\ \A i \in 1 .. next - 1 : tree'[i] = tree[i]
  BY DEF heap_remove, HeapTypeOK
<1>2. HeapTypeOK' /\ LoopInTree'
  BY <1>1 DEF heap_remove, HeapTypeOK, LoopInTree
<1>3. ASSUME NEW n \in 1 .. next' - 1
      PROVE  tree'[Parent(n)] <= tree'[n] \/ Parent(n) = 0
  <2>1. Parent(n) \in Nat /\ Parent(n) < n
    BY ParentBelow
  <2>2. CASE Parent(n) > 0
    BY <2>1, <2>2, <1>1 DEF heap_remove
  <2> QED BY <2>1, <2>2
<1> QED BY <1>1, <1>2, <1>3 DEF heap_remove

LEMMA DownStepKeepsHeapInv ==
  ASSUME HeapInv, DownStep
  PROVE  HeapInv'
<1> DEFINE l == Lesser
<1> USE DEF HeapInv, HeapOrder
<1>1. /\ node \in Nat /\ l \in 1 .. next - 1 /\ node \in 0 .. next - 1
      /\ Parent(l) = node /\ node < l
  <2>1. InHeap(l) /\ l \in {Left(node), Right(node)}
    BY DEF DownStep, BadLeft, BadRight, Lesser
  <2>2. l \in Nat \ {0} /\ Parent(l) = node /\ node < l
    BY <2>1, InUse, ChildrenAbove
  <2> QED BY <2>1, <2>2, InUse DEF InHeap
<1>2. \A i \in 0 .. next - 1 : tree[i] \in Nat
  BY InUse
<1>3. tree[l] < tree[node]
  BY DEF DownStep, BadLeft, BadRight, Lesser
<1>4. ASSUME NEW n \in 1 .. next - 1, Parent(n) = node
      PROVE  tree[l] <= tree[n]
  <2>1. n = Left(node) \/ n = Right(node)
    BY <1>1, <1>4, Children
  <2>2. InHeap(n)
    BY DEF InHeap, HeapTypeOK
  <2>3. /\ InHeap(Left(node)) => tree[Left(node)] \in Nat
        /\ InHeap(Right(node)) => tree[Right(node)] \in Nat
    <3>1. Left(node) \in Nat /\ Right(node) \in Nat
      BY <1>1, ChildrenAbove
    <3> QED BY <3>1, InUse DEF InHeap
  <2> QED
    BY <2>1, <2>2, <2>3, <1>1, <1>2, <1>3 DEF DownStep, BadLeft, BadRight, Lesser
<1>5. /\ tree' \in [0 .. treesz - 1 -> Rank \cup {Rubbish}]
      /\ tree'[node] = tree[l] /\ tree'[l] = tree[node]
      /\ \A i \in 0 .. next - 1 : i # node /\ i # l => tree'[i] = tree[i]
      /\ \A i \in 0 .. next - 1 : tree'[i] \in Rank
  BY <1>1, SwapKeepsType DEF DownStep, HeapTypeOK
<1>6. UNCHANGED <<treesz, count, next, loop, taken>> /\ node' = l /\ loop = "down"
  BY DEF DownStep
<1>7. HeapTypeOK' /\ LoopInTree'
  BY <1>1, <1>5, <1>6 DEF HeapTypeOK, LoopInTree
<1>8. ASSUME NEW n \in 1 .. next - 1
      PROVE  Parent(n) \in 0 .. next - 1 /\ Parent(n) < n
             /\ (Parent(n) # node => tree[Parent(n)] <= tree[n])
  BY <1>6, ParentBelow DEF HeapTypeOK
<1>9. ASSUME NEW n \in 1 .. next - 1, Parent(n) # l
      PROVE  tree'[Parent(n)] <= tree'[n]
  <2>1. CASE n = l
    BY <2>1, <1>1, <1>2, <1>3, <1>5
  <2>2. CASE n = node
    <3>1. Parent(node) \in 0 .. next - 1 /\ Parent(node) # node /\ Parent(node) # l
      BY <2>2, <1>8, <1>9
    <3>2. tree[Parent(node)] <= tree[l]
      BY <2>2, <1>1, <1>6
    <3> QED BY <2>2, <3>1, <3>2, <1>5
  <2>3. CASE n # l /\ n # node /\ Parent(n) = node
    BY <2>3, <1>4, <1>5
  <2>4. CASE n # l /\ n # node /\ Parent(n) # node
    BY <2>4, <1>5, <1>8, <1>9
  <2> QED BY <2>1, <2>2, <2>3, <2>4
<1>10. ASSUME NEW n \in 1 .. next - 1, Parent(n) = l
       PROVE  tree'[Parent(l)] <= tree'[n]
  <2>1. n # l /\ n # node /\ Parent(n) # node
    BY <1>1, <1>8, <1>10
  <2> QED BY <2>1, <1>1, <1>5, <1>8, <1>10
<1> QED BY <1>1, <1>6, <1>7, <1>9, <1>10

LEMMA DownDoneKeepsHeapInv ==
  ASSUME HeapInv, DownDone
  PROVE  HeapInv'
<1> USE DEF HeapInv, HeapOrder
<1>1. HeapTypeOK' /\ LoopInTree'
  BY DEF DownDone, HeapTypeOK, LoopInTree
<1>2. ASSUME NEW n \in 1 .. next - 1
      PROVE  tree[Parent(n)] <= tree[n]
  <2>1. CASE Parent(n) # node
    BY <2>1 DEF DownDone
  <2>2. CASE Parent(n) = node
    <3>1. n = Left(node) \/ n = Right(node)
      BY <2>2, Children DEF HeapTypeOK
    <3>2. InHeap(n) /\ tree[n] \in Nat
      BY InUse DEF InHeap
    <3>3. node \in 0 .. next - 1
      BY <2>2, InUse, ParentBelow
    <3>4. tree[node] \in Nat
      BY <3>3, InUse
    <3> QED BY <2>2, <3>1, <3>2, <3>4 DEF DownDone, BadLeft, BadRight
  <2> QED BY <2>1, <2>2
<1> QED BY <1>1, <1>2 DEF DownDone

LEMMA NextKeepsHeapInv == HeapInv /\ [HeapNext]_heapvars => HeapInv'
<1> SUFFICES ASSUME HeapInv, [HeapNext]_heapvars PROVE HeapInv'
  OBVIOUS
<1>1. CASE heap_remove_none
  BY <1>1 DEF heap_remove_none, HeapInv, HeapOrder, HeapTypeOK, LoopInTree
<1>2. CASE heap_clear
  BY <1>2 DEF heap_clear, HeapInv, HeapOrder, HeapTypeOK, LoopInTree
<1>3. CASE UNCHANGED heapvars
  BY <1>3 DEF heapvars, HeapInv, HeapOrder, HeapTypeOK, LoopInTree
<1> QED
  BY <1>1, <1>2, <1>3, InsertKeepsHeapInv, RemoveKeepsHeapInv, UpStepKeepsHeapInv,
     UpDoneKeepsHeapInv, DownStepKeepsHeapInv, DownDoneKeepsHeapInv DEF HeapNext, Sifting

\* Between calls no element is less than its parent, as HeapOrder says of
\* upheap() and downheap(): the loops end with the tree in order, wherever the
\* moving element stops and however often the array was doubled.
THEOREM OrderKept == HeapSpec => []HeapOrder
<1>1. HeapInv => HeapOrder
  BY DEF HeapInv
<1> QED BY InitHeapInv, NextKeepsHeapInv, <1>1, PTL DEF HeapSpec

-----------------------------------------------------------------------------
(* The priority queue *)

Positions(x) == {i \in 0 .. next - 1 : tree[i] = x}

LEMMA PositionsFinite ==
  ASSUME HeapTypeOK, NEW x
  PROVE  /\ Positions(x) \subseteq 0 .. next - 1
         /\ IsFiniteSet(Positions(x))
         /\ Copies(x) = Cardinality(Positions(x)) /\ Copies(x) \in Nat
         /\ Copies(x) > 0 <=> \E i \in 0 .. next - 1 : tree[i] = x
<1>1. Positions(x) \subseteq 0 .. next - 1
  BY DEF Positions
<1>2. IsFiniteSet(Positions(x))
  <2>1. IsFiniteSet(0 .. next - 1)
    BY InUse, FS_Interval
  <2> QED BY <1>1, <2>1, FS_Subset
<1>3. Copies(x) = Cardinality(Positions(x)) /\ Copies(x) \in Nat
  BY <1>2, FS_CardinalityType DEF Copies, Positions
<1>4. Copies(x) = 0 <=> Positions(x) = {}
  BY <1>2, <1>3, FS_EmptySet
<1> QED BY <1>1, <1>2, <1>3, <1>4 DEF Positions

\* Where an element comes to a place that held another, or leaves it.
LEMMA OneMore ==
  ASSUME NEW S, IsFiniteSet(S), NEW i, i \notin S
  PROVE  Cardinality(S \cup {i}) = Cardinality(S) + 1
BY FS_AddElement

LEMMA OneLess ==
  ASSUME NEW S, IsFiniteSet(S), NEW i \in S
  PROVE  Cardinality(S \ {i}) = Cardinality(S) - 1 /\ IsFiniteSet(S \ {i})
BY FS_RemoveElement

LEMMA OneMoved ==
  ASSUME NEW S, IsFiniteSet(S), NEW i \in S, NEW j, j \notin S
  PROVE  Cardinality((S \ {i}) \cup {j}) = Cardinality(S)
<1>1. IsFiniteSet(S \ {i}) /\ Cardinality(S \ {i}) = Cardinality(S) - 1
  BY OneLess
<1>2. Cardinality((S \ {i}) \cup {j}) = Cardinality(S \ {i}) + 1
  BY <1>1, OneMore
<1>3. Cardinality(S) \in Nat
  BY FS_CardinalityType
<1> QED BY <1>1, <1>2, <1>3

\* The root is a least element: a first place that held a lesser one would have
\* a parent that holds a lesser one, too.
LEMMA RootIsLeast ==
  ASSUME HeapInv, loop = "idle", NEW i \in 0 .. next - 1
  PROVE  tree[0] <= tree[i]
<1> DEFINE Lower == {n \in 0 .. next - 1 : tree[n] < tree[0]}
<1>1. /\ next \in Nat /\ \A n \in 0 .. next - 1 : tree[n] \in Nat
      /\ \A n \in 1 .. next - 1 : tree[Parent(n)] <= tree[n]
  BY InUse DEF HeapInv, HeapOrder
<1>2. SUFFICES ASSUME Lower # {} PROVE FALSE
  BY <1>1
<1>3. Lower \subseteq Nat
  BY <1>1
<1>4. PICK n \in Lower : \A m \in Lower : ~(<<m, n>> \in OpToRel(<, Nat))
  <2> HIDE DEF Lower
  <2> QED BY <1>2, <1>3, NatLessThanWellFounded, WFMin
<1>5. \A m \in Lower : ~(m < n)
  BY <1>3, <1>4 DEF OpToRel
<1>6. n \in 1 .. next - 1
  BY <1>1
<1>7. Parent(n) \in 0 .. next - 1 /\ Parent(n) < n /\ tree[Parent(n)] <= tree[n]
  BY <1>1, <1>6, ParentBelow
<1>8. Parent(n) \in Lower
  BY <1>1, <1>6, <1>7
<1> QED BY <1>5, <1>7, <1>8

LEMMA InsertAdds ==
  ASSUME HeapInv, HeapInv', NEW x \in Rank, heap_insert(x)
  PROVE  Least!PInsert(x)
<1> USE DEF HeapInv, HeapOrder
<1>1. /\ next' = next + 1 /\ next \in Nat /\ tree'[next] = x
      /\ \A i \in 0 .. next - 1 : tree'[i] = tree[i]
  BY DEF heap_insert, HeapResized, Full, HeapTypeOK, LoopInTree
<1>2. Copies(x)' = Copies(x) + 1
  <2>1. Positions(x)' = Positions(x) \cup {next} /\ next \notin Positions(x)
    BY <1>1 DEF Positions
  <2> QED BY <2>1, PositionsFinite, OneMore DEF Copies, Positions
<1>3. ASSUME NEW y \in Rank, y # x PROVE Copies(y)' = Copies(y)
  <2>1. Positions(y)' = Positions(y)
    BY <1>1, <1>3 DEF Positions
  <2> QED BY <2>1 DEF Copies, Positions
<1> QED BY <1>2, <1>3 DEF Least!PInsert, heap_insert

LEMMA SwapKeepsCopies ==
  ASSUME HeapInv, NEW m \in 0 .. next - 1, NEW n \in 0 .. next - 1, m # n,
         tree' = Swapped(m, n), next' = next, NEW x
  PROVE  Copies(x)' = Copies(x)
<1>1. /\ tree'[n] = tree[m] /\ tree'[m] = tree[n]
      /\ \A i \in 0 .. next - 1 : i # m /\ i # n => tree'[i] = tree[i]
  BY SwapKeepsType DEF HeapInv, HeapOrder, HeapTypeOK
<1>2. IsFiniteSet(Positions(x))
  BY PositionsFinite DEF HeapInv, HeapOrder
<1>3. CASE tree[m] = tree[n] \/ (x # tree[m] /\ x # tree[n])
  <2>1. Positions(x)' = Positions(x)
    BY <1>1, <1>3 DEF Positions
  <2> QED BY <2>1 DEF Copies, Positions
<1>4. CASE x = tree[m] /\ x # tree[n]
  <2>1. Positions(x)' = (Positions(x) \ {m}) \cup {n} /\ m \in Positions(x) /\ n \notin Positions(x)
    BY <1>1, <1>4 DEF Positions
  <2> QED BY <2>1, <1>2, OneMoved DEF Copies, Positions
<1>5. CASE x = tree[n] /\ x # tree[m]
  <2>1. Positions(x)' = (Positions(x) \ {n}) \cup {m} /\ n \in Positions(x) /\ m \notin Positions(x)
    BY <1>1, <1>5 DEF Positions
  <2> QED BY <2>1, <1>2, OneMoved DEF Copies, Positions
<1> QED BY <1>3, <1>4, <1>5

LEMMA RemoveTakesLeast ==
  ASSUME HeapInv, HeapInv', heap_remove
  PROVE  \E x \in Rank : Least!PTake(x)
<1> USE DEF HeapInv, HeapOrder
<1> DEFINE last == tree[next - 1]
<1>0. PICK x \in Rank : x = tree[0]
  BY DEF heap_remove, HeapTypeOK
<1>1. /\ next \in Nat \ {0} /\ next' = next - 1
      /\ tree'[0] = last
      /\ \A i \in 1 .. next - 1 : tree'[i] = tree[i]
  BY DEF heap_remove, HeapTypeOK
<1>2. Copies(x) > 0
  BY <1>0, <1>1, PositionsFinite
<1>3. ASSUME NEW y \in Rank, Copies(y) > 0 PROVE x <= y
  <2>1. PICK i \in 0 .. next - 1 : tree[i] = y
    BY <1>3, PositionsFinite
  <2> QED BY <1>0, <2>1, RootIsLeast DEF heap_remove
<1>4. Copies(x)' = Copies(x) - 1
  <2>1. CASE x = last
    <3>1. \A i \in 0 .. next - 2 : tree'[i] = tree[i]
      BY <2>1, <1>0, <1>1
    <3>2. Positions(x)' = {i \in 0 .. next - 2 : tree[i] = x}
      BY <3>1, <1>1 DEF Positions
    <3>3. Positions(x)' = Positions(x) \ {next - 1} /\ next - 1 \in Positions(x)
      BY <3>2, <2>1, <1>1 DEF Positions
    <3> QED BY <3>3, PositionsFinite, OneLess DEF Copies, Positions
  <2>2. CASE x # last
    <3>1. Positions(x)' = Positions(x) \ {0} /\ 0 \in Positions(x)
      BY <2>2, <1>0, <1>1 DEF Positions
    <3> QED BY <3>1, PositionsFinite, OneLess DEF Copies, Positions
  <2> QED BY <2>1, <2>2
<1>5. ASSUME NEW y \in Rank, y # x PROVE Copies(y)' = Copies(y)
  <2>1. CASE y = last
    <3>1. Positions(y)' = (Positions(y) \ {next - 1}) \cup {0}
          /\ next - 1 \in Positions(y) /\ 0 \notin Positions(y)
      BY <2>1, <1>0, <1>1, <1>5 DEF Positions
    <3>2. IsFiniteSet(Positions(y))
      BY PositionsFinite
    <3>3. Cardinality(Positions(y)') = Cardinality(Positions(y))
      BY <3>1, <3>2, OneMoved
    <3> QED BY <3>3 DEF Copies, Positions
  <2>2. CASE y # last
    <3>1. Positions(y)' = Positions(y)
      BY <2>2, <1>0, <1>1, <1>5 DEF Positions
    <3> QED BY <3>1 DEF Copies, Positions
  <2> QED BY <2>1, <2>2
<1>6. taken' = x
  BY <1>0 DEF heap_remove
<1>7. [y \in Rank |-> Copies(y)]' = [[y \in Rank |-> Copies(y)] EXCEPT ![x] = @ - 1]
  BY <1>1, <1>4, <1>5
<1> QED BY <1>1, <1>2, <1>3, <1>6, <1>7 DEF Least!PTake, Least!Holds

\* Every step is one of the priority queue's or changes nothing it knows of.
LEMMA StepImplements ==
  ASSUME HeapInv, HeapInv', [HeapNext]_heapvars
  PROVE  [Least!PNext]_<<[x \in Rank |-> Copies(x)], taken>>
<1> DEFINE bag == [x \in Rank |-> Copies(x)]
<1>1. ASSUME NEW x \in Rank, heap_insert(x) PROVE Least!PNext
  BY <1>1, InsertAdds DEF Least!PNext
<1>2. CASE heap_remove
  BY <1>2, RemoveTakesLeast DEF Least!PNext
<1>3. CASE heap_remove_none
  <2>1. next = 0
    BY <1>3 DEF heap_remove_none, HeapInv, HeapOrder, HeapTypeOK
  <2>2. \A x \in Rank : ~Least!Holds(x)
    BY <2>1, PositionsFinite DEF Least!Holds, HeapInv, HeapOrder
  <2>3. UNCHANGED bag
    BY <1>3 DEF heap_remove_none, Copies
  <2> QED BY <1>3, <2>2, <2>3 DEF heap_remove_none, Least!PTakeNone, Least!PNext
<1>4. CASE heap_clear
  <2>1. \A x \in Rank : Copies(x)' = 0
    <3>1. next' = 0
      BY <1>4 DEF heap_clear
    <3> QED BY <3>1, FS_EmptySet DEF Copies
  <2> QED BY <1>4, <2>1 DEF heap_clear, Least!PClear, Least!PNext
<1>5. CASE UpStep
  <2>1. node \in 0 .. next - 1 /\ Parent(node) \in 0 .. next - 1 /\ Parent(node) # node
    BY <1>5, InUse, ParentBelow DEF UpStep, HeapInv, HeapOrder, LoopInTree
  <2> QED BY <1>5, <2>1, SwapKeepsCopies DEF UpStep
<1>6. CASE DownStep
  <2>1. InHeap(Lesser) /\ Lesser \in {Left(node), Right(node)}
    BY <1>6 DEF DownStep, BadLeft, BadRight, Lesser
  <2>2. node \in 0 .. next - 1 /\ Lesser \in 0 .. next - 1 /\ Lesser # node
    BY <2>1, InUse, ChildrenAbove DEF InHeap, HeapInv, HeapOrder
  <2> QED BY <1>6, <2>2, SwapKeepsCopies DEF DownStep
<1>7. CASE UpDone
  BY <1>7 DEF UpDone, Copies
<1>8. CASE DownDone
  BY <1>8 DEF DownDone, Copies
<1>9. CASE UNCHANGED heapvars
  BY <1>9 DEF heapvars, Copies
<1> QED
  BY <1>1, <1>2, <1>3, <1>4, <1>5, <1>6, <1>7, <1>8, <1>9 DEF HeapNext, Sifting

\* heap.c is a priority queue: nothing inserted is lost or repeated by the
\* loops, the last element's move to the root or a doubling of the array, and
\* heap_remove() returns an element that is least.
THEOREM HeapIsPriorityQueue == HeapSpec => ImplementsPriorityQueue
<1>1. HeapInit => Least!PInit
  <2> SUFFICES ASSUME HeapInit PROVE Least!PInit
    OBVIOUS
  <2>1. \A x \in Rank : Copies(x) = 0
    <3>1. next = 0
      BY DEF HeapInit
    <3> QED BY <3>1, FS_EmptySet DEF Copies
  <2> QED BY <2>1 DEF HeapInit, Least!PInit
<1>2. HeapInv /\ HeapInv' /\ [HeapNext]_heapvars
        => [Least!PNext]_<<[x \in Rank |-> Copies(x)], taken>>
  BY StepImplements
<1> QED
  BY <1>1, <1>2, InitHeapInv, NextKeepsHeapInv, PTL
     DEF HeapSpec, ImplementsPriorityQueue, Least!PSpec

HIDE MaxHeapAssumption
HIDE HeapSizeAssumption
HIDE NothingAssumption
HIDE RankAssumption

-----------------------------------------------------------------------------
(* The dynamic array *)

USE PointerAssumption, IndexAssumption

\* The powers of two are the numbers of subsets.
LEMMA PowerOfTwo ==
  ASSUME NEW k \in Nat
  PROVE  2 ^ k = Cardinality(SUBSET (1 .. k)) /\ IsFiniteSet(SUBSET (1 .. k))
<1>1. IsFiniteSet(1 .. k) /\ Cardinality(1 .. k) = k
  BY FS_Interval
<1> QED BY <1>1, FS_SUBSET

LEMMA Doubles ==
  ASSUME NEW k \in Nat
  PROVE  2 ^ k \in Nat \ {0} /\ 2 ^ (k + 1) = 2 * 2 ^ k
<1> DEFINE S == SUBSET (1 .. k)
           T == SUBSET (1 .. k + 1)
           More == {s \cup {k + 1} : s \in S}
<1>1. /\ 2 ^ k = Cardinality(S) /\ IsFiniteSet(S)
      /\ 2 ^ (k + 1) = Cardinality(T) /\ IsFiniteSet(T)
  <2>1. k + 1 \in Nat
    OBVIOUS
  <2> QED BY <2>1, PowerOfTwo
<1>2. T = S \cup More
  <2>1. ASSUME NEW t \in T PROVE t \in S \cup More
    <3>1. CASE k + 1 \in t
      <4>1. t \ {k + 1} \in S /\ t = (t \ {k + 1}) \cup {k + 1}
        BY <3>1
      <4> QED BY <4>1
    <3>2. CASE k + 1 \notin t
      <4>1. t \in S
        BY <3>2
      <4> QED BY <4>1
    <3> QED BY <3>1, <3>2
  <2>2. S \subseteq T /\ More \subseteq T
    <3>1. 1 .. k \subseteq 1 .. k + 1 /\ k + 1 \in 1 .. k + 1
      OBVIOUS
    <3> QED BY <3>1
  <2> QED BY <2>1, <2>2
<1>3. S \cap More = {}
  <2>1. \A s \in S : k + 1 \notin s
    OBVIOUS
  <2>2. \A s \in More : k + 1 \in s
    OBVIOUS
  <2> QED BY <2>1, <2>2
<1>4. IsFiniteSet(More) /\ Cardinality(More) = Cardinality(S)
  <2> DEFINE f == [s \in S |-> s \cup {k + 1}]
  <2>1. f \in [S -> More] /\ \A w \in More : \E s \in S : f[s] = w
    OBVIOUS
  <2>2. ASSUME NEW s \in S, NEW t \in S, f[s] = f[t] PROVE s = t
    <3>1. s \cup {k + 1} = t \cup {k + 1} /\ k + 1 \notin s /\ k + 1 \notin t
      BY <2>2
    <3> QED BY <3>1
  <2>3. f \in Bijection(S, More)
    <3>1. f \in Injection(S, More)
      BY <2>1, <2>2 DEF Injection, IsInjective
    <3>2. f \in Surjection(S, More)
      BY <2>1 DEF Surjection
    <3> QED BY <3>1, <3>2 DEF Bijection
  <2>4. ExistsBijection(S, More)
    BY <2>3 DEF ExistsBijection
  <2> HIDE DEF S, More
  <2> QED BY <1>1, <2>4, FS_Bijection
<1>5. {} \in S
  OBVIOUS
<1> HIDE DEF S, T, More
<1>6. Cardinality(S) \in Nat \ {0}
  BY <1>1, <1>5, FS_CardinalityType, FS_EmptySet
<1>7. Cardinality(T) = Cardinality(S) + Cardinality(More) - Cardinality({})
  BY <1>1, <1>2, <1>3, <1>4, FS_Union
<1> QED BY <1>1, <1>4, <1>6, <1>7, FS_EmptySet

\* A set of natural numbers has a least element.
LEMMA LeastOf ==
  ASSUME NEW S \in SUBSET Nat, S # {}
  PROVE  \E x \in S : \A y \in S : x <= y
<1> DEFINE R == OpToRel(<, Nat)
<1>1. IsWellFoundedOn(R, Nat)
  BY NatLessThanWellFounded
<1>2. R = {ss \in Nat \X Nat : ss[1] < ss[2]}
  BY DEF OpToRel
<1> HIDE DEF R
<1>3. PICK x \in S : \A y \in S : ~(<<y, x>> \in R)
  BY <1>1, WFMin
<1>4. \A y \in S : ~(y < x)
  BY <1>2, <1>3
<1> QED BY <1>4

LEMMA PowerBeyond ==
  ASSUME NEW k \in Nat
  PROVE  2 ^ k > k
<1> DEFINE S == {j \in Nat : ~(2 ^ j > j)}
<1>1. CASE S # {}
  <2>1. PICK j \in S : \A i \in S : j <= i
    BY <1>1, LeastOf
  <2>2. CASE j = 0
    <3>1. 2 ^ 0 = 1
      OBVIOUS
    <3> QED BY <2>2, <3>1
  <2>3. CASE j # 0
    <3>1. j - 1 \in Nat /\ j - 1 \notin S /\ (j - 1) + 1 = j
      BY <2>1, <2>3
    <3>2. 2 ^ (j - 1) > j - 1
      BY <3>1
    <3>3. 2 ^ (j - 1) \in Nat \ {0} /\ 2 ^ j = 2 * 2 ^ (j - 1)
      BY <3>1, Doubles
    <3> QED BY <3>1, <3>2, <3>3
  <2> QED BY <2>2, <2>3
<1>2. CASE S = {}
  BY <1>2
<1> QED BY <1>1, <1>2

\* provide_index() grows the array beyond the index, for every index.
LEMMA NextPowerBeyond ==
  ASSUME NEW index \in Nat
  PROVE  NextPower(index) \in Nat /\ NextPower(index) > index
<1> DEFINE S == {k \in 0 .. index : 2 ^ k > index}
<1>1. S \in SUBSET Nat /\ index \in S
  BY PowerBeyond
<1>2. PICK k \in S : \A j \in S : k <= j
  BY <1>1, LeastOf
<1>3. 2 ^ k = 1 \/ 2 ^ k \div 2 <= index
  <2>1. CASE k = 0
    <3>1. 2 ^ 0 = 1
      OBVIOUS
    <3> QED BY <2>1, <3>1
  <2>2. CASE k # 0
    <3>1. k - 1 \in Nat /\ k - 1 \in 0 .. index /\ k - 1 \notin S /\ (k - 1) + 1 = k
      BY <1>2, <2>2
    <3>2. 2 ^ (k - 1) \in Nat \ {0} /\ 2 ^ k = 2 * 2 ^ (k - 1)
      BY <3>1, Doubles
    <3>3. ~(2 ^ (k - 1) > index)
      BY <3>1
    <3>4. 2 ^ k \div 2 = 2 ^ (k - 1)
      BY <3>2
    <3> QED BY <3>2, <3>3, <3>4
  <2> QED BY <2>1, <2>2
<1>4. \E n \in {2 ^ j : j \in 0 .. index} : n > index /\ (n = 1 \/ n \div 2 <= index)
  BY <1>2, <1>3
<1>5. \E j \in 0 .. index : NextPower(index) = 2 ^ j /\ 2 ^ j > index
  BY <1>4 DEF NextPower
<1>6. \A j \in 0 .. index : 2 ^ j \in Nat
  BY Doubles
<1> QED BY <1>5, <1>6

-----------------------------------------------------------------------------
(* The array *)

Array(n, u, b, x) == [nelem |-> n, nused |-> u, nulling |-> b, data |-> x]
Place(n) == 0 .. n - 1
Memory(n) == [Place(n) -> Pointer \cup {NULL, Unwritten}]

Good(a) ==
  \E n \in Nat, b \in BOOLEAN : \E u \in 0 .. n, x \in Memory(n) : a = Array(n, u, b, x)

LEMMA GoodIs ==
  ASSUME NEW a, Good(a)
  PROVE  /\ a.nelem \in Nat /\ a.nused \in 0 .. a.nelem /\ a.nulling \in BOOLEAN
         /\ a.data \in Memory(a.nelem)
         /\ a = Array(a.nelem, a.nused, a.nulling, a.data)
<1>1. PICK n \in Nat, b \in BOOLEAN : \E u \in 0 .. n, x \in Memory(n) : a = Array(n, u, b, x)
  BY DEF Good
<1>2. PICK u \in 0 .. n, x \in Memory(n) : a = Array(n, u, b, x)
  BY <1>1
<1>3. a.nelem = n /\ a.nused = u /\ a.nulling = b /\ a.data = x
  BY <1>2 DEF Array
<1> QED BY <1>1, <1>2, <1>3

LEMMA IsGood ==
  ASSUME NEW n \in Nat, NEW u \in 0 .. n, NEW b \in BOOLEAN, NEW x \in Memory(n)
  PROVE  /\ Good(Array(n, u, b, x))
         /\ Array(n, u, b, x).nelem = n /\ Array(n, u, b, x).nused = u
         /\ Array(n, u, b, x).nulling = b /\ Array(n, u, b, x).data = x
<1>1. Good(Array(n, u, b, x))
  BY DEF Good
<1> QED BY <1>1 DEF Array

\* Other memory for the same elements: what is in use is where it was, a place
\* behind it as it was or fresh.
Carried(a, r) ==
  /\ Good(r) /\ r.nused = a.nused /\ r.nulling = a.nulling
  /\ \A i \in Place(r.nelem) :
       \/ i \in Place(a.nelem) /\ r.data[i] = a.data[i]
       \/ i >= a.nused /\ r.data[i] = Fresh(a.nulling)

LEMMA CarriedKeeps ==
  ASSUME NEW a, Good(a), NEW r, Carried(a, r), NEW i \in Place(a.nused)
  PROVE  i \in Place(r.nelem) /\ i \in Place(r.nused) /\ r.data[i] = a.data[i]
<1>1. /\ a.nused \in Nat /\ r.nelem \in Nat /\ r.nused \in 0 .. r.nelem
      /\ r.nused = a.nused
  BY GoodIs DEF Carried
<1>2. i \in Place(r.nelem) /\ i \in Place(r.nused) /\ ~(i >= a.nused)
  BY <1>1 DEF Place
<1> QED BY <1>2 DEF Carried

LEMMA ResizedMoves ==
  ASSUME NEW a, Good(a), NEW n \in Nat, n >= a.nused
  PROVE  Carried(a, Resized(a, n)) /\ Resized(a, n).nelem = n
<1> DEFINE u == a.nused
           b == a.nulling
           x == [i \in Place(n) |-> IF i < u THEN a.data[i] ELSE Fresh(b)]
<1>1. /\ a.nelem \in Nat /\ u \in 0 .. a.nelem /\ b \in BOOLEAN /\ a.data \in Memory(a.nelem)
      /\ a = Array(a.nelem, u, b, a.data)
  BY GoodIs
<1>2. Smaller(n, u) = u
  BY <1>1 DEF Smaller
<1>3. Resized(a, n) = Array(n, u, b, x)
  <2>1. Resized(a, n) = [a EXCEPT !.nelem = n, !.nused = u, !.data = x]
    BY <1>2 DEF Resized, Place
  <2> HIDE DEF x
  <2> QED BY <1>1, <2>1 DEF Array
<1>4. \A i \in Place(n) : i < u => i \in Place(a.nelem)
  BY <1>1 DEF Place
<1>5. Fresh(b) \in Pointer \cup {NULL, Unwritten}
  BY DEF Fresh
<1>6. x \in Memory(n)
  <2>1. ASSUME NEW i \in Place(n)
        PROVE  (IF i < u THEN a.data[i] ELSE Fresh(b)) \in Pointer \cup {NULL, Unwritten}
    BY <1>1, <1>4, <1>5 DEF Memory
  <2> HIDE DEF u, b
  <2> QED BY <2>1 DEF Memory
<1>7. \A i \in Place(n) :
        \/ i \in Place(a.nelem) /\ x[i] = a.data[i]
        \/ i >= u /\ x[i] = Fresh(b)
  <2>1. \A i \in Place(n) : i < u \/ i >= u
    BY <1>1 DEF Place
  <2> QED BY <1>4, <2>1
<1>8. u \in 0 .. n
  BY <1>1
<1> HIDE DEF x, u, b
<1>9. /\ Good(Resized(a, n)) /\ Resized(a, n).nelem = n /\ Resized(a, n).nused = u
      /\ Resized(a, n).nulling = b /\ Resized(a, n).data = x
  BY <1>1, <1>3, <1>6, <1>8, IsGood
<1> QED BY <1>7, <1>9 DEF Carried, u, b

\* provide_index()
LEMMA ProvidedMoves ==
  ASSUME NEW a, Good(a), NEW index \in Nat
  PROVE  Carried(a, Provided(a, index)) /\ index \in Place(Provided(a, index).nelem)
<1>1. a.nelem \in Nat /\ a.nused \in 0 .. a.nelem
  BY GoodIs
<1>2. CASE index < a.nelem
  <2>1. Provided(a, index) = a
    BY <1>2 DEF Provided
  <2> QED BY <1>1, <1>2, <2>1 DEF Carried, Place
<1>3. CASE ~(index < a.nelem)
  <2>1. NextPower(index) \in Nat /\ NextPower(index) > index
    BY NextPowerBeyond
  <2>2. NextPower(index) >= a.nused
    BY <1>1, <1>3, <2>1
  <2>3. Provided(a, index) = Resized(a, NextPower(index))
    BY <1>3 DEF Provided
  <2>4. index \in Place(NextPower(index))
    BY <2>1 DEF Place
  <2> QED BY <2>1, <2>2, <2>3, <2>4, ResizedMoves
<1> QED BY <1>2, <1>3

Sized(a, v) == [a EXCEPT !.nused = v]
With(a, y, v) == [a EXCEPT !.nused = v, !.data = y]
StoredIn(a, index, x, v) == Sized([a EXCEPT !.data[index] = x], v)

LEMMA WithIs ==
  ASSUME NEW n, NEW u, NEW b, NEW x, NEW v, NEW y
  PROVE  /\ Sized(Array(n, u, b, x), v) = Array(n, v, b, x)
         /\ With(Array(n, u, b, x), y, v) = Array(n, v, b, y)
<1>1. Sized(Array(n, u, b, x), v) = Array(n, v, b, x)
  BY DEF Array, Sized
<1>2. With(Array(n, u, b, x), y, v) = Array(n, v, b, y)
  <2>1. [Array(n, u, b, x) EXCEPT !.nused = v] = Array(n, v, b, x)
    BY DEF Array
  <2>2. [Array(n, v, b, x) EXCEPT !.data = y] = Array(n, v, b, y)
    BY DEF Array
  <2> QED BY <2>1, <2>2 DEF With
<1> QED BY <1>1, <1>2

\* A pointer stored in a place there is memory for.
LEMMA StoredIs ==
  ASSUME NEW a, Good(a), NEW index \in Place(a.nelem), NEW x \in Pointer,
         NEW u \in 0 .. a.nelem
  PROVE  /\ Good(StoredIn(a, index, x, u))
         /\ StoredIn(a, index, x, u).nelem = a.nelem
         /\ StoredIn(a, index, x, u).nused = u
         /\ StoredIn(a, index, x, u).nulling = a.nulling
         /\ StoredIn(a, index, x, u).data = [a.data EXCEPT ![index] = x]
<1> DEFINE n == a.nelem
           b == a.nulling
           y == [a.data EXCEPT ![index] = x]
<1>1. /\ n \in Nat /\ b \in BOOLEAN /\ a.data \in Memory(n)
      /\ a = Array(n, a.nused, b, a.data)
  BY GoodIs
<1>2. y \in Memory(n)
  BY <1>1 DEF Memory
<1>3. StoredIn(a, index, x, u) = Array(n, u, b, y)
  <2>1. [a EXCEPT !.data[index] = x] = With(a, y, a.nused)
    <3>1. [a EXCEPT !.data[index] = x] = [a EXCEPT !.data = y]
      OBVIOUS
    <3> HIDE DEF y
    <3>2. [Array(n, a.nused, b, a.data) EXCEPT !.data = y] = Array(n, a.nused, b, y)
      BY DEF Array
    <3> QED BY <1>1, <3>1, <3>2, WithIs
  <2> HIDE DEF y, n, b
  <2>2. With(a, y, a.nused) = Array(n, a.nused, b, y)
    BY <1>1, WithIs
  <2> QED BY <2>1, <2>2, WithIs DEF StoredIn
<1> HIDE DEF n, b, y
<1>4. Good(Array(n, u, b, y)) /\ Array(n, u, b, y).nelem = n /\ Array(n, u, b, y).nused = u
      /\ Array(n, u, b, y).nulling = b /\ Array(n, u, b, y).data = y
  BY <1>1, <1>2, IsGood DEF n
<1> QED BY <1>3, <1>4 DEF n, b, y

-----------------------------------------------------------------------------
(* The inductive invariant: an array that was made is a record of its size,   *)
(* and its memory is as long as it says.                                      *)

DynarrInv == UnwrittenIsNull /\ (Made => Good(d))

\* Outside the places S the memory holds what it held, or is fresh.
Outside(S) ==
  /\ Good(d') /\ d'.nulling = d.nulling
  /\ \A i \in Place(d'.nelem) \ S :
       \/ i \in Place(d.nelem) /\ d'.data[i] = d.data[i]
       \/ d'.data[i] = Fresh(d.nulling)

LEMMA TypeOfGood ==
  ASSUME Good(d'), diter' \in [set : BOOLEAN, at : Nat], written' \subseteq Nat
  PROVE  SizeFits'
BY GoodIs DEF SizeFits, Memory, Place, Made

LEMMA NullKept ==
  ASSUME DynarrInv, Made, NEW S, Outside(S), diter' \in [set : BOOLEAN, at : Nat],
         written' \subseteq Nat, \A i \in Nat : i \notin written' => i \notin written /\ i \notin S
  PROVE  DynarrInv'
<1>1. SizeFits'
  BY TypeOfGood DEF Outside
<1>2. ASSUME d'.nulling, NEW i \in Place(d'.nelem), i \notin written' PROVE d'.data[i] = NULL
  <2>1. i \in Nat
    BY <1>1 DEF SizeFits, Place
  <2>2. i \notin written /\ i \in Place(d'.nelem) \ S
    BY <1>2, <2>1
  <2>3. d.nulling
    BY <1>2 DEF Outside
  <2>4. Fresh(d.nulling) = NULL
    BY <2>3 DEF Fresh
  <2>5. i \in Place(d.nelem) => d.data[i] = NULL
    BY <2>2, <2>3 DEF DynarrInv, UnwrittenIsNull, Place
  <2> QED BY <2>2, <2>4, <2>5 DEF Outside
<1> QED BY <1>1, <1>2 DEF DynarrInv, UnwrittenIsNull, Outside, Place

LEMMA CarriedOutside ==
  ASSUME Carried(d, d')
  PROVE  Outside({})
BY DEF Carried, Outside

LEMMA InitKeeps == DynarrInit => DynarrInv
BY DEF DynarrInit, DynarrInv, UnwrittenIsNull, SizeFits, Made, NoArray, NoIter

LEMMA MakeKeeps ==
  ASSUME DynarrInv, NEW n \in FirstSizes, NEW nulling \in BOOLEAN, dynarr_init(n, nulling)
  PROVE  DynarrInv'
<1> DEFINE x == [i \in Place(n) |-> Fresh(nulling)]
<1>1. n \in Nat /\ n \in 0 .. n
  OBVIOUS
<1>2. x \in Memory(n) /\ \A i \in Place(n) : x[i] = Fresh(nulling)
  BY DEF Memory, Fresh
<1>3. d' = Array(n, n, nulling, x) /\ diter' = diter /\ written' = written
  BY DEF dynarr_init, Array, Place
<1> HIDE DEF x
<1>4. /\ Good(d') /\ d'.nelem = n /\ d'.nulling = nulling /\ d'.data = x
  BY <1>1, <1>2, <1>3, IsGood
<1>5. SizeFits'
  BY <1>3, <1>4, TypeOfGood DEF DynarrInv, UnwrittenIsNull, SizeFits
<1>6. ASSUME d'.nulling, NEW i \in Place(d'.nelem) PROVE d'.data[i] = NULL
  <2>1. nulling
    BY <1>4, <1>6
  <2>2. Fresh(nulling) = NULL
    BY <2>1 DEF Fresh
  <2> QED BY <1>2, <1>4, <1>6, <2>2
<1> QED BY <1>4, <1>5, <1>6 DEF DynarrInv, UnwrittenIsNull, Place

\* dynarr_get() and dynarr_shrink()
LEMMA MoveKeeps ==
  ASSUME DynarrInv, Made, Carried(d, d'), UNCHANGED <<diter, written>>
  PROVE  DynarrInv'
<1>1. Outside({})
  BY CarriedOutside
<1>2. diter' \in [set : BOOLEAN, at : Nat] /\ written' \subseteq Nat
  BY DEF DynarrInv, UnwrittenIsNull, SizeFits
<1>3. \A i \in Nat : i \notin written' => i \notin written /\ i \notin {}
  OBVIOUS
<1> QED BY <1>1, <1>2, <1>3, NullKept

LEMMA GetMoves ==
  ASSUME DynarrInv, NEW index \in Nat, dynarr_get(index)
  PROVE  Carried(d, d')
<1>1. Good(d) /\ d' = Provided(d, index)
  BY DEF dynarr_get, DynarrInv
<1> QED BY <1>1, ProvidedMoves

LEMMA ShrinkMoves ==
  ASSUME DynarrInv, NEW countfac \in Nat \ {0}, dynarr_shrink(countfac)
  PROVE  Carried(d, d')
<1>1. Good(d) /\ d' = Resized(d, countfac * d.nused)
  BY DEF dynarr_shrink, DynarrInv
<1>2. d.nused \in Nat
  BY <1>1, GoodIs
<1>3. countfac * d.nused \in Nat /\ countfac * d.nused >= d.nused
  <2>1. \A a \in Nat, b \in Nat \ {0} : b * a \in Nat /\ b * a >= a
    OBVIOUS
  <2> QED BY <1>2, <2>1
<1> QED BY <1>1, <1>3, ResizedMoves

\* A pointer is written to a place, and the size becomes u.
LEMMA WriteIs ==
  ASSUME DynarrInv, Made, NEW index \in Nat, NEW x \in Pointer, NEW u \in Nat,
         u \in {d.nused, index + 1}, d' = [Stored(index, x) EXCEPT !.nused = u]
  PROVE  /\ Outside({index}) /\ d'.nused = u
         /\ \A i \in Place(d.nused) : i # index => i \in Place(d'.nelem) /\ d'.data[i] = d.data[i]
<1> DEFINE p == Provided(d, index)
<1>1. Good(d) /\ Carried(d, p) /\ index \in Place(p.nelem)
  BY ProvidedMoves DEF DynarrInv
<1>2. /\ p.nelem \in Nat /\ p.nused \in 0 .. p.nelem /\ p.nused = d.nused /\ Good(p)
      /\ p.data \in Memory(p.nelem) /\ p.nulling = d.nulling
  BY <1>1, GoodIs DEF Carried
<1>3. u \in 0 .. p.nelem
  BY <1>1, <1>2 DEF Place
<1>4. d' = StoredIn(p, index, x, u)
  BY DEF Stored, StoredIn, Sized
<1> HIDE DEF p
<1>5. /\ Good(d') /\ d'.nelem = p.nelem /\ d'.nused = u /\ d'.nulling = p.nulling
      /\ d'.data = [p.data EXCEPT ![index] = x]
  <2>1. /\ Good(StoredIn(p, index, x, u))
        /\ StoredIn(p, index, x, u).nelem = p.nelem
        /\ StoredIn(p, index, x, u).nused = u
        /\ StoredIn(p, index, x, u).nulling = p.nulling
        /\ StoredIn(p, index, x, u).data = [p.data EXCEPT ![index] = x]
    BY <1>1, <1>2, <1>3, StoredIs
  <2> QED BY <1>4, <2>1
<1>6. \A i \in Place(p.nelem) : i # index => d'.data[i] = p.data[i]
  BY <1>2, <1>5 DEF Memory
<1>7. Outside({index})
  BY <1>1, <1>2, <1>5, <1>6 DEF Outside, Carried
<1>8. ASSUME NEW i \in Place(d.nused), i # index
      PROVE  i \in Place(d'.nelem) /\ d'.data[i] = d.data[i]
  BY <1>1, <1>5, <1>6, <1>8, CarriedKeeps
<1> QED BY <1>5, <1>7, <1>8

LEMMA PutWrites ==
  ASSUME DynarrInv, NEW index \in Nat, NEW x \in Pointer, dynarr_put(index, x)
  PROVE  \E u \in Nat : /\ u \in {d.nused, index + 1} /\ u >= d.nused
                        /\ d' = [Stored(index, x) EXCEPT !.nused = u]
<1>1. Good(d) /\ Carried(d, Provided(d, index))
  BY ProvidedMoves DEF dynarr_put, DynarrInv
<1>2. /\ d.nused \in Nat /\ Good(Provided(d, index))
      /\ Provided(d, index).nused = d.nused
  BY <1>1, GoodIs DEF Carried
<1>3. Stored(index, x).nused = d.nused
  BY <1>2 DEF Stored
<1>4. d' = [Stored(index, x) EXCEPT !.nused = IF index >= d.nused THEN index + 1 ELSE d.nused]
  BY <1>3 DEF dynarr_put
<1>5. CASE index >= d.nused
  BY <1>2, <1>4, <1>5
<1>6. CASE ~(index >= d.nused)
  BY <1>2, <1>4, <1>6
<1> QED BY <1>5, <1>6

LEMMA PushWrites ==
  ASSUME DynarrInv, NEW x \in Pointer, dynarr_push(x)
  PROVE  d.nused \in Nat /\ d' = [Stored(d.nused, x) EXCEPT !.nused = d.nused + 1]
<1>1. Good(d)
  BY DEF dynarr_push, DynarrInv
<1>2. d.nused \in Nat
  BY <1>1, GoodIs
<1>3. Provided(d, d.nused).nused = d.nused
  BY <1>1, <1>2, ProvidedMoves DEF Carried
<1>4. Stored(d.nused, x).nused = d.nused
  BY <1>3 DEF Stored
<1> QED BY <1>2, <1>4 DEF dynarr_push

LEMMA WriteKeeps ==
  ASSUME DynarrInv, Made, NEW index \in Nat, NEW x \in Pointer, NEW u \in Nat,
         u \in {d.nused, index + 1}, d' = [Stored(index, x) EXCEPT !.nused = u],
         diter' = diter, written' = written \cup {index}
  PROVE  DynarrInv'
<1>1. Outside({index})
  BY WriteIs
<1>2. diter' \in [set : BOOLEAN, at : Nat] /\ written' \subseteq Nat
  BY DEF DynarrInv, UnwrittenIsNull, SizeFits
<1>3. \A i \in Nat : i \notin written' => i \notin written /\ i \notin {index}
  OBVIOUS
<1> QED BY <1>1, <1>2, <1>3, NullKept

\* dynarr_clear() and dynarr_truncate()
LEMMA CutIs ==
  ASSUME DynarrInv, Made, NEW u \in Nat, u <= d.nelem, NEW y,
         y \in Memory(d.nelem), d' = With(d, y, u)
  PROVE  Good(d') /\ d'.nelem = d.nelem /\ d'.nused = u /\ d'.nulling = d.nulling /\ d'.data = y
<1>1. /\ d.nelem \in Nat /\ d.nulling \in BOOLEAN
      /\ d = Array(d.nelem, d.nused, d.nulling, d.data)
  BY GoodIs DEF DynarrInv
<1>2. u \in 0 .. d.nelem
  BY <1>1
<1>3. d' = Array(d.nelem, u, d.nulling, y)
  BY <1>1, WithIs
<1> QED BY <1>1, <1>2, <1>3, IsGood

LEMMA TruncateIs ==
  ASSUME DynarrInv, NEW fromindex \in Nat, dynarr_truncate(fromindex)
  PROVE  /\ Good(d') /\ d'.nelem = d.nelem /\ d'.nused = fromindex
         /\ d'.nulling = d.nulling
         /\ \A i \in Place(d.nelem) :
              d'.data[i] = IF d.nulling /\ i >= fromindex THEN NULL ELSE d.data[i]
<1> DEFINE y == [i \in DOMAIN d.data |->
                   IF d.nulling /\ i >= fromindex THEN NULL ELSE d.data[i]]
<1>1. /\ Made /\ fromindex <= d.nelem /\ Good(d)
      /\ d' = [d EXCEPT !.nused = fromindex, !.data = y]
  BY DEF dynarr_truncate, DynarrInv
<1>2. d.nelem \in Nat /\ d.data \in Memory(d.nelem) /\ DOMAIN d.data = Place(d.nelem)
  BY <1>1, GoodIs DEF Memory
<1>3. y \in Memory(d.nelem)
  BY <1>2 DEF Memory
<1>4. \A i \in Place(d.nelem) :
        y[i] = IF d.nulling /\ i >= fromindex THEN NULL ELSE d.data[i]
  BY <1>2
<1> HIDE DEF y
<1>5. d' = With(d, y, fromindex)
  BY <1>1 DEF With
<1> QED BY <1>1, <1>3, <1>4, <1>5, CutIs

LEMMA TruncateKeeps ==
  ASSUME DynarrInv, NEW fromindex \in Nat, dynarr_truncate(fromindex)
  PROVE  DynarrInv'
<1>1. /\ written' = {i \in written : i < fromindex} /\ diter' = diter
      /\ Made /\ written \subseteq Nat /\ diter \in [set : BOOLEAN, at : Nat]
  BY DEF dynarr_truncate, DynarrInv, UnwrittenIsNull, SizeFits
<1>2. /\ Good(d') /\ d'.nelem = d.nelem /\ d'.nulling = d.nulling
      /\ \A i \in Place(d.nelem) :
           d'.data[i] = IF d.nulling /\ i >= fromindex THEN NULL ELSE d.data[i]
  BY TruncateIs
<1>3. SizeFits'
  BY <1>1, <1>2, TypeOfGood
<1>4. ASSUME d'.nulling, NEW i \in Place(d'.nelem), i \notin written' PROVE d'.data[i] = NULL
  <2>1. d.nulling /\ i \in Place(d.nelem) /\ i \in Nat
    BY <1>2, <1>3, <1>4 DEF SizeFits, Place
  <2>2. CASE i >= fromindex
    BY <1>2, <2>1, <2>2
  <2>3. CASE ~(i >= fromindex)
    <3>1. i \notin written
      BY <1>1, <1>4, <2>1, <2>3
    <3>2. d.data[i] = NULL
      BY <1>1, <2>1, <3>1 DEF DynarrInv, UnwrittenIsNull, Place
    <3> QED BY <1>2, <2>1, <2>3, <3>2
  <2> QED BY <2>2, <2>3
<1> QED BY <1>2, <1>3, <1>4 DEF DynarrInv, UnwrittenIsNull, Place

LEMMA ClearKeeps ==
  ASSUME DynarrInv, dynarr_clear
  PROVE  DynarrInv'
<1>1. Made /\ Good(d) /\ d' = [d EXCEPT !.nused = 0] /\ UNCHANGED <<diter, written>>
  BY DEF dynarr_clear, DynarrInv
<1>2. /\ d.nelem \in Nat /\ d.data \in Memory(d.nelem)
      /\ d = Array(d.nelem, d.nused, d.nulling, d.data)
  BY <1>1, GoodIs
<1>3. d' = With(d, d.data, 0)
  <2>1. d' = Sized(d, 0)
    BY <1>1 DEF Sized
  <2> QED BY <1>2, <2>1, WithIs
<1>4. Good(d') /\ d'.nelem = d.nelem /\ d'.nulling = d.nulling /\ d'.data = d.data
  BY <1>1, <1>2, <1>3, CutIs
<1>5. Outside({})
  BY <1>4 DEF Outside
<1>6. diter' \in [set : BOOLEAN, at : Nat] /\ written' \subseteq Nat
  BY <1>1 DEF DynarrInv, UnwrittenIsNull, SizeFits
<1>7. \A i \in Nat : i \notin written' => i \notin written /\ i \notin {}
  BY <1>1
<1> QED BY <1>1, <1>5, <1>6, <1>7, NullKept

LEMMA IterateKeeps ==
  ASSUME DynarrInv, NEW from \in Nat, Iterate(from)
  PROVE  DynarrInv'
<1>1. diter' \in [set : BOOLEAN, at : Nat] /\ d' = d /\ written' = written
  BY DEF Iterate
<1> QED BY <1>1 DEF DynarrInv, UnwrittenIsNull, SizeFits, Made

LEMMA NextKeeps == DynarrInv /\ [DynarrNext]_dynarr => DynarrInv'
<1> SUFFICES ASSUME DynarrInv, [DynarrNext]_dynarr PROVE DynarrInv'
  OBVIOUS
<1>1. ASSUME NEW n \in FirstSizes, NEW nulling \in BOOLEAN, dynarr_init(n, nulling)
      PROVE  DynarrInv'
  BY <1>1, MakeKeeps
<1>2. ASSUME NEW index \in Index, dynarr_get(index) PROVE DynarrInv'
  <2>1. Made /\ UNCHANGED <<diter, written>>
    BY <1>2 DEF dynarr_get
  <2> QED BY <1>2, <2>1, GetMoves, MoveKeeps
<1>3. ASSUME NEW index \in Index, dynarr_truncate(index) PROVE DynarrInv'
  BY <1>3, TruncateKeeps
<1>4. ASSUME NEW index \in Index, NEW x \in Pointer, dynarr_put(index, x) PROVE DynarrInv'
  <2>1. PICK u \in Nat : /\ u \in {d.nused, index + 1}
                         /\ d' = [Stored(index, x) EXCEPT !.nused = u]
    BY <1>4, PutWrites
  <2>2. Made /\ diter' = diter /\ written' = written \cup {index}
    BY <1>4 DEF dynarr_put
  <2> QED BY <2>1, <2>2, WriteKeeps
<1>5. ASSUME NEW x \in Pointer, dynarr_push(x) PROVE DynarrInv'
  <2>1. d.nused \in Nat /\ d' = [Stored(d.nused, x) EXCEPT !.nused = d.nused + 1]
    BY <1>5, PushWrites
  <2>2. Made /\ diter' = diter /\ written' = written \cup {d.nused}
    BY <1>5 DEF dynarr_push
  <2>3. d.nused + 1 \in Nat
    BY <2>1
  <2> QED BY <2>1, <2>2, <2>3, WriteKeeps
<1>6. CASE dynarr_clear
  BY <1>6, ClearKeeps
<1>7. ASSUME NEW countfac \in CountFactors, dynarr_shrink(countfac) PROVE DynarrInv'
  <2>1. Made /\ UNCHANGED <<diter, written>>
    BY <1>7 DEF dynarr_shrink
  <2> QED BY <1>7, <2>1, ShrinkMoves, MoveKeeps
<1>8. CASE dynarr_first
  BY <1>8, IterateKeeps DEF dynarr_first
<1>9. CASE dynarr_next
  <2>1. diter.at \in Nat
    BY DEF DynarrInv, UnwrittenIsNull, SizeFits
  <2> QED BY <1>9, <2>1, IterateKeeps DEF dynarr_next
<1>10. CASE UNCHANGED dynarr
  BY <1>10 DEF dynarr, DynarrInv, UnwrittenIsNull, SizeFits, Made
<1> QED
  BY <1>1, <1>2, <1>3, <1>4, <1>5, <1>6, <1>7, <1>8, <1>9, <1>10 DEF DynarrNext

LEMMA DynarrInductive == DynarrSpec => []DynarrInv
<1> QED BY InitKeeps, NextKeeps, PTL DEF DynarrSpec

\* A place nobody wrote, or that was cut off since, reads NULL, wherever the array
\* grew or shrank in between; and the memory is never less than what is in use.
THEOREM UnwrittenReadsNull == DynarrSpec => []UnwrittenIsNull
<1>1. DynarrInv => UnwrittenIsNull
  BY DEF DynarrInv
<1> QED BY <1>1, DynarrInductive, PTL

-----------------------------------------------------------------------------
(* What a call leaves alone *)

LEMMA MoveLeaves ==
  ASSUME DynarrInv, Made, Carried(d, d')
  PROVE  Kept(DOMAIN d.data) /\ d'.nused = d.nused
<1>1. /\ Good(d) /\ d.nused \in 0 .. d.nelem /\ d.nelem \in Nat
      /\ DOMAIN d.data = Place(d.nelem)
  BY GoodIs DEF DynarrInv, Memory
<1>2. d'.nused = d.nused
  BY DEF Carried
<1>3. ASSUME NEW i \in DOMAIN d.data, i < d.nused PROVE i < d'.nused /\ d'.data[i] = d.data[i]
  <2>1. i \in Place(d.nused)
    BY <1>1, <1>3 DEF Place
  <2> QED BY <1>1, <1>2, <1>3, <2>1, CarriedKeeps
<1> QED BY <1>2, <1>3 DEF Kept

LEMMA WriteLeaves ==
  ASSUME DynarrInv, Made, NEW index \in Nat, NEW x \in Pointer, NEW u \in Nat,
         u \in {d.nused, index + 1}, u >= d.nused,
         d' = [Stored(index, x) EXCEPT !.nused = u]
  PROVE  Kept(DOMAIN d.data \ {index})
<1>1. /\ d.nused \in 0 .. d.nelem /\ d.nelem \in Nat /\ DOMAIN d.data = Place(d.nelem)
  BY GoodIs DEF DynarrInv, Memory
<1>2. /\ d'.nused = u
      /\ \A i \in Place(d.nused) : i # index => d'.data[i] = d.data[i]
  BY WriteIs
<1>3. ASSUME NEW i \in DOMAIN d.data \ {index}, i < d.nused
      PROVE  i < d'.nused /\ d'.data[i] = d.data[i]
  <2>1. i \in Place(d.nused) /\ i \in Nat
    BY <1>1, <1>3 DEF Place
  <2> QED BY <1>1, <1>2, <1>3, <2>1
<1> QED BY <1>3 DEF Kept

\* Reading, growing and shrinking change no element in use; writing one place,
\* also one far beyond the end, changes no other, and cutting none before the cut.
THEOREM OthersUntouched == DynarrSpec => OthersStay
<1> DEFINE Step ==
      /\ \A index \in Index :
           /\ dynarr_get(index) => Kept(DOMAIN d.data) /\ d'.nused = d.nused
           /\ dynarr_truncate(index) => Kept(0 .. index - 1)
      /\ \A countfac \in CountFactors :
           dynarr_shrink(countfac) => Kept(DOMAIN d.data) /\ d'.nused = d.nused
      /\ \A x \in Pointer :
           /\ dynarr_push(x) => Kept(DOMAIN d.data)
           /\ \A index \in Index : dynarr_put(index, x) => Kept(DOMAIN d.data \ {index})
<1>1. ASSUME DynarrInv PROVE Step
  <2>1. ASSUME NEW index \in Index, dynarr_get(index)
        PROVE  Kept(DOMAIN d.data) /\ d'.nused = d.nused
    <3>1. Made
      BY <2>1 DEF dynarr_get
    <3> QED BY <1>1, <2>1, <3>1, GetMoves, MoveLeaves
  <2>2. ASSUME NEW index \in Index, dynarr_truncate(index) PROVE Kept(0 .. index - 1)
    <3>1. /\ d'.nused = index /\ index \in Nat /\ d.nelem \in Nat /\ index <= d.nelem
          /\ \A i \in Place(d.nelem) :
               d'.data[i] = IF d.nulling /\ i >= index THEN NULL ELSE d.data[i]
      BY <1>1, <2>2, TruncateIs DEF dynarr_truncate, DynarrInv, UnwrittenIsNull, SizeFits
    <3>2. ASSUME NEW i \in 0 .. index - 1 PROVE i < d'.nused /\ d'.data[i] = d.data[i]
      <4>1. i \in Place(d.nelem) /\ ~(i >= index) /\ i < index
        BY <3>1 DEF Place
      <4> QED BY <3>1, <4>1
    <3> QED BY <3>2 DEF Kept
  <2>3. ASSUME NEW countfac \in CountFactors, dynarr_shrink(countfac)
        PROVE  Kept(DOMAIN d.data) /\ d'.nused = d.nused
    <3>1. Made
      BY <2>3 DEF dynarr_shrink
    <3> QED BY <1>1, <2>3, <3>1, ShrinkMoves, MoveLeaves
  <2>4. ASSUME NEW x \in Pointer, dynarr_push(x) PROVE Kept(DOMAIN d.data)
    <3>1. Made /\ d.nused \in Nat /\ d' = [Stored(d.nused, x) EXCEPT !.nused = d.nused + 1]
      BY <1>1, <2>4, PushWrites DEF dynarr_push
    <3>2. d.nused + 1 \in Nat /\ d.nused + 1 >= d.nused
      BY <3>1
    <3>3. Kept(DOMAIN d.data \ {d.nused})
      BY <1>1, <3>1, <3>2, WriteLeaves
    <3>4. ~(d.nused < d.nused)
      BY <3>1
    <3> QED BY <3>3, <3>4 DEF Kept
  <2>5. ASSUME NEW x \in Pointer, NEW index \in Index, dynarr_put(index, x)
        PROVE  Kept(DOMAIN d.data \ {index})
    <3>1. PICK u \in Nat : /\ u \in {d.nused, index + 1} /\ u >= d.nused
                           /\ d' = [Stored(index, x) EXCEPT !.nused = u]
      BY <1>1, <2>5, PutWrites
    <3>2. Made
      BY <2>5 DEF dynarr_put
    <3> QED BY <1>1, <3>1, <3>2, WriteLeaves
  <2> QED BY <2>1, <2>2, <2>3, <2>4, <2>5
<1>2. OthersStay <=> [][Step]_dynarr
  BY DEF OthersStay
<1> HIDE DEF Step
<1> QED BY <1>1, <1>2, DynarrInductive, PTL

HIDE IndexAssumption
HIDE PointerAssumption

-----------------------------------------------------------------------------
(* The containers together *)

\* A program that uses one of the containers leaves the others as they are: what
\* holds of each alone holds of it.
THEOREM EachAlone == ArraysSpec => Spec /\ DynarrSpec /\ HeapSpec
<1>1. ArraysInit => Init /\ DynarrInit /\ HeapInit
  BY DEF ArraysInit
<1>2. [ArraysNext]_arrays => [Next]_vars
  BY DEF ArraysNext, arrays, UseDeque, UseDynarr, UseHeap
<1>3. [ArraysNext]_arrays => [DynarrNext]_dynarr
  BY DEF ArraysNext, arrays, UseDeque, UseDynarr, UseHeap
<1>4. [ArraysNext]_arrays => [HeapNext]_heapvars
  BY DEF ArraysNext, arrays, UseDeque, UseDynarr, UseHeap
<1> QED BY <1>1, <1>2, <1>3, <1>4, PTL DEF ArraysSpec, Spec, DynarrSpec, HeapSpec

=============================================================================
