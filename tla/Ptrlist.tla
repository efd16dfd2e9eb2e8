------------------------------- MODULE Ptrlist -------------------------------
(***************************************************************************)
(* libsrsbsns/ptrlist.c: a singly linked list with an iterator.  A call of *)
(* ptrlist_next() after the iterator's node was freed follows a dangling   *)
(* pointer; it has no outcome to model and is not made.                    *)
(***************************************************************************)
EXTENDS Integers, Sequences, SequencesExt

CONSTANTS
  Elem,        \* the data pointers
  None,        \* NULL, as data
  Index,       \* the positions a caller uses
  Nodes        \* bound: how many nodes may be allocated at once

ASSUME NoneAssumption == None \notin Elem
ASSUME IndexAssumption == Index \subseteq Int
ASSUME NodesAssumption == Nodes \in Nat

Null == 0
Gone == Nodes + 1        \* an iterator whose node was freed
Node == 1 .. Nodes

VARIABLES
  head, next, data,      \* the links and the data of the nodes
  live,                  \* the nodes malloc() gave out
  iter,                  \* the iterator
  got                    \* what ptrlist_first() or ptrlist_next() returned

links == <<head, next, data, live>>
vars == <<head, next, data, live, iter, got>>

\* The nodes in the order of their links.
Chain ==
  LET f[n \in Node \cup {Null}] == IF n = Null THEN <<>> ELSE <<n>> \o f[next[n]]
  IN  f[head]

\* Where the loops "while (n->next && i)" stop: at the i-th node, or, when
\* there is none, at the last, with i not yet zero.
Hit(i) == i \in 0 .. Len(Chain) - 1
StopIndex(i) == IF Hit(i) THEN i + 1 ELSE Len(Chain)
Prev(i) == IF StopIndex(i) = 1 THEN Null ELSE Chain[StopIndex(i) - 1]

Init ==
  /\ head = Null /\ live = {}
  /\ next = [n \in Node |-> Null] /\ data = [n \in Node |-> None]
  /\ iter = Null /\ got = None

-----------------------------------------------------------------------------

InsertBefore(i, x) ==            \* mutant: puts it before the last, not after
  LET new == CHOOSE n \in Node \ live : TRUE
      n == IF Chain = <<>> THEN Null ELSE Chain[StopIndex(i)]
  IN  /\ live # Node
      /\ live' = live \cup {new}
      /\ data' = [data EXCEPT ![new] = x]
      /\ IF Chain = <<>> \/ Prev(i) = Null
           THEN head' = new /\ next' = [next EXCEPT ![new] = n]
           ELSE UNCHANGED head /\ next' = [next EXCEPT ![Prev(i)] = new, ![new] = n]
      /\ UNCHANGED <<iter, got>>

Insert(i, x) ==
  LET new == CHOOSE n \in Node \ live : TRUE
      n == IF Chain = <<>> THEN Null ELSE Chain[StopIndex(i)]
  IN  /\ live # Node
      /\ live' = live \cup {new}
      /\ data' = [data EXCEPT ![new] = x]
      /\ CASE n = Null ->
                head' = new /\ next' = [next EXCEPT ![new] = Null]
           [] n # Null /\ ~Hit(i) ->
                next' = [next EXCEPT ![n] = new, ![new] = Null] /\ UNCHANGED head
           [] n # Null /\ Hit(i) /\ Prev(i) # Null ->
                next' = [next EXCEPT ![Prev(i)] = new, ![new] = n] /\ UNCHANGED head
           [] n # Null /\ Hit(i) /\ Prev(i) = Null ->
                next' = [next EXCEPT ![new] = n] /\ head' = new
      /\ UNCHANGED <<iter, got>>

Replace(i, x) ==
  /\ Hit(i)
  /\ data' = [data EXCEPT ![Chain[i + 1]] = x]
  /\ UNCHANGED <<head, next, live, iter, got>>

\* free(): nothing but the iterator, which stands at it, can still point to
\* the nodes.
Free(freed, it) ==
  /\ live' = live \ freed
  /\ data' = [n \in Node |-> IF n \in freed THEN None ELSE data[n]]
  /\ iter' = IF it \in freed THEN Gone ELSE it

Unlink(i) ==
  LET n == Chain[i + 1]
  IN  /\ Hit(i)
      /\ IF Prev(i) = Null
           THEN head' = next[n] /\ next' = [next EXCEPT ![n] = Null]
           ELSE /\ next' = [next EXCEPT ![Prev(i)] = next[n], ![n] = Null]
                /\ UNCHANGED head
      /\ Free({n}, iter)
      /\ UNCHANGED got

\* ptrlist_clear(), called with the iterator at it: nothing resets it.
ClearFrom(it) ==
  /\ head' = Null
  /\ next' = [n \in Node |-> Null]
  /\ Free(Range(Chain), it)
  /\ UNCHANGED got

Clear == ClearFrom(iter)

\* On an empty list the iterator is not reset.
First ==
  /\ iter' = IF head = Null THEN iter ELSE head
  /\ got' = IF head = Null THEN None ELSE data[head]
  /\ UNCHANGED links

NextElem ==
  /\ iter # Gone
  /\ IF iter = Null \/ next[iter] = Null
       THEN got' = None /\ UNCHANGED iter
       ELSE iter' = next[iter] /\ got' = data[next[iter]]
  /\ UNCHANGED links

Next ==
  \/ \E i \in Index, x \in Elem : Insert(i, x) \/ Replace(i, x)
  \/ \E i \in Index : Unlink(i)
  \/ Clear
  \/ First
  \/ NextElem

Spec == Init /\ [][Next]_vars

-----------------------------------------------------------------------------
(* Properties *)

\* Every variable keeps its type.
TypeOK ==
  /\ live \subseteq Node
  /\ head \in live \cup {Null}
  /\ \A n \in live : next[n] \in live \cup {Null} /\ data[n] \in Elem
  /\ iter \in live \cup {Null, Gone}
  /\ got \in Elem \cup {None}

\* Every node that was allocated is in the list.
NodesAreLinked == live = Range(Chain)

Iterated == IF iter \in Node THEN SelectInSeq(Chain, LAMBDA n : n = iter) ELSE 0

List == INSTANCE ElementList WITH
          list <- [i \in 1 .. Len(Chain) |-> data[Chain[i]]], pos <- Iterated

\* The linked list is a sequence changed by position, for positions before, in
\* and beyond it, and each call does to the sequence what it is called for; the
\* iterator stays on its element while others come and go.
ImplementsList ==
  [][/\ \A i \in Index, x \in Elem : /\ Insert(i, x) => List!LInsert(i, x)
                                     /\ Replace(i, x) => List!LReplace(i, x)
     /\ \A i \in Index : Unlink(i) => List!LRemove(i)
     /\ \A it \in live \cup {Null, Gone} : ClearFrom(it) => List!LClear
     /\ First => List!LFirst
     /\ NextElem => List!LNext]_vars

=============================================================================
