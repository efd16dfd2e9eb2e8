------------------------------- MODULE Bintree -------------------------------
(***************************************************************************)
(* libsrsbsns/bintree.c: a binary search tree of linked nodes with an      *)
(* iterator that walks it by the parent pointers, in one of three orders.  *)
(* An element is the key the comparison function looks at; that inserting  *)
(* an equal element replaces the old pointer is therefore not visible.  A  *)
(* call that follows a null or a freed pointer has no outcome to model and *)
(* is not made: bintree_first() and bintree_balance() on an empty tree,    *)
(* bintree_next() past the end or after its node is gone.                  *)
(***************************************************************************)
EXTENDS Naturals, Sequences, SequencesExt

CONSTANTS
  Key,             \* the elements
  Nodes            \* bound: how many nodes may be allocated at once

ASSUME KeyAssumption == Key \subseteq Nat \ {0}
ASSUME NodesAssumption == Nodes \in Nat \ {0}

Null == 0
Gone == Nodes + 1      \* an iterator whose node was freed or cut off
Node == 1 .. Nodes

VARIABLES
  t,       \* the tree: root, count, and the fields of the allocated nodes
  iter,    \* the iterator's node
  trav,    \* the order it walks in
  given,   \* the element bintree_first() or bintree_next() returned last
  seen     \* history: the elements returned since bintree_first(); <<>> when
           \* the tree was changed since

treevars == <<t, iter, trav, given, seen>>

Blank(v) == [n \in Node |-> v]

Empty(count) ==
  [root |-> Null, count |-> count, live |-> {}, left |-> Blank(Null),
   right |-> Blank(Null), parent |-> Blank(Null), data |-> Blank(Null)]

\* bintree_init() leaves count unset; nothing reads it while root is NULL.
TreeInit ==
  /\ \E garbage \in 0 .. Nodes : t = Empty(garbage)
  /\ iter = Null /\ trav = "preorder" /\ given = Null /\ seen = <<>>

-----------------------------------------------------------------------------
(* Descending and inserting *)

\* The node at which the search for key k stops: it has the key, or has no
\* child on the side where the key belongs.
StopsAt(tree, k) ==
  LET walk[n \in Node] ==
        LET child == IF k < tree.data[n] THEN tree.left[n] ELSE tree.right[n]
        IN  IF k = tree.data[n] \/ child = Null THEN n ELSE walk[child]
  IN  walk[tree.root]

NodeFind(tree, k) ==
  IF tree.root = Null THEN Null
  ELSE LET n == StopsAt(tree, k) IN IF tree.data[n] = k THEN n ELSE Null

\* The tree with a new node for element d under p, at the root when p is NULL.
WithNode(tree, p, d) ==
  LET new == CHOOSE n \in Node \ tree.live :
               \A m \in Node \ tree.live : n <= m
  IN  [tree EXCEPT
         !.root = IF p = Null THEN new ELSE @,
         !.count = IF p = Null THEN 1 ELSE @ + 1,
         !.live = @ \cup {new},
         !.left = [n \in Node |->
            IF n = p /\ p # Null /\ d < tree.data[p] THEN new ELSE @[n]],
         !.right = [n \in Node |->
            IF n = p /\ p # Null /\ d > tree.data[p] THEN new ELSE @[n]],
         !.parent[new] = p,
         !.data[new] = d]

Inserted(tree, d) ==
  IF tree.root = Null THEN WithNode(tree, Null, d)
  ELSE LET n == StopsAt(tree, d)
       IN  IF tree.data[n] = d THEN tree ELSE WithNode(tree, n, d)

-----------------------------------------------------------------------------
(* Traversals *)

PreOrder(tree) ==
  LET f[n \in Node \cup {Null}] ==
        IF n = Null THEN <<>>
        ELSE <<tree.data[n]>> \o f[tree.left[n]] \o f[tree.right[n]]
  IN  f[tree.root]

InOrder(tree) ==
  LET f[n \in Node \cup {Null}] ==
        IF n = Null THEN <<>>
        ELSE f[tree.left[n]] \o <<tree.data[n]>> \o f[tree.right[n]]
  IN  f[tree.root]

PostOrder(tree) ==
  LET f[n \in Node \cup {Null}] ==
        IF n = Null THEN <<>>
        ELSE f[tree.left[n]] \o f[tree.right[n]] \o <<tree.data[n]>>
  IN  f[tree.root]

Collect(tree, order) ==
  CASE order = "preorder" -> PreOrder(tree)
    [] order = "inorder" -> InOrder(tree)
    [] order = "postorder" -> PostOrder(tree)

Reachable(tree) ==
  LET f[n \in Node \cup {Null}] ==
        IF n = Null THEN {} ELSE {n} \cup f[tree.left[n]] \cup f[tree.right[n]]
  IN  f[tree.root]

Height(tree) ==
  LET f[n \in Node \cup {Null}] ==
        IF n = Null THEN 0
        ELSE LET l == f[tree.left[n]]  r == f[tree.right[n]]
             IN  1 + (IF l > r THEN l ELSE r)
  IN  f[tree.root]

-----------------------------------------------------------------------------
(* Removing *)

\* The rightmost node under n.
RightmostFrom(tree, n) ==
  LET f[m \in Node] == IF tree.right[m] = Null THEN m ELSE f[tree.right[m]]
  IN  f[n]

\* tree with whatever pointed down to n pointing to c.
Relink(tree, n, c) ==
  LET p == tree.parent[n]
  IN  [tree EXCEPT
         !.root = IF p = Null THEN c ELSE @,
         !.left = [m \in Node |-> IF m = p /\ @[p] = n THEN c ELSE @[m]],
         !.right = [m \in Node |-> IF m = p /\ @[p] = n THEN c ELSE @[m]]]

Freed(tree, n) ==
  [tree EXCEPT !.count = @ - 1, !.live = @ \ {n}, !.left[n] = Null,
     !.right[n] = Null, !.parent[n] = Null, !.data[n] = Null]

RemovedUnparented(tree, n) ==       \* mutant: the child keeps its old parent
  IF Null \in {tree.left[n], tree.right[n]}
    THEN Freed(Relink(tree, n, IF tree.left[n] = Null THEN tree.right[n]
                               ELSE tree.left[n]), n)
    ELSE LET max == RightmostFrom(tree, tree.left[n])
         IN  Freed(Relink([tree EXCEPT !.data[n] = tree.data[max]], max, Null), max)

\* A node with two children takes over the element of the rightmost node on
\* its left, which is unlinked in its place, with all that hangs below it.
Removed(tree, n) ==
  LET l == tree.left[n]
      r == tree.right[n]
      child == IF l = Null THEN r ELSE l
  IN  CASE l = Null /\ r = Null -> Freed(Relink(tree, n, Null), n)
        [] (l = Null) # (r = Null) ->
             Freed([Relink(tree, n, child) EXCEPT !.parent[child] = tree.parent[n]], n)
        [] l # Null /\ r # Null ->
             LET max == RightmostFrom(tree, l)
             IN  Freed(Relink([tree EXCEPT !.data[n] = tree.data[max]], max, Null), max)

\* The iterator is of no more use once its node is not in the tree.
IterIn(tree) == IF iter \in Reachable(tree) \cup {Null} THEN iter ELSE Gone

-----------------------------------------------------------------------------
(* Moving the iterator *)

DescendLeft(tree, n) ==
  LET f[m \in Node] == IF tree.left[m] = Null THEN m ELSE f[tree.left[m]]
  IN  f[n]

\* the first leaf below n, on the left wherever there is a left
FirstLeaf(tree, n) ==
  LET f[m \in Node] ==
        IF tree.left[m] # Null THEN f[tree.left[m]]
        ELSE IF tree.right[m] # Null THEN f[tree.right[m]] ELSE m
  IN  f[n]

FirstNode(tree, order) ==
  CASE order = "preorder" -> tree.root
    [] order = "inorder" -> DescendLeft(tree, tree.root)
    [] order = "postorder" -> FirstLeaf(tree, tree.root)

\* up to the first ancestor with a right child that is not where we come from
NextPreOrder(tree, n) ==
  LET up[m \in Reachable(tree)] ==
        LET p == tree.parent[m]
        IN  IF p = Null THEN Null
            ELSE IF tree.right[p] \in {m, Null} THEN up[p] ELSE tree.right[p]
  IN  IF tree.left[n] # Null THEN tree.left[n]
      ELSE IF tree.right[n] # Null THEN tree.right[n] ELSE up[n]

ParentOnly(tree, n) ==             \* mutant: goes up one level only
  IF tree.right[n] # Null THEN DescendLeft(tree, tree.right[n]) ELSE tree.parent[n]

NextInOrder(tree, n) ==
  LET up[m \in Reachable(tree)] ==
        LET p == tree.parent[m]
        IN  IF p = Null \/ tree.left[p] = m THEN p ELSE up[p]
  IN  IF tree.right[n] # Null THEN DescendLeft(tree, tree.right[n]) ELSE up[n]

SkipsDescent(tree, n) ==           \* mutant: stops at the sibling, not below it
  LET p == tree.parent[n]
  IN  IF p # Null /\ tree.left[p] = n /\ tree.right[p] # Null
        THEN tree.right[p] ELSE p

NextPostOrder(tree, n) ==
  LET p == tree.parent[n]
  IN  IF p # Null /\ tree.left[p] = n /\ tree.right[p] # Null
        THEN FirstLeaf(tree, tree.right[p]) ELSE p

NextNode(tree, n, order) ==
  CASE order = "preorder" -> NextPreOrder(tree, n)
    [] order = "inorder" -> NextInOrder(tree, n)
    [] order = "postorder" -> NextPostOrder(tree, n)

-----------------------------------------------------------------------------
(* Actions *)

\* Every change of the tree ends what `seen` records.
Becomes(tree) ==
  /\ t' = tree
  /\ iter' = IterIn(tree)
  /\ seen' = <<>>
  /\ UNCHANGED <<trav, given>>

Insert(d) == t.live # Node /\ Becomes(Inserted(t, d))

\* bintree_remove() returns false, and changes nothing, for an absent key.
RemoveKey(k) ==
  /\ NodeFind(t, k) # Null
  /\ Becomes(Removed(t, NodeFind(t, k)))

\* Frees what it can reach; nodes that were cut off stay allocated.
Cleared(tree) ==
  LET rest == tree.live \ Reachable(tree)
      keep(f, v) == [n \in Node |-> IF n \in rest THEN f[n] ELSE v]
  IN  [root |-> Null, count |-> 0, live |-> rest, left |-> keep(tree.left, Null),
       right |-> keep(tree.right, Null), parent |-> keep(tree.parent, Null),
       data |-> keep(tree.data, Null)]

Discard(tree) ==
  /\ t' = tree
  /\ iter' = IF iter = Null THEN Null ELSE Gone
  /\ seen' = <<>>
  /\ UNCHANGED <<trav, given>>

ClearTree == Discard(Cleared(t))

FromTheLeft(arr) == arr             \* mutant: inserts the elements as they come

\* The order in which bintree_rbalance() inserts: the middle, then each half.
MiddleFirst(arr) ==
  LET f[p \in (1 .. Nodes + 1) \X (0 .. Nodes)] ==
        LET s == p[1]
            e == p[2]
            mid == (s + e) \div 2
        IN  IF s > e THEN <<>>
            ELSE <<arr[mid]>> \o f[<<s, mid - 1>>] \o f[<<mid + 1, e>>]
  IN  f[<<1, Len(arr)>>]

Refilled(tree, arr) ==
  LET after[n \in 0 .. Len(arr)] ==
        IF n = 0 THEN tree ELSE Inserted(after[n - 1], arr[n])
  IN  after[Len(arr)]

\* count is how many elements it takes to have collected: it must be right.
Balance ==
  /\ t.root # Null
  /\ t.count = Len(InOrder(t))
  /\ Discard(Refilled(Cleared(t), MiddleFirst(InOrder(t))))

First(order) ==
  LET n == FirstNode(t, order)
  IN  /\ t.root # Null
      /\ iter' = n
      /\ trav' = order
      /\ given' = t.data[n]
      /\ seen' = <<t.data[n]>>
      /\ UNCHANGED t

NextElem ==
  LET n == NextNode(t, iter, trav)
  IN  /\ iter \in Node
      /\ iter' = n
      /\ IF n = Null
           THEN UNCHANGED <<given, seen>>
           ELSE /\ given' = t.data[n]
                /\ seen' = IF seen = <<>> THEN seen ELSE Append(seen, t.data[n])
      /\ UNCHANGED <<t, trav>>

TreeNext ==
  \/ \E d \in Key : Insert(d)
  \/ \E k \in Key : RemoveKey(k)
  \/ ClearTree
  \/ Balance
  \/ \E order \in {"preorder", "inorder", "postorder"} : First(order)
  \/ NextElem

TreeSpec == TreeInit /\ [][TreeNext]_treevars

-----------------------------------------------------------------------------
(* Properties *)

\* Every variable keeps its type: links lead to allocated nodes and the
\* iterator stands on one of them.
TreeTypeOK ==
  /\ DOMAIN t = {"root", "count", "live", "left", "right", "parent", "data"}
  /\ t.live \subseteq Node
  /\ t.root \in t.live \cup {Null}
  /\ t.count \in 0 .. Nodes
  /\ \A n \in t.live : t.data[n] \in Key /\ {t.left[n], t.right[n]} \subseteq t.live \cup {Null}
  /\ iter \in t.live \cup {Null, Gone}
  /\ trav \in {"preorder", "inorder", "postorder"}
  /\ given \in Key \cup {Null}
  /\ seen \in Seq(Key)

\* As long as no node was cut off from the tree, bintree_count() is the number
\* of elements a traversal visits: replacing an element does not change it,
\* every other insertion and removal does.
CountsNodes ==
  (t.root # Null /\ t.live = Reachable(t)) => t.count = Len(InOrder(t))

\* Keys ascend in an in-order walk, so bintree_find() finds what is there, and
\* every node's parent pointer is the inverse of the link that leads to it,
\* which the iterator relies on; bintree_count() is right.  All this through
\* inserts, removals and balancing.
SearchTree ==
  /\ TreeTypeOK /\ CountsNodes
  /\ \A i, j \in DOMAIN InOrder(t) : i < j => InOrder(t)[i] < InOrder(t)[j]
  /\ \A n \in Reachable(t) :
       IF n = t.root THEN t.parent[n] = Null
       ELSE t.parent[n] \in Reachable(t) /\ n \in {t.left[t.parent[n]], t.right[t.parent[n]]}

\* The walk by parent pointers visits what the recursive traversal collects, in
\* that order, and ends when it has visited all of it.
IterationAgrees ==
  seen # <<>> => /\ IsPrefix(seen, Collect(t, trav))
                 /\ iter = Null => seen = Collect(t, trav)

\* An in-order iteration never repeats a key or goes back, even when elements
\* are inserted and removed between the calls of bintree_next().  The element
\* returned last must not be among the removed ones: its node then holds a
\* smaller element, and one inserted since may come next.
IterationAscends ==
  [][(NextElem /\ trav = "inorder" /\ iter' # Null /\ t.data[iter] = given) =>
       given' > given]_treevars

\* The least height of a tree of n nodes: 1 + log2(n), rounded down.
LeastHeight(n) ==
  LET h[k \in 0 .. n] == IF k = 0 THEN 0 ELSE 1 + h[k \div 2] IN h[n]

\* bintree_balance() keeps the elements and leaves the least height possible.
BalanceIsTight ==
  [][Balance => /\ InOrder(t') = InOrder(t)
                /\ Height(t') <= LeastHeight(t'.count)]_treevars

\* bintree_remove() removes its argument and nothing else ("remove messed up
\* the tree", as the unit tests call the opposite).
RemovesOnlyThat ==
  [][\A k \in Key : RemoveKey(k) =>
       InOrder(t') = SelectSeq(InOrder(t), LAMBDA d : d # k)]_treevars

=============================================================================
