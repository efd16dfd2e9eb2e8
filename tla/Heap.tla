--------------------------------- MODULE Heap ---------------------------------
(***************************************************************************)
(* libsrsbsns/heap.c: a binary heap in an array.  The loops of upheap()    *)
(* and downheap() are taken one round at a time.                           *)
(***************************************************************************)
EXTENDS Naturals, FiniteSets

CONSTANTS
  Rank,          \* the elements, numbers that stand for their rank
  Nothing,       \* NULL
  Rubbish,       \* the content of memory nobody wrote
  HeapSize,      \* the size of the first array: 32 in heap.c
  MaxHeap        \* bound: no insertion is tried that would hold more

ASSUME RankAssumption == Rank \subseteq Nat
ASSUME NothingAssumption == Nothing \notin Rank /\ Rubbish \notin Rank
ASSUME HeapSizeAssumption == HeapSize \in Nat \ {0}
ASSUME MaxHeapAssumption == MaxHeap \in Nat

VARIABLES
  tree, treesz,     \* the array and its size
  count, next,      \* the number of elements and the first free place
  loop,             \* "idle", or the loop that runs: "up" or "down"
  node,             \* the loop's place in the tree
  taken             \* what heap_remove() returned last

heapvars == <<tree, treesz, count, next, loop, node, taken>>

Parent(n) == (n - 1) \div 2
Left(n) == 2 * n + 1
Right(n) == 2 * n + 2

HalfSwapped(m, n) == [tree EXCEPT ![m] = tree[n]]     \* mutant
Swapped(m, n) == [tree EXCEPT ![m] = tree[n], ![n] = tree[m]]

\* heap_resize(); realloc() keeps what was there.
HeapResized(size) == [i \in 0 .. size - 1 |-> IF i < treesz THEN tree[i] ELSE Rubbish]

HeapInit ==
  /\ treesz = HeapSize
  /\ tree = [i \in 0 .. HeapSize - 1 |-> Rubbish]
  /\ count = 0 /\ next = 0
  /\ loop = "idle" /\ node = 0
  /\ taken = Nothing

-----------------------------------------------------------------------------

Full == next >= treesz

heap_insert(x) ==
  LET size == IF Full THEN treesz * 2 ELSE treesz
  IN  /\ loop = "idle"
      /\ next < MaxHeap
      /\ treesz' = size
      /\ tree' = [HeapResized(size) EXCEPT ![next] = x]
      /\ count' = count + 1
      /\ next' = next + 1
      /\ IF next = 0 THEN UNCHANGED <<loop, node>> ELSE loop' = "up" /\ node' = next
      /\ UNCHANGED taken

\* The loop of upheap() goes on while the node is less than its parent.
LessOrNear == tree[node] + 1 < tree[Parent(node)]     \* mutant
LessThanParent == tree[node] < tree[Parent(node)]

UpStep ==
  /\ loop = "up"
  /\ LessThanParent
  /\ tree' = Swapped(node, Parent(node))
  /\ node' = Parent(node)
  /\ loop' = IF Parent(node) = 0 THEN "idle" ELSE "up"
  /\ UNCHANGED <<treesz, count, next, taken>>

UpDone ==
  /\ loop = "up"
  /\ ~LessThanParent
  /\ loop' = "idle"
  /\ UNCHANGED <<tree, treesz, count, next, node, taken>>

heap_remove ==
  /\ loop = "idle"
  /\ count # 0
  /\ taken' = tree[0]
  /\ tree' = [tree EXCEPT ![0] = tree[next - 1]]
  /\ next' = next - 1
  /\ count' = count - 1
  /\ loop' = "down" /\ node' = 0
  /\ UNCHANGED treesz

heap_remove_none ==
  /\ loop = "idle"
  /\ count = 0
  /\ taken' = Nothing
  /\ UNCHANGED <<tree, treesz, count, next, loop, node>>

InHeap(n) == n < next

BadLeft == InHeap(Left(node)) /\ tree[Left(node)] < tree[node]
BadRight == InHeap(Right(node)) /\ tree[Right(node)] < tree[node]

Lesser ==
  IF BadLeft /\ BadRight
    THEN IF tree[Left(node)] < tree[Right(node)] THEN Left(node) ELSE Right(node)
    ELSE IF BadLeft THEN Left(node) ELSE Right(node)

DownStep ==
  /\ loop = "down"
  /\ BadLeft \/ BadRight
  /\ tree' = Swapped(node, Lesser)
  /\ node' = Lesser
  /\ UNCHANGED <<treesz, count, next, loop, taken>>

DownDone ==
  /\ loop = "down"
  /\ ~(BadLeft \/ BadRight)
  /\ loop' = "idle"
  /\ UNCHANGED <<tree, treesz, count, next, node, taken>>

heap_clear ==
  /\ loop = "idle"
  /\ next' = 0 /\ count' = 0
  /\ UNCHANGED <<tree, treesz, loop, node, taken>>

Sifting == UpStep \/ UpDone \/ DownStep \/ DownDone

HeapNext ==
  \/ \E x \in Rank : heap_insert(x)
  \/ heap_remove
  \/ heap_remove_none
  \/ Sifting
  \/ heap_clear

HeapSpec == HeapInit /\ [][HeapNext]_heapvars

-----------------------------------------------------------------------------
(* Properties *)

\* Every variable keeps its type; the elements in use are ones that were
\* inserted, never memory nobody wrote.
HeapTypeOK ==
  /\ treesz \in Nat
  /\ tree \in [0 .. treesz - 1 -> Rank \cup {Rubbish}]
  /\ next \in 0 .. treesz
  /\ count = next
  /\ \A i \in 0 .. next - 1 : tree[i] \in Rank
  /\ loop \in {"idle", "up", "down"}
  /\ node \in Nat
  /\ taken \in Rank \cup {Nothing}

\* Between calls no element is less than its parent.  During upheap() only the
\* moving element may be, and during downheap() it may only be greater than its
\* children; its parent is then no greater than they are.
HeapOrder ==
  /\ HeapTypeOK
  /\ \A n \in 1 .. next - 1 :
       \/ tree[Parent(n)] <= tree[n]
       \/ loop = "up" /\ n = node
       \/ loop = "down" /\ Parent(n) = node
  /\ (loop # "idle" /\ node > 0) =>
       \A n \in 1 .. next - 1 : Parent(n) = node => tree[Parent(node)] <= tree[n]

Copies(x) == Cardinality({i \in 0 .. next - 1 : tree[i] = x})

Least == INSTANCE PriorityQueue WITH
  Elem <- Rank, None <- Nothing, bag <- [x \in Rank |-> Copies(x)]

\* The heap is a priority queue: no insertion, removal or reallocation loses or
\* repeats an element, and heap_remove() returns a least one.
ImplementsPriorityQueue == Least!PSpec

=============================================================================
