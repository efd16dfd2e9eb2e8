---------------------------- MODULE RingTreeProofs ----------------------------
(***************************************************************************)
(* Proofs about Bintree and about Ringbuf, which share nothing.  First,    *)
(* for every set of keys and number of nodes: the binary tree stays a      *)
(* search tree, its iterators agree with the recursive traversals,         *)
(* balancing leaves the least height, and what a search finds, an insert   *)
(* adds and a removal removes.  Then, for every byte set, initial size,    *)
(* chunk and request: the ring buffer's type correctness, the agreement of *)
(* its cursors and count, and that it implements the FIFO queue of         *)
(* ByteQueue.                                                              *)
(*                                                                         *)
(* A recursive operator of Bintree is a recursive function of the nodes:   *)
(* it has the values its definition says because the nodes below a node,   *)
(* or above it for what climbs, have lesser ranks.  From there a fact      *)
(* about every node follows by looking at the lowest node without it, or   *)
(* the topmost one.                                                        *)
(***************************************************************************)
EXTENDS Ringbuf, Bintree, FiniteSets, SequenceTheorems, FiniteSetTheorems,
        WellFoundedInduction, TLAPS

-----------------------------------------------------------------------------
(* Recursion *)

LEMMA LeastOf ==
  ASSUME NEW S \in SUBSET Nat, S # {}
  PROVE  \E x \in S : \A y \in S : x <= y
<1> DEFINE R == OpToRel(<, Nat)
<1>1. IsWellFoundedOn(R, Nat)
  BY NatLessThanWellFounded
<1>2. R = {ss \in Nat \X Nat : ss[1] < ss[2]}
  BY DEF OpToRel
<1> HIDE DEF R
<1>3. PICK x \in S : \A y \in S : ~(<<y, x>> \in R)
  BY <1>1, WFMin
<1>4. \A y \in S : ~(y < x)
  BY <1>2, <1>3
<1> QED BY <1>3, <1>4

\* A recursion over ranked places has a solution: G is what one place takes
\* from the others, and looks only at those of a lesser rank.
Looks(D, V, rank, G) ==
  \A n \in D : \A g, h \in [D -> V] :
    (\A m \in D : rank[m] < rank[n] => g[m] = h[m]) => G[<<n, g>>] = G[<<n, h>>]

Solvable(D, V, G) == \E f \in [D -> V] : \A n \in D : f[n] = G[<<n, f>>]

LEMMA Recursion ==
  ASSUME NEW D, NEW V, NEW v \in V, NEW top \in Nat, NEW rank \in [D -> 0 .. top],
         NEW G \in [D \X [D -> V] -> V], Looks(D, V, rank, G)
  PROVE  Solvable(D, V, G)
<1> DEFINE Upto(f, k) == \A n \in D : rank[n] < k => f[n] = G[<<n, f>>]
           Can(k) == \E f \in [D -> V] : Upto(f, k)
           S == {k \in Nat : ~Can(k)}
<1>1. S = {}
  <2> SUFFICES ASSUME S # {} PROVE FALSE
    OBVIOUS
  <2>1. PICK k \in S : \A y \in S : k <= y
    BY LeastOf
  <2>2. k \in Nat /\ ~Can(k)
    BY <2>1
  <2>3. CASE k = 0
    <3>1. [n \in D |-> v] \in [D -> V]
      OBVIOUS
    <3>2. Upto([n \in D |-> v], 0)
      OBVIOUS
    <3> QED BY <2>2, <2>3, <3>1, <3>2
  <2>4. CASE k # 0
    <3>1. k - 1 \in Nat /\ k - 1 \notin S
      <4> HIDE DEF S
      <4> QED BY <2>1, <2>2, <2>4
    <3>2. Can(k - 1)
      <4> HIDE DEF Can
      <4> QED BY <3>1
    <3>3. PICK f \in [D -> V] : Upto(f, k - 1)
      BY <3>2
    <3> DEFINE g == [n \in D |-> G[<<n, f>>]]
    <3>4. g \in [D -> V]
      OBVIOUS
    <3>5. \A n \in D : rank[n] < k - 1 => g[n] = f[n]
      BY <3>3
    <3> HIDE DEF g
    <3>6. ASSUME NEW n \in D, rank[n] < k PROVE g[n] = G[<<n, g>>]
      <4>1. ASSUME NEW m \in D, rank[m] < rank[n] PROVE g[m] = f[m]
        BY <2>2, <3>5, <3>6, <4>1
      <4>2. G[<<n, g>>] = G[<<n, f>>]
        BY <3>4, <4>1 DEF Looks
      <4> QED BY <4>2 DEF g
    <3> QED BY <2>2, <3>4, <3>6
  <2> QED BY <2>3, <2>4
<1>2. Can(top + 1)
  <2>1. top + 1 \in Nat
    OBVIOUS
  <2> HIDE DEF Can
  <2> QED BY <1>1, <2>1
<1>3. PICK f \in [D -> V] : Upto(f, top + 1)
  BY <1>2
<1> QED BY <1>3 DEF Solvable

-----------------------------------------------------------------------------
(* The shape of a tree *)

Place == Node \cup {Null}

Typed(tree) ==
  /\ DOMAIN tree = {"root", "count", "live", "left", "right", "parent", "data"}
  /\ tree.live \subseteq Node /\ tree.root \in tree.live \cup {Null}
  /\ tree.count \in 0 .. Nodes
  /\ tree.left \in [Node -> tree.live \cup {Null}]
  /\ tree.right \in [Node -> tree.live \cup {Null}]
  /\ tree.parent \in [Node -> Place]
  /\ tree.data \in [Node -> Key \cup {Null}]
  /\ \A n \in tree.live : tree.data[n] \in Key
  /\ \A n \in Node \ tree.live : tree.left[n] = Null /\ tree.right[n] = Null

\* A node is the parent of its children, and the root has none.
Linked(tree) ==
  /\ tree.root # Null => tree.parent[tree.root] = Null
  /\ \A n \in tree.live :
       /\ tree.left[n] # Null => tree.parent[tree.left[n]] = n
       /\ tree.right[n] # Null => tree.parent[tree.right[n]] = n
       /\ tree.left[n] # Null => tree.left[n] # tree.right[n]

Ranks(tree, rank) ==
  \A n \in Node : /\ tree.left[n] # Null => rank[tree.left[n]] < rank[n]
                  /\ tree.right[n] # Null => rank[tree.right[n]] < rank[n]
Acyclic(tree) == \E top \in Nat : \E rank \in [Node -> 0 .. top] : Ranks(tree, rank)

Shaped(tree) == Typed(tree) /\ Linked(tree) /\ Acyclic(tree)

\* For each node, itself and what hangs below it.
Below(tree) ==
  LET f[n \in Node \cup {Null}] ==
        IF n = Null THEN {} ELSE {n} \cup f[tree.left[n]] \cup f[tree.right[n]]
  IN  f

LEMMA ReachableBelow == ASSUME NEW tree PROVE Reachable(tree) = Below(tree)[tree.root]
BY DEF Reachable, Below

LEMMA NullIs == Null \notin Node /\ Null = 0 /\ Gone \notin Node /\ Gone # Null
               /\ Node \subseteq Nat /\ Null \in Place /\ Node \subseteq Place
BY NodesAssumption DEF Null, Node, Gone, Place

\* A rank of the places, the null pointer below every node.
LEMMA PlacesRanked ==
  ASSUME NEW tree, Typed(tree), Acyclic(tree)
  PROVE  \E top \in Nat : \E rank \in [Place -> 0 .. top] :
           \A n \in Node : rank[tree.left[n]] < rank[n] /\ rank[tree.right[n]] < rank[n]
<1>1. PICK top \in Nat : \E rank \in [Node -> 0 .. top] : Ranks(tree, rank)
  BY DEF Acyclic
<1>2. PICK r \in [Node -> 0 .. top] : Ranks(tree, r)
  BY <1>1
<1> DEFINE rank == [n \in Place |-> IF n = Null THEN 0 ELSE r[n] + 1]
<1>3. ASSUME NEW n \in Node PROVE r[n] \in 0 .. top /\ rank[n] = r[n] + 1
  BY NullIs
<1>4. rank[Null] = 0
  BY NullIs
<1>5. rank \in [Place -> 0 .. top + 1]
  <2>1. \A n \in Place : (IF n = Null THEN 0 ELSE r[n] + 1) \in 0 .. top + 1
    BY <1>3, NullIs DEF Place
  <2> QED BY <2>1
<1> HIDE DEF rank
<1>6. ASSUME NEW n \in Node, NEW c \in Place, c # Null => r[c] < r[n]
      PROVE  rank[c] < rank[n]
  BY <1>3, <1>4, <1>6, NullIs DEF Place
<1>7. ASSUME NEW n \in Node PROVE tree.left[n] \in Place /\ tree.right[n] \in Place
  BY DEF Typed, Place
<1>8. \A n \in Node : rank[tree.left[n]] < rank[n] /\ rank[tree.right[n]] < rank[n]
  BY <1>2, <1>6, <1>7 DEF Ranks
<1> QED BY <1>5, <1>8


\* What a function of the children makes of each node, the leaves first.
Collects(tree, v, F, f) ==
  /\ f[Null] = v
  /\ \A n \in Node : f[n] = F[<<n, f[tree.left[n]], f[tree.right[n]]>>]

LEMMA DownRecursion ==
  ASSUME NEW tree, Typed(tree), Acyclic(tree), NEW V, NEW v \in V,
         NEW F \in [Node \X V \X V -> V]
  PROVE  \E f \in [Place -> V] : Collects(tree, v, F, f)
<1> DEFINE body(n, f) == IF n = Null THEN v ELSE F[<<n, f[tree.left[n]], f[tree.right[n]]>>]
           G == [p \in Place \X [Place -> V] |-> body(p[1], p[2])]
<1>1. PICK top \in Nat : \E rank \in [Place -> 0 .. top] :
        \A n \in Node : rank[tree.left[n]] < rank[n] /\ rank[tree.right[n]] < rank[n]
  BY PlacesRanked
<1>2. PICK rank \in [Place -> 0 .. top] :
        \A n \in Node : rank[tree.left[n]] < rank[n] /\ rank[tree.right[n]] < rank[n]
  BY <1>1
<1>3. ASSUME NEW n \in Node PROVE tree.left[n] \in Place /\ tree.right[n] \in Place
  BY DEF Typed, Place
<1>4. ASSUME NEW n \in Place, NEW f \in [Place -> V] PROVE body(n, f) \in V
  BY <1>3 DEF Place
<1>5. G \in [Place \X [Place -> V] -> V]
  BY <1>4
<1>6. \A n \in Place, f \in [Place -> V] : G[<<n, f>>] = body(n, f)
  OBVIOUS
<1> HIDE DEF G
<1>7. Looks(Place, V, rank, G)
  <2> SUFFICES ASSUME NEW n \in Place, NEW g \in [Place -> V], NEW h \in [Place -> V],
                      \A m \in Place : rank[m] < rank[n] => g[m] = h[m]
               PROVE  G[<<n, g>>] = G[<<n, h>>]
    BY DEF Looks
  <2>1. body(n, g) = body(n, h)
    BY <1>2, <1>3 DEF Place
  <2> HIDE DEF body
  <2> QED BY <1>6, <2>1
<1>8. PICK f \in [Place -> V] : \A n \in Place : f[n] = G[<<n, f>>]
  <2>1. Solvable(Place, V, G)
    BY <1>1, <1>2, <1>5, <1>7, Recursion
  <2> QED BY <2>1 DEF Solvable
<1>9. \A n \in Place : f[n] = body(n, f)
  <2> HIDE DEF body
  <2> QED BY <1>6, <1>8
<1>10. f[Null] = v
  BY <1>9, NullIs
<1>11. \A n \in Node : f[n] = F[<<n, f[tree.left[n]], f[tree.right[n]]>>]
  BY <1>9, NullIs
<1> QED BY <1>10, <1>11 DEF Collects

\* Where following a ranked link ends: next is Null where it stops.
Follows(D, ends, next, f) ==
  \A n \in D : f[n] = IF next[n] = Null THEN ends[n] ELSE f[next[n]]

LEMMA FollowRecursion ==
  ASSUME NEW D \in SUBSET Node, NEW top \in Nat, NEW rank \in [D -> 0 .. top],
         NEW V, NEW ends \in [D -> V], NEW next \in [D -> D \cup {Null}],
         \A n \in D : next[n] # Null => rank[next[n]] < rank[n]
  PROVE  \E f \in [D -> V] : Follows(D, ends, next, f)
<1> DEFINE body(n, f) == IF next[n] = Null THEN ends[n] ELSE f[next[n]]
           G == [p \in D \X [D -> V] |-> body(p[1], p[2])]
<1>1. CASE D = {}
  <2>1. ends \in [D -> V]
        /\ \A n \in D : ends[n] = IF next[n] = Null THEN ends[n] ELSE ends[next[n]]
    BY <1>1
  <2> QED BY <2>1 DEF Follows
<1>2. ASSUME NEW d \in D PROVE \E f \in [D -> V] : \A n \in D : f[n] = body(n, f)
  <2>1. ends[d] \in V
    OBVIOUS
  <2>2. ASSUME NEW n \in D, NEW f \in [D -> V] PROVE body(n, f) \in V
    BY NullIs
  <2>3. G \in [D \X [D -> V] -> V]
    BY <2>2
  <2>4. \A n \in D, f \in [D -> V] : G[<<n, f>>] = body(n, f)
    OBVIOUS
  <2> HIDE DEF G
  <2>5. Looks(D, V, rank, G)
    <3> SUFFICES ASSUME NEW n \in D, NEW g \in [D -> V], NEW h \in [D -> V],
                        \A m \in D : rank[m] < rank[n] => g[m] = h[m]
                 PROVE  G[<<n, g>>] = G[<<n, h>>]
      BY DEF Looks
    <3>1. body(n, g) = body(n, h)
      OBVIOUS
    <3> HIDE DEF body
    <3> QED BY <2>4, <3>1
  <2>6. PICK f \in [D -> V] : \A n \in D : f[n] = G[<<n, f>>]
    <3>1. Solvable(D, V, G)
      BY <2>1, <2>3, <2>5, Recursion
    <3> QED BY <3>1 DEF Solvable
  <2> HIDE DEF body
  <2> QED BY <2>4, <2>6
<1> QED BY <1>1, <1>2 DEF Follows

LEMMA BelowIs ==
  ASSUME NEW tree, Typed(tree), Acyclic(tree)
  PROVE  /\ Below(tree) = [n \in Place |-> Below(tree)[n]]
         /\ Below(tree)[Null] = {}
         /\ \A n \in Node : Below(tree)[n] =
              {n} \cup Below(tree)[tree.left[n]] \cup Below(tree)[tree.right[n]]
<1> DEFINE V == SUBSET Node
           F == [x \in Node \X V \X V |-> {x[1]} \cup x[2] \cup x[3]]
           IsIt(a) == a = [n \in Place |-> IF n = Null THEN {}
                             ELSE {n} \cup a[tree.left[n]] \cup a[tree.right[n]]]
<1>1. F \in [Node \X V \X V -> V]
  OBVIOUS
<1>2. {} \in V
  OBVIOUS
<1>3. PICK f \in [Place -> V] : Collects(tree, {}, F, f)
  <2> HIDE DEF F, V
  <2> QED BY <1>1, <1>2, DownRecursion
<1>4. \A n \in Node : f[n] = {n} \cup f[tree.left[n]] \cup f[tree.right[n]]
  BY <1>3 DEF Typed, Place, Collects
<1>5. IsIt(f)
  <2>1. f = [n \in Place |-> f[n]]
    BY <1>3
  <2>2. \A n \in Place : f[n] = IF n = Null THEN {}
                             ELSE {n} \cup f[tree.left[n]] \cup f[tree.right[n]]
    BY <1>3, <1>4, NullIs DEF Place, Collects
  <2> QED BY <2>1, <2>2
<1>6. Below(tree) = CHOOSE a : IsIt(a)
  BY DEF Below, Place
<1>7. IsIt(Below(tree))
  <2> HIDE DEF IsIt
  <2> QED BY <1>5, <1>6
<1>8. \A n \in Place : Below(tree)[n] = IF n = Null THEN {}
              ELSE {n} \cup Below(tree)[tree.left[n]] \cup Below(tree)[tree.right[n]]
  BY <1>7
<1>9. \A n \in Node : n # Null /\ n \in Place
  BY NullIs
<1>10. Below(tree)[Null] = {}
  BY <1>8, NullIs
<1> QED BY <1>7, <1>8, <1>9, <1>10

\* Of any nodes, one has no child among them, and one no parent.
LEMMA LowestOf ==
  ASSUME NEW tree, Typed(tree), Acyclic(tree), NEW B \in SUBSET Node, B # {}
  PROVE  \E n \in B : tree.left[n] \notin B /\ tree.right[n] \notin B
<1>1. PICK top \in Nat : \E rank \in [Node -> 0 .. top] : Ranks(tree, rank)
  BY DEF Acyclic
<1>2. PICK rank \in [Node -> 0 .. top] : Ranks(tree, rank)
  BY <1>1
<1> DEFINE S == {rank[n] : n \in B}
<1>3. S \in SUBSET Nat /\ S # {}
  BY <1>2
<1>4. PICK k \in S : \A y \in S : k <= y
  <2> HIDE DEF S
  <2> QED BY <1>3, LeastOf
<1>5. PICK n \in B : k = rank[n]
  OBVIOUS
<1>6. ASSUME NEW c \in B PROVE rank[n] <= rank[c] /\ c # Null
  BY <1>4, <1>5, NullIs
<1>7. tree.left[n] # Null => rank[tree.left[n]] < rank[n]
  BY <1>2 DEF Ranks
<1>8. tree.right[n] # Null => rank[tree.right[n]] < rank[n]
  BY <1>2 DEF Ranks
<1>9. \A c \in B : rank[c] \in Nat /\ rank[n] \in Nat
  BY <1>2
<1> HIDE DEF S
<1> QED BY <1>6, <1>7, <1>8, <1>9

LEMMA HighestOf ==
  ASSUME NEW tree, Typed(tree), Acyclic(tree), NEW B \in SUBSET Node, B # {}
  PROVE  \E n \in B : \A m \in B : n # tree.left[m] /\ n # tree.right[m]
<1>1. PICK top \in Nat : \E rank \in [Node -> 0 .. top] : Ranks(tree, rank)
  BY DEF Acyclic
<1>2. PICK rank \in [Node -> 0 .. top] : Ranks(tree, rank)
  BY <1>1
<1> DEFINE S == {top - rank[n] : n \in B}
<1>3. S \in SUBSET Nat /\ S # {}
  BY <1>2
<1>4. PICK k \in S : \A y \in S : k <= y
  <2> HIDE DEF S
  <2> QED BY <1>3, LeastOf
<1>5. PICK n \in B : k = top - rank[n]
  OBVIOUS
<1>6. ASSUME NEW m \in B PROVE rank[m] <= rank[n] /\ n # Null
  <2>1. k <= top - rank[m]
    BY <1>4
  <2>2. rank[m] \in Nat /\ rank[n] \in Nat
    BY <1>2
  <2> HIDE DEF S
  <2> QED BY <1>5, <2>1, <2>2, NullIs
<1> HIDE DEF S
<1>7. ASSUME NEW m \in B PROVE n # tree.left[m] /\ n # tree.right[m]
  <2>1. tree.left[m] # Null => rank[tree.left[m]] < rank[m]
    BY <1>2 DEF Ranks
  <2>2. tree.right[m] # Null => rank[tree.right[m]] < rank[m]
    BY <1>2 DEF Ranks
  <2>3. rank[m] \in Nat /\ rank[n] \in Nat
    BY <1>2
  <2> QED BY <1>6, <2>1, <2>2, <2>3
<1> QED BY <1>7

LEMMA BelowNode ==
  ASSUME NEW tree, Typed(tree), Acyclic(tree), NEW n \in Node
  PROVE  /\ Below(tree)[n] = {n} \cup Below(tree)[tree.left[n]] \cup Below(tree)[tree.right[n]]
         /\ n \in Below(tree)[n]
         /\ tree.left[n] \in Place /\ tree.right[n] \in Place
         /\ tree.left[n] # Null => tree.left[n] \in Node /\ tree.left[n] \in tree.live
         /\ tree.right[n] # Null => tree.right[n] \in Node /\ tree.right[n] \in tree.live
<1>1. Below(tree)[n] = {n} \cup Below(tree)[tree.left[n]] \cup Below(tree)[tree.right[n]]
  BY BelowIs
<1>2. tree.left[n] \in tree.live \cup {Null} /\ tree.right[n] \in tree.live \cup {Null}
      /\ tree.live \subseteq Node
  BY DEF Typed
<1> QED BY <1>1, <1>2 DEF Place

LEMMA BelowNull ==
  ASSUME NEW tree, Typed(tree), Acyclic(tree)
  PROVE  Below(tree)[Null] = {}
BY BelowIs

\* What hangs below a node is the least set that has it and the children of
\* its members.
Closed(tree, S) ==
  \A n \in S : /\ tree.left[n] # Null => tree.left[n] \in S
               /\ tree.right[n] # Null => tree.right[n] \in S

LEMMA BelowLeast ==
  ASSUME NEW tree, Typed(tree), Acyclic(tree), NEW x \in Place, NEW S,
         Closed(tree, S), x # Null => x \in S
  PROVE  Below(tree)[x] \subseteq S
<1> DEFINE B == {n \in Node : n \in S /\ ~(Below(tree)[n] \subseteq S)}
<1>1. B = {}
  <2> SUFFICES ASSUME B # {} PROVE FALSE
    OBVIOUS
  <2>1. PICK n \in B : tree.left[n] \notin B /\ tree.right[n] \notin B
    <3>1. B \in SUBSET Node
      OBVIOUS
    <3> HIDE DEF B
    <3> QED BY <3>1, LowestOf
  <2>2. n \in Node /\ n \in S /\ ~(Below(tree)[n] \subseteq S)
    BY <2>1
  <2>3. ASSUME NEW c \in {tree.left[n], tree.right[n]} PROVE Below(tree)[c] \subseteq S
    <3>1. CASE c = Null
      BY <3>1, BelowNull
    <3>2. CASE c # Null
      <4>1. c \in Node /\ c \in S /\ c \notin B
        BY <2>1, <2>2, <3>2, BelowNode DEF Closed
      <4> QED BY <4>1
    <3> QED BY <3>1, <3>2
  <2> HIDE DEF B
  <2>4. Below(tree)[n] = {n} \cup Below(tree)[tree.left[n]] \cup Below(tree)[tree.right[n]]
    BY <2>2, BelowNode
  <2>5. Below(tree)[tree.left[n]] \subseteq S /\ Below(tree)[tree.right[n]] \subseteq S
    BY <2>3
  <2> QED BY <2>2, <2>4, <2>5
<1>2. CASE x = Null
  BY <1>2, BelowNull
<1>3. CASE x # Null
  <2>1. x \in Node /\ x \in S
    BY <1>3 DEF Place
  <2> QED BY <1>1, <2>1
<1> QED BY <1>2, <1>3

LEMMA BelowClosed ==
  ASSUME NEW tree, Typed(tree), Acyclic(tree), NEW x \in Place
  PROVE  Closed(tree, Below(tree)[x]) /\ Below(tree)[x] \subseteq Node
<1> DEFINE B == {n \in Node : ~Closed(tree, Below(tree)[n])}
<1>1. B = {}
  <2> SUFFICES ASSUME B # {} PROVE FALSE
    OBVIOUS
  <2>1. PICK n \in B : tree.left[n] \notin B /\ tree.right[n] \notin B
    <3>1. B \in SUBSET Node
      OBVIOUS
    <3> HIDE DEF B
    <3> QED BY <3>1, LowestOf
  <2>2. n \in Node /\ ~Closed(tree, Below(tree)[n])
    BY <2>1
  <2>3. ASSUME NEW c \in {tree.left[n], tree.right[n]}
        PROVE Closed(tree, Below(tree)[c]) /\ (c # Null => c \in Below(tree)[c])
    <3>1. CASE c = Null
      BY <3>1, BelowNull DEF Closed
    <3>2. CASE c # Null
      <4>1. c \in Node /\ c \notin B
        BY <2>1, <2>2, <3>2, BelowNode
      <4> QED BY <4>1, BelowNode
    <3> QED BY <3>1, <3>2
  <2> HIDE DEF B
  <2>4. Below(tree)[n] = {n} \cup Below(tree)[tree.left[n]] \cup Below(tree)[tree.right[n]]
    BY <2>2, BelowNode
  <2>5. Closed(tree, Below(tree)[n])
    BY <2>3, <2>4 DEF Closed
  <2> QED BY <2>2, <2>5
<1>2. Closed(tree, Below(tree)[x])
  <2>1. CASE x = Null
    BY <2>1, BelowNull DEF Closed
  <2>2. CASE x # Null
    BY <1>1, <2>2 DEF Place
  <2> QED BY <2>1, <2>2
<1>3. Below(tree)[x] \subseteq Node
  <2>1. Closed(tree, Node)
    BY BelowNode DEF Closed
  <2>2. x # Null => x \in Node
    BY DEF Place
  <2> QED BY <2>1, <2>2, BelowLeast
<1> QED BY <1>2, <1>3

LEMMA BelowLive ==
  ASSUME NEW tree, Typed(tree), Acyclic(tree), NEW x \in tree.live \cup {Null}
  PROVE  Below(tree)[x] \subseteq tree.live
<1>1. Closed(tree, tree.live)
  BY DEF Closed, Typed
<1>2. x \in Place
  BY DEF Typed, Place
<1> QED BY <1>1, <1>2, BelowLeast

LEMMA BelowBelow ==
  ASSUME NEW tree, Typed(tree), Acyclic(tree), NEW x \in Place, NEW m \in Below(tree)[x]
  PROVE  Below(tree)[m] \subseteq Below(tree)[x]
<1>1. Closed(tree, Below(tree)[x]) /\ m \in Place
  BY BelowClosed DEF Place
<1> QED BY <1>1, BelowLeast

\* Going up from below a node arrives at it.
LEMMA ParentBelow ==
  ASSUME NEW tree, Shaped(tree), NEW x \in tree.live, NEW m \in Below(tree)[x], m # x
  PROVE  /\ tree.parent[m] \in Below(tree)[x]
         /\ m = tree.left[tree.parent[m]] \/ m = tree.right[tree.parent[m]]
<1> DEFINE isChild(n) == /\ tree.parent[n] \in Below(tree)[x]
                         /\ n = tree.left[tree.parent[n]] \/ n = tree.right[tree.parent[n]]
           S == {n \in Below(tree)[x] : n = x \/ isChild(n)}
<1>1. x \in S /\ x \in Place /\ Closed(tree, Below(tree)[x]) /\ Below(tree)[x] \subseteq tree.live
  BY BelowNode, BelowClosed, BelowLive DEF Typed, Shaped, Place
<1>2. Closed(tree, S)
  <2>1. ASSUME NEW n \in S, NEW c, c # Null, c = tree.left[n] \/ c = tree.right[n]
        PROVE  c \in Below(tree)[x] /\ tree.parent[c] = n
    BY <1>1, <2>1 DEF Closed, Shaped, Linked
  <2>2. ASSUME NEW n \in S, NEW c, c # Null, c = tree.left[n] \/ c = tree.right[n]
        PROVE  c \in S
    BY <2>1, <2>2
  <2> HIDE DEF S
  <2> QED BY <2>2 DEF Closed
<1>3. Below(tree)[x] \subseteq S
  <2> HIDE DEF S
  <2> QED BY <1>1, <1>2, BelowLeast DEF Shaped
<1> QED BY <1>3

-----------------------------------------------------------------------------
(* Searching *)

\* The keys to the left of a node are less than its own, those to the right
\* greater.
Ordered(tree) ==
  \A n \in Reachable(tree) :
    /\ \A m \in Below(tree)[tree.left[n]] : tree.data[m] < tree.data[n]
    /\ \A m \in Below(tree)[tree.right[n]] : tree.data[n] < tree.data[m]

LEMMA ReachableIs ==
  ASSUME NEW tree, Shaped(tree)
  PROVE  /\ Reachable(tree) = Below(tree)[tree.root]
         /\ Reachable(tree) \subseteq tree.live /\ tree.live \subseteq Node
         /\ Closed(tree, Reachable(tree))
         /\ tree.root \in Place
         /\ tree.root # Null => tree.root \in Reachable(tree) /\ tree.root \in Node
         /\ tree.root = Null => Reachable(tree) = {}
         /\ \A n \in Reachable(tree) : Below(tree)[n] \subseteq Reachable(tree)
         /\ \A n \in Reachable(tree) : tree.data[n] \in Nat /\ tree.data[n] # 0
<1>1. Typed(tree) /\ Acyclic(tree)
  BY DEF Shaped
<1>2. tree.root \in tree.live \cup {Null} /\ tree.live \subseteq Node
  BY <1>1 DEF Typed
<1>3. Reachable(tree) = Below(tree)[tree.root] /\ tree.root \in Place
  BY <1>2, ReachableBelow DEF Place
<1>4. Reachable(tree) \subseteq tree.live
  BY <1>1, <1>2, <1>3, BelowLive
<1>5. Closed(tree, Reachable(tree))
  BY <1>1, <1>3, BelowClosed
<1>6. tree.root # Null => tree.root \in Reachable(tree) /\ tree.root \in Node
  BY <1>1, <1>2, <1>3, BelowNode
<1>7. tree.root = Null => Reachable(tree) = {}
  BY <1>1, <1>3, BelowNull
<1>8. ASSUME NEW n \in Reachable(tree) PROVE Below(tree)[n] \subseteq Reachable(tree)
  BY <1>1, <1>3, BelowBelow
<1>9. ASSUME NEW n \in Reachable(tree) PROVE tree.data[n] \in Nat /\ tree.data[n] # 0
  BY <1>1, <1>4, KeyAssumption DEF Typed
<1> QED BY <1>2, <1>3, <1>4, <1>5, <1>6, <1>7, <1>8, <1>9

\* The two sides of a node have nothing in common, and not the node.
LEMMA SidesApart ==
  ASSUME NEW tree, Shaped(tree), Ordered(tree), NEW n \in Reachable(tree)
  PROVE  /\ n \notin Below(tree)[tree.left[n]] /\ n \notin Below(tree)[tree.right[n]]
         /\ Below(tree)[tree.left[n]] \cap Below(tree)[tree.right[n]] = {}
         /\ Below(tree)[tree.left[n]] \subseteq Reachable(tree)
         /\ Below(tree)[tree.right[n]] \subseteq Reachable(tree)
<1>1. n \in Node /\ Typed(tree) /\ Acyclic(tree) /\ Below(tree)[n] \subseteq Reachable(tree)
  BY ReachableIs DEF Shaped
<1>2. /\ Below(tree)[tree.left[n]] \subseteq Reachable(tree)
      /\ Below(tree)[tree.right[n]] \subseteq Reachable(tree)
  BY <1>1, BelowNode
<1>3. tree.data[n] \in Nat
  BY ReachableIs
<1>4. \A m \in Below(tree)[tree.left[n]] : tree.data[m] \in Nat /\ tree.data[m] < tree.data[n]
  BY <1>2, ReachableIs DEF Ordered
<1>5. \A m \in Below(tree)[tree.right[n]] : tree.data[m] \in Nat /\ tree.data[n] < tree.data[m]
  BY <1>2, ReachableIs DEF Ordered
<1>6. n \notin Below(tree)[tree.left[n]]
  BY <1>3, <1>4
<1>7. n \notin Below(tree)[tree.right[n]]
  BY <1>3, <1>5
<1>8. \A m : ~(m \in Below(tree)[tree.left[n]] /\ m \in Below(tree)[tree.right[n]])
  BY <1>3, <1>4, <1>5
<1> QED BY <1>2, <1>6, <1>7, <1>8

Side(tree, k, n) == IF k < tree.data[n] THEN tree.left[n] ELSE tree.right[n]

Walk(tree, k) ==
  LET walk[n \in Node] ==
        LET child == IF k < tree.data[n] THEN tree.left[n] ELSE tree.right[n]
        IN  IF k = tree.data[n] \/ child = Null THEN n ELSE walk[child]
  IN  walk

LEMMA WalkIs ==
  ASSUME NEW tree, Typed(tree), Acyclic(tree), NEW k
  PROVE  \A n \in Node : Walk(tree, k)[n] =
           IF k = tree.data[n] \/ Side(tree, k, n) = Null THEN n
           ELSE Walk(tree, k)[Side(tree, k, n)]
<1> DEFINE next == [n \in Node |-> IF k = tree.data[n] THEN Null ELSE Side(tree, k, n)]
           ends == [n \in Node |-> n]
           body(n, f) == IF k = tree.data[n] \/ Side(tree, k, n) = Null THEN n
                         ELSE f[Side(tree, k, n)]
           IsIt(a) == a = [n \in Node |-> body(n, a)]
<1>1. PICK top \in Nat : \E rank \in [Node -> 0 .. top] : Ranks(tree, rank)
  BY DEF Acyclic
<1>2. PICK rank \in [Node -> 0 .. top] : Ranks(tree, rank)
  BY <1>1
<1>3. next \in [Node -> Node \cup {Null}] /\ ends \in [Node -> Node]
  BY BelowNode DEF Place, Side
<1>4. \A n \in Node : next[n] # Null => rank[next[n]] < rank[n]
  BY <1>2 DEF Ranks, Side
<1>5. PICK f \in [Node -> Node] : Follows(Node, ends, next, f)
  <2> HIDE DEF next, ends
  <2> QED BY <1>1, <1>2, <1>3, <1>4, FollowRecursion
<1>6. \A n \in Node : f[n] = body(n, f)
  BY <1>5 DEF Follows
<1>7. IsIt(f)
  <2> HIDE DEF body
  <2> QED BY <1>6
<1>8. Walk(tree, k) = CHOOSE a : IsIt(a)
  BY DEF Walk, Side
<1>9. IsIt(Walk(tree, k))
  <2> HIDE DEF IsIt
  <2> QED BY <1>7, <1>8
<1>10. \A n \in Node : Walk(tree, k)[n] = body(n, Walk(tree, k))
  <2> HIDE DEF body
  <2> QED BY <1>9
<1> QED BY <1>10

\* stop is where the search for k ends, among what is below n.
Stops(tree, k, n, stop) ==
  /\ stop \in Below(tree)[n]
  /\ k = tree.data[stop] \/ Side(tree, k, stop) = Null
  /\ \A a \in Below(tree)[n] :
       /\ stop \in Below(tree)[tree.left[a]] => k < tree.data[a]
       /\ stop \in Below(tree)[tree.right[a]] => tree.data[a] < k

LEMMA WalkStops ==
  ASSUME NEW tree, Shaped(tree), Ordered(tree), NEW k \in Nat, NEW n \in Reachable(tree)
  PROVE  Stops(tree, k, n, Walk(tree, k)[n])
<1> DEFINE B == {x \in Reachable(tree) : ~Stops(tree, k, x, Walk(tree, k)[x])}
<1>1. Typed(tree) /\ Acyclic(tree) /\ Reachable(tree) \subseteq Node
  BY ReachableIs DEF Shaped
<1>2. B = {}
  <2> SUFFICES ASSUME B # {} PROVE FALSE
    OBVIOUS
  <2>1. PICK x \in B : tree.left[x] \notin B /\ tree.right[x] \notin B
    <3>1. B \in SUBSET Node
      BY <1>1
    <3> HIDE DEF B
    <3> QED BY <1>1, <3>1, LowestOf
  <2>2. x \in Reachable(tree) /\ x \in Node /\ ~Stops(tree, k, x, Walk(tree, k)[x])
    BY <1>1, <2>1
  <2>3. /\ Below(tree)[x] = {x} \cup Below(tree)[tree.left[x]] \cup Below(tree)[tree.right[x]]
        /\ x \in Below(tree)[x]
    BY <1>1, <2>2, BelowNode
  <2>4. Walk(tree, k)[x] = IF k = tree.data[x] \/ Side(tree, k, x) = Null THEN x
                           ELSE Walk(tree, k)[Side(tree, k, x)]
    BY <1>1, <2>2, WalkIs
  <2>5. \A a \in Below(tree)[x] : a \in Reachable(tree)
    BY <2>2, ReachableIs
  <2>6. CASE k = tree.data[x] \/ Side(tree, k, x) = Null
    <3>1. ASSUME NEW a \in Below(tree)[x]
          PROVE  x \notin Below(tree)[tree.left[a]] /\ x \notin Below(tree)[tree.right[a]]
      <4>1. CASE a = x
        BY <2>2, <4>1, SidesApart
      <4>2. CASE a # x
        <5>1. PICK c \in {tree.left[x], tree.right[x]} : a \in Below(tree)[c]
          BY <2>3, <4>2
        <5>2. /\ a \in Node /\ c \in Place
              /\ Below(tree)[tree.left[a]] \subseteq Below(tree)[a]
              /\ Below(tree)[tree.right[a]] \subseteq Below(tree)[a]
          BY <1>1, <2>2, <2>5, BelowNode
        <5>3. Below(tree)[a] \subseteq Below(tree)[c]
          BY <1>1, <5>1, <5>2, BelowBelow
        <5>4. x \notin Below(tree)[c]
          BY <2>2, SidesApart
        <5> QED BY <5>2, <5>3, <5>4
      <4> QED BY <4>1, <4>2
    <3> QED BY <2>2, <2>3, <2>4, <2>6, <3>1 DEF Stops
  <2>7. ASSUME k # tree.data[x], Side(tree, k, x) # Null PROVE FALSE
    <3> DEFINE c == Side(tree, k, x)
               stop == Walk(tree, k)[c]
    <3>1. Walk(tree, k)[x] = stop
      BY <2>4, <2>7
    <3>2. c \in Reachable(tree) /\ (c = tree.left[x] \/ c = tree.right[x])
      BY <2>2, <2>7, ReachableIs DEF Side, Closed
    <3>3. Stops(tree, k, c, stop)
      BY <2>1, <3>2
    <3>4. tree.data[x] \in Nat
      BY <2>2, ReachableIs
    <3>5. \/ c = tree.left[x] /\ k < tree.data[x]
          \/ c = tree.right[x] /\ tree.data[x] < k
      BY <2>7, <3>4 DEF Side
    <3> HIDE DEF c, stop
    <3>6. Below(tree)[tree.left[x]] \cap Below(tree)[tree.right[x]] = {}
      BY <2>2, SidesApart
    <3>7. stop \in Below(tree)[c]
      BY <3>3 DEF Stops
    <3>8. ASSUME NEW a \in Below(tree)[x]
          PROVE  /\ stop \in Below(tree)[tree.left[a]] => k < tree.data[a]
                 /\ stop \in Below(tree)[tree.right[a]] => tree.data[a] < k
      <4>1. CASE a = x
        BY <3>5, <3>6, <3>7, <4>1
      <4>2. CASE a \in Below(tree)[c]
        BY <3>3, <4>2 DEF Stops
      <4>3. ASSUME a # x, a \notin Below(tree)[c]
            PROVE  stop \notin Below(tree)[tree.left[a]] /\ stop \notin Below(tree)[tree.right[a]]
        <5>1. PICK o \in {tree.left[x], tree.right[x]} : a \in Below(tree)[o]
          BY <2>3, <4>3
        <5>2. Below(tree)[o] \cap Below(tree)[c] = {}
          BY <3>2, <3>6, <4>3, <5>1
        <5>3. /\ a \in Node /\ o \in Place
              /\ Below(tree)[tree.left[a]] \subseteq Below(tree)[a]
              /\ Below(tree)[tree.right[a]] \subseteq Below(tree)[a]
          BY <1>1, <2>2, <2>5, BelowNode
        <5>4. Below(tree)[a] \subseteq Below(tree)[o]
          BY <1>1, <5>1, <5>3, BelowBelow
        <5> QED BY <3>7, <5>2, <5>3, <5>4
      <4> QED BY <4>1, <4>2, <4>3
    <3>9. Stops(tree, k, x, stop)
      BY <2>3, <3>2, <3>3, <3>8 DEF Stops
    <3> QED BY <2>2, <3>1, <3>9
  <2> QED BY <2>2, <2>6, <2>7
<1> QED BY <1>2

LEMMA StopsAtIs ==
  ASSUME NEW tree, Shaped(tree), Ordered(tree), NEW k \in Nat, tree.root # Null
  PROVE  Stops(tree, k, tree.root, StopsAt(tree, k))
<1>1. StopsAt(tree, k) = Walk(tree, k)[tree.root]
  BY DEF StopsAt, Walk
<1> QED BY <1>1, WalkStops, ReachableIs

-----------------------------------------------------------------------------
(* Inserting *)

\* At least as many as are in the tree, at most as many as are allocated.
Counted(tree) ==
  tree.root # Null =>
    Cardinality(Reachable(tree)) <= tree.count /\ tree.count <= Cardinality(tree.live)

Sound(tree) == Shaped(tree) /\ Ordered(tree) /\ Counted(tree)

\* The elements a tree has.
Elements(tree) == {tree.data[n] : n \in Reachable(tree)}

\* bigger is tree with the node new for d, under p where there is a p.
Grown(tree, p, d, new, bigger) ==
  /\ DOMAIN bigger = {"root", "count", "live", "left", "right", "parent", "data"}
  /\ new \in Node /\ new \notin tree.live
  /\ bigger.root = IF p = Null THEN new ELSE tree.root
  /\ bigger.count = IF p = Null THEN 1 ELSE tree.count + 1
  /\ bigger.live = tree.live \cup {new}
  /\ bigger.left = [n \in Node |->
                      IF n = p /\ p # Null /\ d < tree.data[p] THEN new ELSE tree.left[n]]
  /\ bigger.right = [n \in Node |->
                      IF n = p /\ p # Null /\ d > tree.data[p] THEN new ELSE tree.right[n]]
  /\ bigger.parent = [tree.parent EXCEPT ![new] = p]
  /\ bigger.data = [tree.data EXCEPT ![new] = d]

LEMMA WithNodeIs ==
  ASSUME NEW tree, Typed(tree), tree.live # Node, NEW p, NEW d
  PROVE  \E new : Grown(tree, p, d, new, WithNode(tree, p, d))
<1> DEFINE free == Node \ tree.live
           new == CHOOSE n \in free : \A m \in free : n <= m
           left == [n \in Node |->
                      IF n = p /\ p # Null /\ d < tree.data[p] THEN new ELSE tree.left[n]]
           right == [n \in Node |->
                      IF n = p /\ p # Null /\ d > tree.data[p] THEN new ELSE tree.right[n]]
<1>1. new \in free
  <2>1. free \in SUBSET Nat /\ free # {}
    BY NullIs DEF Typed
  <2> HIDE DEF free
  <2>2. \E n \in free : \A m \in free : n <= m
    BY <2>1, LeastOf
  <2> QED BY <2>2
<1> HIDE DEF new
<1>2. WithNode(tree, p, d) =
        [tree EXCEPT !.root = IF p = Null THEN new ELSE @,
                     !.count = IF p = Null THEN 1 ELSE @ + 1,
                     !.live = @ \cup {new}, !.left = left, !.right = right,
                     !.parent[new] = p, !.data[new] = d]
  BY DEF WithNode, new
<1> HIDE DEF left, right
<1>3. DOMAIN tree = {"root", "count", "live", "left", "right", "parent", "data"}
  BY DEF Typed
<1>4. /\ DOMAIN WithNode(tree, p, d) = DOMAIN tree
      /\ WithNode(tree, p, d).root = IF p = Null THEN new ELSE tree.root
      /\ WithNode(tree, p, d).count = IF p = Null THEN 1 ELSE tree.count + 1
      /\ WithNode(tree, p, d).live = tree.live \cup {new}
  BY <1>2, <1>3
<1>5. /\ WithNode(tree, p, d).left = left
      /\ WithNode(tree, p, d).right = right
      /\ WithNode(tree, p, d).parent = [tree.parent EXCEPT ![new] = p]
      /\ WithNode(tree, p, d).data = [tree.data EXCEPT ![new] = d]
  BY <1>2, <1>3
<1>6. Grown(tree, p, d, new, WithNode(tree, p, d))
  BY <1>1, <1>3, <1>4, <1>5 DEF Grown, left, right
<1> QED BY <1>6

\* Where a new node may be: under p, on the side where d belongs and p has no
\* child; or at the root of an empty tree.
FreePlace(tree, p, d) ==
  \/ tree.root = Null /\ p = Null
  \/ /\ tree.root # Null /\ p \in Reachable(tree)
     /\ d # tree.data[p] /\ Side(tree, d, p) = Null

LEMMA GrownLinks ==
  ASSUME NEW tree, Shaped(tree), NEW d \in Key, NEW p, NEW new, NEW bigger,
         FreePlace(tree, p, d), Grown(tree, p, d, new, bigger)
  PROVE  /\ p \in tree.live \cup {Null} /\ p # new /\ new # Null
         /\ \A n \in Node :
              /\ bigger.left[n] # tree.left[n] =>
                   n = p /\ d < tree.data[p] /\ tree.left[n] = Null /\ bigger.left[n] = new
              /\ bigger.right[n] # tree.right[n] =>
                   n = p /\ tree.data[p] < d /\ tree.right[n] = Null /\ bigger.right[n] = new
         /\ p # Null => bigger.left[p] = new \/ bigger.right[p] = new
         /\ bigger.left[new] = Null /\ bigger.right[new] = Null
         /\ \A n \in Node : n # new => bigger.data[n] = tree.data[n]
                                       /\ bigger.parent[n] = tree.parent[n]
         /\ bigger.data[new] = d /\ bigger.parent[new] = p
<1>1. Typed(tree) /\ Reachable(tree) \subseteq tree.live /\ tree.live \subseteq Node
  BY ReachableIs DEF Shaped
<1>2. p \in tree.live \cup {Null} /\ p # new /\ new # Null /\ new \in Node
  BY <1>1, NullIs DEF FreePlace, Grown
<1>3. p # Null => tree.data[p] \in Nat /\ p \in Reachable(tree)
  BY ReachableIs DEF FreePlace
<1>4. d \in Nat
  BY KeyAssumption
<1>5. p # Null => \/ d < tree.data[p] /\ tree.left[p] = Null
                  \/ tree.data[p] < d /\ tree.right[p] = Null
  BY <1>3, <1>4 DEF FreePlace, Side
<1>6. ASSUME NEW n \in Node
      PROVE  /\ bigger.left[n] = IF n = p /\ p # Null /\ d < tree.data[p] THEN new ELSE tree.left[n]
             /\ bigger.right[n] = IF n = p /\ p # Null /\ d > tree.data[p] THEN new
                                  ELSE tree.right[n]
  BY DEF Grown
<1>7. ASSUME NEW n \in Node
      PROVE  /\ bigger.left[n] # tree.left[n] =>
                  n = p /\ d < tree.data[p] /\ tree.left[n] = Null /\ bigger.left[n] = new
             /\ bigger.right[n] # tree.right[n] =>
                  n = p /\ tree.data[p] < d /\ tree.right[n] = Null /\ bigger.right[n] = new
  <2>1. CASE n = p /\ p # Null
    BY <1>3, <1>4, <1>5, <1>6, <2>1
  <2>2. CASE ~(n = p /\ p # Null)
    BY <1>6, <2>2
  <2> QED BY <2>1, <2>2
<1>8. p # Null => bigger.left[p] = new \/ bigger.right[p] = new
  BY <1>1, <1>2, <1>3, <1>4, <1>5, <1>6
<1>9. bigger.left[new] = Null /\ bigger.right[new] = Null
  BY <1>1, <1>2, <1>6 DEF Grown, Typed
<1>10. /\ \A n \in Node : n # new => bigger.data[n] = tree.data[n]
                                     /\ bigger.parent[n] = tree.parent[n]
       /\ bigger.data[new] = d /\ bigger.parent[new] = p
  BY <1>2, <1>1 DEF Grown, Typed
<1> QED BY <1>2, <1>7, <1>8, <1>9, <1>10

LEMMA GrownShaped ==
  ASSUME NEW tree, Shaped(tree), NEW d \in Key, NEW p, NEW new, NEW bigger,
         FreePlace(tree, p, d), Grown(tree, p, d, new, bigger),
         p # Null => tree.count < Nodes
  PROVE  Shaped(bigger)
<1>1. Typed(tree) /\ Linked(tree) /\ Acyclic(tree)
  BY DEF Shaped
<1>2. /\ p \in tree.live \cup {Null} /\ p # new /\ new # Null
      /\ \A n \in Node :
           /\ bigger.left[n] # tree.left[n] =>
                n = p /\ d < tree.data[p] /\ tree.left[n] = Null /\ bigger.left[n] = new
           /\ bigger.right[n] # tree.right[n] =>
                n = p /\ tree.data[p] < d /\ tree.right[n] = Null /\ bigger.right[n] = new
      /\ p # Null => bigger.left[p] = new \/ bigger.right[p] = new
      /\ bigger.left[new] = Null /\ bigger.right[new] = Null
      /\ \A n \in Node : n # new => bigger.data[n] = tree.data[n]
                                    /\ bigger.parent[n] = tree.parent[n]
      /\ bigger.data[new] = d /\ bigger.parent[new] = p
  BY GrownLinks
<1>3. new \in Node /\ new \notin tree.live /\ bigger.live = tree.live \cup {new}
      /\ tree.live \subseteq Node
  BY <1>1 DEF Grown, Typed
<1>4. Typed(bigger)
  <2>1. bigger.live \subseteq Node /\ bigger.root \in bigger.live \cup {Null}
    BY <1>1, <1>3 DEF Grown, Typed
  <2>2. bigger.count \in 0 .. Nodes
    BY <1>1, NodesAssumption DEF Grown, Typed
  <2>3. bigger.left \in [Node -> bigger.live \cup {Null}]
        /\ bigger.right \in [Node -> bigger.live \cup {Null}]
    BY <1>1, <1>3 DEF Grown, Typed
  <2>4. bigger.parent \in [Node -> Place] /\ bigger.data \in [Node -> Key \cup {Null}]
    BY <1>1, <1>2, <1>3 DEF Grown, Typed, Place
  <2>5. \A n \in bigger.live : bigger.data[n] \in Key
    BY <1>1, <1>2, <1>3 DEF Typed
  <2>6. ASSUME NEW n \in Node \ bigger.live PROVE bigger.left[n] = Null /\ bigger.right[n] = Null
    BY <1>1, <1>2, <1>3, NullIs DEF Typed
  <2>7. DOMAIN bigger = {"root", "count", "live", "left", "right", "parent", "data"}
    BY DEF Grown
  <2> QED BY <2>1, <2>2, <2>3, <2>4, <2>5, <2>6, <2>7 DEF Typed
<1>5. Linked(bigger)
  <2>1. ASSUME bigger.root # Null PROVE bigger.parent[bigger.root] = Null
    <3>1. CASE p = Null
      BY <1>2, <3>1 DEF Grown
    <3>2. CASE p # Null
      <4>1. bigger.root = tree.root /\ tree.root # Null /\ tree.root \in tree.live
        BY <1>1, <3>2, <2>1 DEF Grown, Typed
      <4> QED BY <1>1, <1>2, <1>3, <4>1 DEF Linked
    <3> QED BY <3>1, <3>2
  <2>2. ASSUME NEW n \in bigger.live, NEW c, c # Null, c \in {bigger.left[n], bigger.right[n]}
        PROVE  bigger.parent[c] = n
    <3>1. CASE c = new
      <4>1. n # new
        BY <1>2, <1>3, <2>2
      <4>2. tree.left[n] # new /\ tree.right[n] # new /\ n \in Node
        BY <1>1, <1>2, <1>3, <4>1 DEF Typed
      <4>3. n = p
        BY <1>2, <2>2, <3>1, <4>2
      <4> QED BY <1>2, <3>1, <4>3
    <3>2. CASE c # new
      <4>1. n \in Node /\ n # new /\ n \in tree.live
        BY <1>2, <1>3, <2>2
      <4>2. c = tree.left[n] \/ c = tree.right[n]
        BY <1>2, <2>2, <3>2, <4>1
      <4>3. tree.parent[c] = n /\ c \in Node
        BY <1>1, <2>2, <4>1, <4>2 DEF Linked, Typed
      <4> QED BY <1>2, <3>2, <4>3
    <3> QED BY <3>1, <3>2
  <2>3. ASSUME NEW n \in bigger.live, bigger.left[n] # Null, bigger.left[n] = bigger.right[n]
        PROVE  FALSE
    <3>1. n \in Node /\ n # new /\ n \in tree.live
      BY <1>2, <1>3, <2>3
    <3>2. tree.left[n] # new /\ tree.right[n] # new
      BY <1>1, <1>2, <1>3, <3>1 DEF Typed
    <3>3. CASE bigger.left[n] = tree.left[n] /\ bigger.right[n] = tree.right[n]
      BY <1>1, <2>3, <3>1, <3>3 DEF Linked
    <3>4. CASE bigger.left[n] # tree.left[n]
      <4>1. bigger.left[n] = new /\ bigger.right[n] # tree.right[n] /\ d < tree.data[p] /\ n = p
        BY <1>2, <2>3, <3>1, <3>2, <3>4
      <4>2. tree.data[p] < d
        BY <1>2, <3>1, <4>1
      <4>3. d \in Nat /\ tree.data[p] \in Nat
        BY <1>1, <3>1, <4>1, KeyAssumption DEF Typed
      <4> QED BY <4>1, <4>2, <4>3
    <3>5. CASE bigger.left[n] = tree.left[n] /\ bigger.right[n] # tree.right[n]
      BY <1>2, <2>3, <3>1, <3>2, <3>5
    <3> QED BY <3>3, <3>4, <3>5
  <2> QED BY <2>1, <2>2, <2>3 DEF Linked
<1>6. Acyclic(bigger)
  <2>1. PICK top \in Nat : \E rank \in [Node -> 0 .. top] : Ranks(tree, rank)
    BY <1>1 DEF Acyclic
  <2>2. PICK rank \in [Node -> 0 .. top] : Ranks(tree, rank)
    BY <2>1
  <2> DEFINE more == [n \in Node |-> IF n = new THEN 0 ELSE rank[n] + 1]
  <2>3. \A n \in Node : rank[n] \in 0 .. top /\ more[n] = IF n = new THEN 0 ELSE rank[n] + 1
    BY <2>2
  <2>4. more \in [Node -> 0 .. top + 1]
    BY <2>3
  <2> HIDE DEF more
  <2>5. ASSUME NEW n \in Node, NEW c \in Node, c = bigger.left[n] \/ c = bigger.right[n]
        PROVE  more[c] < more[n]
    <3>1. n # new
      BY <1>2, <2>5, NullIs
    <3>2. CASE c = new
      BY <2>3, <3>1, <3>2
    <3>3. CASE c # new
      <4>1. c = tree.left[n] \/ c = tree.right[n]
        BY <1>2, <2>5, <3>3
      <4>2. rank[c] < rank[n]
        BY <2>2, <4>1, NullIs DEF Ranks
      <4> QED BY <2>3, <3>1, <3>3, <4>2
    <3> QED BY <3>2, <3>3
  <2>6. Ranks(bigger, more)
    <3>1. ASSUME NEW n \in Node PROVE bigger.left[n] \in Place /\ bigger.right[n] \in Place
      BY <1>4 DEF Typed, Place
    <3> QED BY <2>5, <3>1 DEF Ranks, Place
  <2>7. top + 1 \in Nat
    OBVIOUS
  <2> QED BY <2>4, <2>6, <2>7 DEF Acyclic
<1> QED BY <1>4, <1>5, <1>6 DEF Shaped

\* What is below each node, then.
LEMMA GrownBelow ==
  ASSUME NEW tree, Shaped(tree), NEW d \in Key, NEW p, NEW new, NEW bigger,
         FreePlace(tree, p, d), Grown(tree, p, d, new, bigger), Shaped(bigger)
  PROVE  /\ Below(bigger)[new] = {new}
         /\ \A x \in tree.live \cup {Null} : \A m \in Below(bigger)[x] :
              \/ m \in Below(tree)[x]
              \/ m = new /\ p \in Below(tree)[x]
         /\ Reachable(bigger) = Reachable(tree) \cup {new}
<1>1. Typed(tree) /\ Acyclic(tree) /\ Typed(bigger) /\ Acyclic(bigger)
  BY DEF Shaped
<1>2. /\ p \in tree.live \cup {Null} /\ p # new /\ new # Null
      /\ \A n \in Node :
           /\ bigger.left[n] # tree.left[n] =>
                n = p /\ d < tree.data[p] /\ tree.left[n] = Null /\ bigger.left[n] = new
           /\ bigger.right[n] # tree.right[n] =>
                n = p /\ tree.data[p] < d /\ tree.right[n] = Null /\ bigger.right[n] = new
      /\ p # Null => bigger.left[p] = new \/ bigger.right[p] = new
      /\ bigger.left[new] = Null /\ bigger.right[new] = Null
  BY GrownLinks
<1>3. new \in Node /\ new \notin tree.live /\ tree.live \subseteq Node
  BY <1>1 DEF Grown, Typed
<1>4. Below(bigger)[new] = {new}
  BY <1>1, <1>2, <1>3, BelowNode, BelowNull
<1>5. ASSUME NEW x \in tree.live \cup {Null}
      PROVE  \A m \in Below(bigger)[x] : \/ m \in Below(tree)[x]
                                         \/ m = new /\ p \in Below(tree)[x]
  <2> DEFINE S == {m \in Node : \/ m \in Below(tree)[x]
                                \/ m = new /\ p \in Below(tree)[x]}
  <2>1. x \in Place /\ Below(tree)[x] \subseteq tree.live /\ Closed(tree, Below(tree)[x])
    BY <1>1, <1>3, BelowClosed, BelowLive DEF Place
  <2>2. ASSUME NEW n \in S, NEW c, c # Null, c \in {bigger.left[n], bigger.right[n]}
        PROVE  c \in S
    <3>1. n # new
      BY <1>2, <2>2
    <3>2. n \in Below(tree)[x] /\ n \in Node
      BY <3>1
    <3>3. CASE c \in {tree.left[n], tree.right[n]}
      <4>1. c \in Below(tree)[x]
        BY <2>1, <2>2, <3>2, <3>3 DEF Closed
      <4> QED BY <1>3, <2>1, <4>1
    <3>4. CASE c \notin {tree.left[n], tree.right[n]}
      <4>1. c = new /\ n = p
        BY <1>2, <2>2, <3>2, <3>4
      <4> QED BY <1>3, <3>2, <4>1
    <3> QED BY <3>3, <3>4
  <2>3. x # Null => x \in S
    BY <1>1, <1>3, BelowNode
  <2>4. Closed(bigger, S)
    <3> HIDE DEF S
    <3> QED BY <2>2 DEF Closed
  <2>5. Below(bigger)[x] \subseteq S
    <3> HIDE DEF S
    <3> QED BY <1>1, <2>1, <2>3, <2>4, BelowLeast
  <2> QED BY <2>5
<1>6. p # Null => p \in Reachable(tree) /\ tree.root # Null /\ bigger.root = tree.root
  BY NullIs, ReachableIs DEF FreePlace, Grown
<1>7. p = Null => Reachable(tree) = {} /\ bigger.root = new
  BY NullIs, ReachableIs DEF FreePlace, Grown
<1>8. Reachable(bigger) = Below(bigger)[bigger.root] /\ Reachable(tree) = Below(tree)[tree.root]
      /\ tree.root \in tree.live \cup {Null}
  BY <1>1, ReachableBelow DEF Typed
<1>9. p = Null => Reachable(bigger) = Reachable(tree) \cup {new}
  BY <1>4, <1>7, <1>8
<1>10. ASSUME p # Null PROVE Reachable(bigger) = Reachable(tree) \cup {new}
  <2>1. Reachable(bigger) \subseteq Reachable(tree) \cup {new}
    BY <1>5, <1>6, <1>8, <1>10
  <2>2. Closed(bigger, Reachable(bigger)) /\ tree.root \in Reachable(bigger)
    BY <1>6, <1>10, ReachableIs
  <2>3. ASSUME NEW n \in Reachable(bigger), NEW c, c # Null, c \in {tree.left[n], tree.right[n]}
        PROVE  c \in Reachable(bigger)
    <3>1. n \in Node
      BY ReachableIs
    <3>2. c \in {bigger.left[n], bigger.right[n]}
      BY <1>2, <2>3, <3>1
    <3> QED BY <2>2, <2>3, <3>2 DEF Closed
  <2>4. Closed(tree, Reachable(bigger))
    BY <2>3 DEF Closed
  <2>5. Reachable(tree) \subseteq Reachable(bigger)
    BY <1>1, <1>8, <2>2, <2>4, BelowLeast, ReachableIs
  <2>6. new \in Reachable(bigger)
    BY <1>2, <1>6, <1>10, <2>2, <2>5 DEF Closed
  <2> QED BY <2>1, <2>5, <2>6
<1> QED BY <1>4, <1>5, <1>9, <1>10

LEMMA GrownOrdered ==
  ASSUME NEW tree, Shaped(tree), Ordered(tree), NEW d \in Key, NEW p, NEW new, NEW bigger,
         FreePlace(tree, p, d), Grown(tree, p, d, new, bigger), Shaped(bigger),
         p # Null => Stops(tree, d, tree.root, p)
  PROVE  Ordered(bigger)
<1>1. Typed(tree) /\ Acyclic(tree) /\ Typed(bigger) /\ Acyclic(bigger)
  BY DEF Shaped
<1>2. /\ p \in tree.live \cup {Null} /\ p # new /\ new # Null
      /\ \A n \in Node :
           /\ bigger.left[n] # tree.left[n] =>
                n = p /\ d < tree.data[p] /\ tree.left[n] = Null /\ bigger.left[n] = new
           /\ bigger.right[n] # tree.right[n] =>
                n = p /\ tree.data[p] < d /\ tree.right[n] = Null /\ bigger.right[n] = new
      /\ bigger.left[new] = Null /\ bigger.right[new] = Null
      /\ \A n \in Node : n # new => bigger.data[n] = tree.data[n]
      /\ bigger.data[new] = d
  BY GrownLinks
<1>3. /\ new \in Node /\ new \notin tree.live
      /\ Reachable(tree) \subseteq tree.live /\ tree.live \subseteq Node
      /\ Reachable(tree) = Below(tree)[tree.root]
  BY ReachableIs DEF Grown
<1>4. /\ Below(bigger)[new] = {new}
      /\ \A x \in tree.live \cup {Null} : \A m \in Below(bigger)[x] :
           \/ m \in Below(tree)[x]
           \/ m = new /\ p \in Below(tree)[x]
      /\ Reachable(bigger) = Reachable(tree) \cup {new}
  BY GrownBelow
<1>5. Below(bigger)[Null] = {} /\ Below(tree)[Null] = {}
  BY <1>1, BelowNull
<1>6. ASSUME NEW n \in Reachable(tree)
      PROVE  /\ n \in Node /\ n # new /\ bigger.data[n] = tree.data[n]
             /\ tree.left[n] \in tree.live \cup {Null} /\ tree.right[n] \in tree.live \cup {Null}
             /\ Below(tree)[tree.left[n]] \subseteq Reachable(tree)
             /\ Below(tree)[tree.right[n]] \subseteq Reachable(tree)
  <2>1. n \in Node /\ n # new /\ bigger.data[n] = tree.data[n]
    BY <1>2, <1>3
  <2>2. tree.left[n] \in tree.live \cup {Null} /\ tree.right[n] \in tree.live \cup {Null}
    BY <1>1, <2>1 DEF Typed
  <2> QED BY <2>1, <2>2, SidesApart
<1>7. ASSUME NEW n \in Reachable(tree), NEW m \in Below(bigger)[bigger.left[n]]
      PROVE  bigger.data[m] < bigger.data[n]
  <2>1. CASE bigger.left[n] # tree.left[n]
    <3>1. n = p /\ d < tree.data[p] /\ bigger.left[n] = new
      BY <1>2, <1>6, <2>1
    <3>2. m = new
      BY <1>4, <1>7, <3>1
    <3> QED BY <1>2, <1>6, <3>1, <3>2
  <2>2. CASE bigger.left[n] = tree.left[n]
    <3>1. CASE m \in Below(tree)[tree.left[n]]
      <4>1. tree.data[m] < tree.data[n] /\ bigger.data[m] = tree.data[m]
        BY <1>6, <3>1 DEF Ordered
      <4> QED BY <1>6, <4>1
    <3>2. CASE m = new /\ p \in Below(tree)[tree.left[n]]
      <4>1. p # Null
        BY <1>3, <1>6, <3>2, NullIs
      <4>2. d < tree.data[n]
        BY <1>3, <3>2, <4>1 DEF Stops
      <4> QED BY <1>2, <1>6, <3>2, <4>2
    <3>3. tree.left[n] \in tree.live \cup {Null} /\ m \in Below(bigger)[tree.left[n]]
      BY <1>6, <1>7, <2>2
    <3> QED BY <1>4, <3>1, <3>2, <3>3
  <2> QED BY <2>1, <2>2
<1>8. ASSUME NEW n \in Reachable(tree), NEW m \in Below(bigger)[bigger.right[n]]
      PROVE  bigger.data[n] < bigger.data[m]
  <2>1. CASE bigger.right[n] # tree.right[n]
    <3>1. n = p /\ tree.data[p] < d /\ bigger.right[n] = new
      BY <1>2, <1>6, <2>1
    <3>2. m = new
      BY <1>4, <1>8, <3>1
    <3> QED BY <1>2, <1>6, <3>1, <3>2
  <2>2. CASE bigger.right[n] = tree.right[n]
    <3>1. CASE m \in Below(tree)[tree.right[n]]
      <4>1. tree.data[n] < tree.data[m] /\ bigger.data[m] = tree.data[m]
        BY <1>6, <3>1 DEF Ordered
      <4> QED BY <1>6, <4>1
    <3>2. CASE m = new /\ p \in Below(tree)[tree.right[n]]
      <4>1. p # Null
        BY <1>3, <1>6, <3>2, NullIs
      <4>2. tree.data[n] < d
        BY <1>3, <3>2, <4>1 DEF Stops
      <4> QED BY <1>2, <1>6, <3>2, <4>2
    <3>3. tree.right[n] \in tree.live \cup {Null} /\ m \in Below(bigger)[tree.right[n]]
      BY <1>6, <1>8, <2>2
    <3> QED BY <1>4, <3>1, <3>2, <3>3
  <2> QED BY <2>1, <2>2
<1> QED BY <1>2, <1>4, <1>5, <1>7, <1>8 DEF Ordered

LEMMA LiveFinite ==
  ASSUME NEW tree, Shaped(tree)
  PROVE  /\ IsFiniteSet(tree.live) /\ IsFiniteSet(Reachable(tree))
         /\ Cardinality(tree.live) \in Nat /\ Cardinality(Reachable(tree)) \in Nat
         /\ Cardinality(Reachable(tree)) <= Cardinality(tree.live)
         /\ Cardinality(tree.live) <= Nodes
         /\ tree.live # Node => Cardinality(tree.live) < Nodes
<1>1. IsFiniteSet(Node) /\ Cardinality(Node) = Nodes
  BY NodesAssumption, FS_Interval DEF Node
<1>2. tree.live \in SUBSET Node /\ Reachable(tree) \in SUBSET tree.live
  BY ReachableIs
<1>3. IsFiniteSet(tree.live) /\ Cardinality(tree.live) <= Nodes
      /\ (Cardinality(Node) = Cardinality(tree.live) => Node = tree.live)
  BY <1>1, <1>2, FS_Subset
<1>4. IsFiniteSet(Reachable(tree)) /\ Cardinality(Reachable(tree)) <= Cardinality(tree.live)
  BY <1>2, <1>3, FS_Subset
<1>5. Cardinality(tree.live) \in Nat /\ Cardinality(Reachable(tree)) \in Nat
  BY <1>3, <1>4, FS_CardinalityType
<1>6. Nodes \in Nat
  BY NodesAssumption
<1> QED BY <1>1, <1>3, <1>4, <1>5, <1>6

\* Inserting keeps the tree, and adds its argument.
LEMMA InsertedIs ==
  ASSUME NEW tree, Sound(tree), tree.live # Node, NEW d \in Key
  PROVE  /\ Sound(Inserted(tree, d))
         /\ Elements(Inserted(tree, d)) = Elements(tree) \cup {d}
         /\ Inserted(tree, d).root # Null
         /\ \/ Inserted(tree, d) = tree
            \/ \E new \in Node \ tree.live : Inserted(tree, d).live = tree.live \cup {new}
<1> DEFINE stop == StopsAt(tree, d)
           p == IF tree.root = Null THEN Null ELSE stop
<1>1. Shaped(tree) /\ Ordered(tree) /\ Counted(tree) /\ Typed(tree) /\ d \in Nat
  BY KeyAssumption DEF Sound, Shaped
<1>2. tree.root # Null => Stops(tree, d, tree.root, stop)
  BY <1>1, StopsAtIs
<1>3. tree.root # Null => stop \in Reachable(tree)
  BY <1>1, <1>2, ReachableIs DEF Stops
<1> HIDE DEF stop
<1>4. CASE tree.root # Null /\ tree.data[stop] = d
  <2>1. Inserted(tree, d) = tree
    BY <1>4 DEF Inserted, stop
  <2>2. d \in Elements(tree)
    BY <1>3, <1>4 DEF Elements
  <2> QED BY <1>4, <2>1, <2>2
<1>5. CASE ~(tree.root # Null /\ tree.data[stop] = d)
  <2>1. Inserted(tree, d) = WithNode(tree, p, d)
    BY <1>5 DEF Inserted, stop
  <2>2. FreePlace(tree, p, d)
    BY <1>2, <1>3, <1>5 DEF FreePlace, Stops
  <2>3. p # Null => Stops(tree, d, tree.root, p)
    BY <1>2
  <2>4. p # Null <=> tree.root # Null
    BY <1>1, <1>3, NullIs, ReachableIs
  <2> HIDE DEF p
  <2> DEFINE bigger == WithNode(tree, p, d)
  <2>5. PICK new : Grown(tree, p, d, new, bigger)
    BY <1>1, WithNodeIs
  <2> HIDE DEF bigger
  <2>6. tree.count \in Nat /\ (p # Null => tree.count < Nodes)
    <3>1. Cardinality(tree.live) < Nodes /\ Cardinality(tree.live) \in Nat /\ Nodes \in Nat
      BY <1>1, LiveFinite, NodesAssumption
    <3>2. tree.count \in 0 .. Nodes
      BY <1>1 DEF Typed
    <3>3. p # Null => tree.count <= Cardinality(tree.live)
      BY <1>1, <2>4 DEF Counted
    <3> QED BY <3>1, <3>2, <3>3
  <2>7. Shaped(bigger)
    BY <1>1, <2>2, <2>5, <2>6, GrownShaped
  <2>8. Ordered(bigger)
    BY <1>1, <2>2, <2>3, <2>5, <2>7, GrownOrdered
  <2>9. Reachable(bigger) = Reachable(tree) \cup {new}
    BY <1>1, <2>2, <2>5, <2>7, GrownBelow
  <2>10. /\ bigger.live = tree.live \cup {new} /\ new \in Node \ tree.live
         /\ bigger.count = IF p = Null THEN 1 ELSE tree.count + 1
         /\ bigger.root # Null
    <3>1. bigger.root # Null
      BY <1>1, <2>4, <2>5, NullIs DEF Grown
    <3> QED BY <2>5, <3>1 DEF Grown
  <2>11. Counted(bigger)
    <3>1. new \notin Reachable(tree)
      BY <1>1, <2>10, ReachableIs
    <3>2. /\ Cardinality(Reachable(bigger)) = Cardinality(Reachable(tree)) + 1
          /\ Cardinality(bigger.live) = Cardinality(tree.live) + 1
      BY <1>1, <2>9, <2>10, <3>1, LiveFinite, FS_AddElement
    <3>3. CASE p = Null
      <4>1. Reachable(tree) = {}
        BY <1>1, <2>4, <3>3, ReachableIs
      <4>2. Cardinality(Reachable(tree)) = 0 /\ Cardinality(tree.live) \in Nat
        BY <1>1, <4>1, FS_EmptySet, LiveFinite
      <4> QED BY <2>10, <3>2, <3>3, <4>2 DEF Counted
    <3>4. CASE p # Null
      <4>1. /\ Cardinality(Reachable(tree)) <= tree.count
            /\ tree.count <= Cardinality(tree.live)
        BY <1>1, <2>4, <3>4 DEF Counted
      <4>2. Cardinality(Reachable(tree)) \in Nat /\ Cardinality(tree.live) \in Nat
        BY <1>1, LiveFinite
      <4> QED BY <2>6, <2>10, <3>2, <3>4, <4>1, <4>2 DEF Counted
    <3> QED BY <3>3, <3>4
  <2>12. Elements(bigger) = Elements(tree) \cup {d}
    <3>1. bigger.data[new] = d /\ \A n \in Reachable(tree) : bigger.data[n] = tree.data[n]
      BY <1>1, <2>2, <2>5, <2>10, GrownLinks, ReachableIs
    <3> QED BY <2>9, <3>1 DEF Elements
  <2> QED BY <2>1, <2>7, <2>8, <2>10, <2>11, <2>12 DEF Sound, bigger
<1> QED BY <1>4, <1>5

-----------------------------------------------------------------------------
(* Removing *)

\* smaller is tree with the child c in place of its node g, and then v as the
\* element of x.
Unlinked(tree, g, c, x, v, smaller) ==
  /\ DOMAIN smaller = {"root", "count", "live", "left", "right", "parent", "data"}
  /\ smaller.root = IF tree.parent[g] = Null THEN c ELSE tree.root
  /\ smaller.count = tree.count - 1
  /\ smaller.live = tree.live \ {g}
  /\ smaller.left = [m \in Node |-> IF m = g THEN Null
                       ELSE IF tree.left[m] = g THEN c ELSE tree.left[m]]
  /\ smaller.right = [m \in Node |-> IF m = g THEN Null
                       ELSE IF tree.right[m] = g THEN c ELSE tree.right[m]]
  /\ smaller.parent = [m \in Node |-> IF m = g THEN Null
                       ELSE IF m = c THEN tree.parent[g] ELSE tree.parent[m]]
  /\ smaller.data = [m \in Node |-> IF m = g THEN Null
                       ELSE IF m = x THEN v ELSE tree.data[m]]

\* c is what of a child g's place may go to.
Heir(tree, g, c) == c = Null \/ c = tree.left[g] \/ c = tree.right[g]

LEMMA UnlinkedShaped ==
  ASSUME NEW tree, Shaped(tree), NEW g \in Reachable(tree), NEW c, Heir(tree, g, c),
         NEW x, NEW v \in Key, NEW smaller, Unlinked(tree, g, c, x, v, smaller),
         tree.count # 0
  PROVE  Shaped(smaller)
<1>1. Typed(tree) /\ Linked(tree) /\ Acyclic(tree)
  BY DEF Shaped
<1>2. g \in tree.live /\ g \in Node /\ tree.live \subseteq Node /\ g # Null
  BY ReachableIs, NullIs
<1>3. PICK top \in Nat : \E rank \in [Node -> 0 .. top] : Ranks(tree, rank)
  BY <1>1 DEF Acyclic
<1>4. PICK rank \in [Node -> 0 .. top] : Ranks(tree, rank)
  BY <1>3
<1>5. /\ c \in tree.live \cup {Null}
      /\ c # Null => c \in Node /\ tree.parent[c] = g /\ rank[c] < rank[g]
      /\ c # g
  <2>1. c \in tree.live \cup {Null}
    BY <1>1, <1>2 DEF Typed, Heir
  <2>2. ASSUME c # Null PROVE c \in Node /\ tree.parent[c] = g /\ rank[c] < rank[g]
    BY <1>1, <1>2, <1>4, <2>1, <2>2 DEF Linked, Heir, Ranks
  <2>3. c # g
    <3>1. ~(rank[g] < rank[g])
      BY <1>2, <1>4
    <3> QED BY <1>2, <2>2, <3>1
  <2> QED BY <2>1, <2>2, <2>3
<1>6. /\ smaller.left[g] = Null /\ smaller.right[g] = Null
      /\ \A m \in Node : m # g =>
           /\ smaller.left[m] = IF tree.left[m] = g THEN c ELSE tree.left[m]
           /\ smaller.right[m] = IF tree.right[m] = g THEN c ELSE tree.right[m]
           /\ smaller.parent[m] = IF m = c THEN tree.parent[g] ELSE tree.parent[m]
  BY <1>2 DEF Unlinked
<1>7. smaller.live = tree.live \ {g}
      /\ smaller.root = IF tree.parent[g] = Null THEN c ELSE tree.root
  BY DEF Unlinked
<1>8. tree.root # Null /\ tree.parent[tree.root] = Null /\ tree.root \in tree.live
      /\ (tree.parent[g] = Null \/ g # tree.root)
  BY <1>1, <1>2, ReachableIs DEF Linked, Typed
<1>9. Typed(smaller)
  <2>1. smaller.live \subseteq Node /\ smaller.root \in smaller.live \cup {Null}
    BY <1>2, <1>5, <1>7, <1>8
  <2>2. smaller.count \in 0 .. Nodes
    <3>1. tree.count \in 0 .. Nodes
      BY <1>1 DEF Typed
    <3>2. smaller.count = tree.count - 1 /\ tree.count # 0
      BY DEF Unlinked
    <3> HIDE DEF Unlinked
    <3> QED BY <3>1, <3>2, NodesAssumption
  <2>3. ASSUME NEW m \in Node
        PROVE  /\ smaller.left[m] \in smaller.live \cup {Null}
               /\ smaller.right[m] \in smaller.live \cup {Null}
    <3>1. tree.left[m] \in tree.live \cup {Null} /\ tree.right[m] \in tree.live \cup {Null}
      BY <1>1 DEF Typed
    <3> QED BY <1>2, <1>5, <1>6, <1>7, <3>1
  <2>4. smaller.left \in [Node -> smaller.live \cup {Null}]
    <3>1. smaller.left = [m \in Node |-> smaller.left[m]]
      BY DEF Unlinked
    <3> QED BY <2>3, <3>1
  <2>5. smaller.right \in [Node -> smaller.live \cup {Null}]
    <3>1. smaller.right = [m \in Node |-> smaller.right[m]]
      BY DEF Unlinked
    <3> QED BY <2>3, <3>1
  <2>6. smaller.parent \in [Node -> Place]
    BY <1>1, <1>2, NullIs DEF Unlinked, Typed
  <2>7. smaller.data \in [Node -> Key \cup {Null}]
    BY <1>1 DEF Unlinked, Typed
  <2>8. \A m \in smaller.live : smaller.data[m] \in Key
    BY <1>1, <1>2, <1>7 DEF Unlinked, Typed
  <2>9. ASSUME NEW m \in Node \ smaller.live PROVE smaller.left[m] = Null /\ smaller.right[m] = Null
    <3>1. CASE m = g
      BY <1>6, <3>1
    <3>2. CASE m # g
      <4>1. m \in Node \ tree.live
        BY <1>7, <3>2
      <4>2. tree.left[m] = Null /\ tree.right[m] = Null
        BY <1>1, <4>1 DEF Typed
      <4> QED BY <1>2, <1>6, <3>2, <4>2
    <3> QED BY <3>1, <3>2
  <2>10. DOMAIN smaller = {"root", "count", "live", "left", "right", "parent", "data"}
    BY DEF Unlinked
  <2> QED BY <2>1, <2>2, <2>4, <2>5, <2>6, <2>7, <2>8, <2>9, <2>10 DEF Typed
<1>10. Linked(smaller)
  <2>1. ASSUME smaller.root # Null PROVE smaller.parent[smaller.root] = Null
    <3>1. CASE tree.parent[g] = Null
      BY <1>5, <1>6, <1>7, <2>1, <3>1
    <3>2. CASE tree.parent[g] # Null
      <4>1. smaller.root = tree.root /\ tree.root # g /\ tree.root # c
        BY <1>2, <1>5, <1>7, <1>8, <3>2
      <4> QED BY <1>2, <1>6, <1>8, <4>1
    <3> QED BY <3>1, <3>2
  <2>2. ASSUME NEW m \in smaller.live, NEW e, e # Null, e \in {smaller.left[m], smaller.right[m]}
        PROVE  smaller.parent[e] = m
    <3>1. m \in tree.live /\ m # g /\ m \in Node
      BY <1>2, <1>7
    <3>2. CASE e \in {tree.left[m], tree.right[m]} /\ e # g
      <4>1. tree.parent[e] = m /\ e \in Node
        BY <1>1, <1>2, <2>2, <3>1, <3>2 DEF Linked, Typed
      <4>2. e # c
        BY <1>5, <2>2, <3>1, <4>1
      <4> QED BY <1>6, <3>2, <4>1, <4>2
    <3>3. CASE ~(e \in {tree.left[m], tree.right[m]} /\ e # g)
      <4>1. e = c /\ (tree.left[m] = g \/ tree.right[m] = g)
        BY <1>5, <1>6, <2>2, <3>1, <3>3
      <4>2. tree.parent[g] = m
        BY <1>1, <1>2, <3>1, <4>1 DEF Linked
      <4> QED BY <1>5, <1>6, <2>2, <4>1, <4>2
    <3> QED BY <3>2, <3>3
  <2>3. ASSUME NEW m \in smaller.live, smaller.left[m] # Null, smaller.left[m] = smaller.right[m]
        PROVE  FALSE
    <3>1. m \in tree.live /\ m # g /\ m \in Node
      BY <1>2, <1>7
    <3>2. tree.left[m] = g \/ tree.right[m] = g
      BY <1>1, <1>6, <2>3, <3>1 DEF Linked
    <3>3. ~(tree.left[m] = g /\ tree.right[m] = g)
      BY <1>1, <1>2, <3>1 DEF Linked
    <3>4. c # Null /\ c \in {tree.left[m], tree.right[m]}
      BY <1>6, <2>3, <3>1, <3>2, <3>3
    <3>5. tree.parent[c] = m
      BY <1>1, <3>1, <3>4 DEF Linked
    <3> QED BY <1>5, <3>1, <3>4, <3>5
  <2> QED BY <2>1, <2>2, <2>3 DEF Linked
<1>11. Acyclic(smaller)
  <2>1. ASSUME NEW m \in Node, NEW e, e # Null, e \in {smaller.left[m], smaller.right[m]}
        PROVE  rank[e] < rank[m]
    <3>1. m # g
      BY <1>6, <2>1
    <3>2. CASE e \in {tree.left[m], tree.right[m]}
      BY <1>4, <2>1, <3>2 DEF Ranks
    <3>3. CASE e \notin {tree.left[m], tree.right[m]}
      <4>1. e = c /\ g \in {tree.left[m], tree.right[m]}
        BY <1>6, <2>1, <3>1, <3>3
      <4>2. rank[g] < rank[m] /\ rank[c] < rank[g]
        BY <1>2, <1>4, <1>5, <2>1, <4>1 DEF Ranks
      <4>3. rank[g] \in Nat /\ rank[m] \in Nat /\ rank[c] \in Nat
        BY <1>2, <1>4, <1>5, <2>1, <4>1
      <4> QED BY <4>1, <4>2, <4>3
    <3> QED BY <3>2, <3>3
  <2>2. Ranks(smaller, rank)
    BY <2>1 DEF Ranks
  <2> QED BY <1>3, <1>4, <2>2 DEF Acyclic
<1> QED BY <1>9, <1>10, <1>11 DEF Shaped

\* Nothing comes to be below another node, and what is cut off is below none.
LEMMA UnlinkedBelow ==
  ASSUME NEW tree, Shaped(tree), NEW g \in Reachable(tree), NEW c, Heir(tree, g, c),
         NEW x, NEW v, NEW smaller, Unlinked(tree, g, c, x, v, smaller), Shaped(smaller)
  PROVE  /\ Reachable(smaller) \subseteq Reachable(tree) \ {g}
         /\ \A n \in Reachable(smaller) :
              /\ Below(smaller)[smaller.left[n]] \subseteq Below(tree)[tree.left[n]] \ {g}
              /\ Below(smaller)[smaller.right[n]] \subseteq Below(tree)[tree.right[n]] \ {g}
              /\ c = Null =>
                   /\ Below(smaller)[smaller.left[n]] \cap Below(tree)[g] = {}
                   /\ Below(smaller)[smaller.right[n]] \cap Below(tree)[g] = {}
<1> DEFINE off == IF c = Null THEN Below(tree)[g] ELSE {g}
<1>1. Typed(tree) /\ Linked(tree) /\ Acyclic(tree) /\ Typed(smaller) /\ Acyclic(smaller)
  BY DEF Shaped
<1>2. g \in tree.live /\ g \in Node /\ tree.live \subseteq Node /\ g # Null
      /\ Reachable(tree) \subseteq tree.live
  BY ReachableIs, NullIs
<1>3. Below(tree)[g] \subseteq tree.live /\ g \in Below(tree)[g]
      /\ Below(tree)[g] \subseteq Reachable(tree)
  BY <1>1, <1>2, BelowLive, BelowNode, ReachableIs
<1>4. c # Null => c \in Below(tree)[g] /\ c # g /\ c \in tree.live
  <2>1. c # Null => c \in Below(tree)[g] /\ tree.parent[c] = g
    BY <1>1, <1>2, <1>3, BelowClosed, NullIs DEF Heir, Closed, Linked, Place
  <2>2. ASSUME c = g, c # Null PROVE FALSE
    <3>1. PICK top \in Nat : \E rank \in [Node -> 0 .. top] : Ranks(tree, rank)
      BY <1>1 DEF Acyclic
    <3>2. PICK rank \in [Node -> 0 .. top] : Ranks(tree, rank)
      BY <3>1
    <3>3. rank[g] < rank[g]
      BY <1>2, <2>2, <3>2 DEF Heir, Ranks
    <3> QED BY <1>2, <3>2, <3>3
  <2> QED BY <1>3, <2>1, <2>2
<1>5. g \in off /\ off \subseteq Below(tree)[g]
  BY <1>3
<1>6. /\ smaller.left[g] = Null /\ smaller.right[g] = Null
      /\ \A m \in Node : m # g =>
           /\ smaller.left[m] = IF tree.left[m] = g THEN c ELSE tree.left[m]
           /\ smaller.right[m] = IF tree.right[m] = g THEN c ELSE tree.right[m]
  BY <1>2 DEF Unlinked
<1>7. ASSUME NEW y \in tree.live, y \notin off
      PROVE  Below(smaller)[y] \subseteq Below(tree)[y] \ off
  <2> DEFINE S == Below(tree)[y] \ off
  <2>1. y \in Place /\ y \in S /\ Below(tree)[y] \subseteq tree.live /\ Closed(tree, Below(tree)[y])
    BY <1>1, <1>2, <1>7, BelowNode, BelowClosed, BelowLive DEF Place
  <2>2. ASSUME NEW n \in S, NEW e, e # Null, e \in {smaller.left[n], smaller.right[n]}
        PROVE  e \in S
    <3>1. n # g /\ n \in tree.live /\ n \in Node /\ n \in Below(tree)[y] /\ n \notin off
      BY <1>2, <1>5, <2>1, <2>2
    <3>2. CASE e \in {tree.left[n], tree.right[n]} /\ e # g
      <4>1. e \in Below(tree)[y] /\ tree.parent[e] = n
        BY <1>1, <2>1, <2>2, <3>1, <3>2 DEF Closed, Linked
      <4>2. c = Null => e \notin Below(tree)[g]
        BY <1>2, <3>1, <3>2, <4>1, ParentBelow
      <4> QED BY <3>2, <4>1, <4>2
    <3>3. CASE ~(e \in {tree.left[n], tree.right[n]} /\ e # g)
      <4>1. e = c /\ (tree.left[n] = g \/ tree.right[n] = g)
        BY <1>4, <1>6, <2>2, <3>1, <3>3
      <4>2. g \in Below(tree)[y]
        BY <1>2, <2>1, <3>1, <4>1 DEF Closed
      <4>3. c \in Below(tree)[y] /\ c # g /\ c # Null
        BY <1>1, <1>4, <2>1, <2>2, <4>1, <4>2, BelowBelow
      <4> QED BY <4>1, <4>3
    <3> QED BY <3>2, <3>3
  <2> HIDE DEF S
  <2>3. Closed(smaller, S)
    BY <2>2 DEF Closed
  <2>4. Below(smaller)[y] \subseteq S
    BY <1>1, <2>1, <2>3, BelowLeast
  <2> QED BY <2>4 DEF S
<1>8. Reachable(smaller) \subseteq Reachable(tree) \ {g}
  <2>1. /\ Reachable(smaller) = Below(smaller)[smaller.root]
        /\ Reachable(tree) = Below(tree)[tree.root]
        /\ tree.root \in tree.live
    BY <1>1, <1>2, ReachableIs DEF Typed
  <2>2. CASE tree.parent[g] = Null
    <3>1. smaller.root = c
      BY <2>2 DEF Unlinked
    <3>2. CASE c = Null
      BY <1>1, <2>1, <3>1, <3>2, BelowNull
    <3>3. CASE c # Null
      <4>1. Below(smaller)[c] \subseteq Below(tree)[c] \ {g}
        BY <1>4, <1>7, <3>3
      <4>2. Below(tree)[c] \subseteq Reachable(tree)
        BY <1>3, <1>4, <3>3, ReachableIs
      <4> QED BY <2>1, <3>1, <4>1, <4>2
    <3> QED BY <3>2, <3>3
  <2>3. CASE tree.parent[g] # Null
    <3>1. smaller.root = tree.root /\ tree.root # g
      BY <1>1, <2>1, <2>3, NullIs, <1>2 DEF Unlinked, Linked
    <3>2. tree.root \notin off
      <4>1. ASSUME tree.root \in Below(tree)[g] PROVE FALSE
        <5>1. tree.parent[tree.root] \in Below(tree)[g]
          BY <1>2, <3>1, <4>1, ParentBelow
        <5>2. tree.parent[tree.root] = Null
          BY <1>1, <2>1, <1>2, NullIs DEF Linked
        <5> QED BY <1>2, <1>3, <5>1, <5>2, NullIs
      <4> QED BY <1>5, <4>1
    <3> QED BY <1>5, <1>7, <2>1, <3>1, <3>2
  <2> QED BY <2>2, <2>3
<1>9. ASSUME NEW n \in Reachable(smaller), NEW o, NEW e,
             \/ o = tree.left[n] /\ e = smaller.left[n]
             \/ o = tree.right[n] /\ e = smaller.right[n]
      PROVE  /\ Below(smaller)[e] \subseteq Below(tree)[o] \ {g}
             /\ c = Null => Below(smaller)[e] \cap Below(tree)[g] = {}
  <2>1. n # g /\ n \in tree.live /\ n \in Node
    BY <1>2, <1>8
  <2>2. e = IF o = g THEN c ELSE o
    BY <1>6, <1>9, <2>1
  <2>3. CASE e = Null
    <3>1. Below(smaller)[e] = {}
      BY <1>1, <2>3, BelowNull
    <3> QED BY <3>1
  <2>4. CASE e # Null /\ o = g
    <3>1. e = c /\ e \notin off /\ e \in tree.live
      BY <1>4, <2>2, <2>4
    <3>2. Below(smaller)[e] \subseteq Below(tree)[e] \ off
      BY <1>7, <3>1
    <3>3. Below(tree)[e] \subseteq Below(tree)[o]
      BY <1>1, <1>2, <1>4, <2>4, <3>1, BelowBelow DEF Place
    <3> QED BY <1>5, <2>4, <3>1, <3>2, <3>3
  <2>5. CASE e # Null /\ o # g
    <3>1. e = o /\ e \in tree.live
      BY <1>1, <1>9, <2>1, <2>2, <2>5 DEF Typed
    <3>2. CASE e \notin off
      <4>1. Below(smaller)[e] \subseteq Below(tree)[e] \ off
        BY <1>7, <3>1, <3>2
      <4> QED BY <1>5, <3>1, <4>1
    <3>3. CASE e \in off
      <4>1. c = Null /\ e \in Below(tree)[g] /\ e # g
        BY <1>5, <2>5, <3>1, <3>3
      <4>2. tree.parent[e] = n
        BY <1>1, <1>9, <2>1, <2>5, <3>1 DEF Linked
      <4>3. n \in Below(tree)[g]
        BY <1>2, <4>1, <4>2, ParentBelow
      <4>4. FALSE
        <5> DEFINE S == Reachable(tree) \ Below(tree)[g]
        <5>1. Reachable(smaller) \subseteq S
          <6>1. Closed(smaller, S)
            <7>1. ASSUME NEW m \in S, NEW h, h # Null, h \in {smaller.left[m], smaller.right[m]}
                  PROVE  h \in S
              <8>1. m # g /\ m \in Node /\ m \in tree.live
                BY <1>2, <1>3, <7>1
              <8>2. h \in {tree.left[m], tree.right[m]} /\ h # g
                BY <1>6, <4>1, <7>1, <8>1
              <8>3. h \in Reachable(tree) /\ tree.parent[h] = m
                BY <1>1, <7>1, <8>1, <8>2, ReachableIs DEF Closed, Linked
              <8> QED BY <1>2, <7>1, <8>2, <8>3, ParentBelow
            <7> HIDE DEF S
            <7> QED BY <7>1 DEF Closed
          <6>2. smaller.root # Null => smaller.root \in S
            <7>1. tree.root \in Reachable(tree) /\ tree.root \in tree.live
                  /\ (tree.root # Null => tree.parent[tree.root] = Null)
              BY <1>1, <1>2, ReachableIs DEF Linked
            <7>2. ASSUME smaller.root # Null PROVE smaller.root = tree.root /\ tree.root # g
              <8>1. tree.parent[g] # Null
                BY <4>1, <7>2 DEF Unlinked
              <8> QED BY <1>2, <7>1, <8>1 DEF Unlinked
            <7>3. ASSUME tree.root # g PROVE tree.root \notin Below(tree)[g]
              <8>1. tree.root # Null
                BY <1>2, <7>1, NullIs
              <8> QED BY <1>2, <1>3, <7>1, <7>3, <8>1, ParentBelow, NullIs
            <7> QED BY <7>1, <7>2, <7>3
          <6>3. smaller.root \in Place /\ Reachable(smaller) = Below(smaller)[smaller.root]
            BY ReachableIs
          <6> HIDE DEF S
          <6> QED BY <1>1, <6>1, <6>2, <6>3, BelowLeast
        <5> QED BY <1>9, <4>3, <5>1
      <4> QED BY <4>4
    <3> QED BY <3>2, <3>3
  <2> QED BY <2>3, <2>4, <2>5
<1> QED BY <1>8, <1>9

\* Descending from a node by one link of each node until there is none.
Descends(tree, next) ==
  /\ next \in [Node -> Place]
  /\ \A n \in Node : next[n] = Null \/ next[n] = tree.left[n] \/ next[n] = tree.right[n]

LEMMA DescentExists ==
  ASSUME NEW tree, Typed(tree), Acyclic(tree), NEW next, Descends(tree, next)
  PROVE  \E f \in [Node -> Node] :
           \A n \in Node : f[n] = IF next[n] = Null THEN n ELSE f[next[n]]
<1> DEFINE ends == [n \in Node |-> n]
<1>1. PICK top \in Nat : \E rank \in [Node -> 0 .. top] : Ranks(tree, rank)
  BY DEF Acyclic
<1>2. PICK rank \in [Node -> 0 .. top] : Ranks(tree, rank)
  BY <1>1
<1>3. next \in [Node -> Node \cup {Null}] /\ ends \in [Node -> Node]
  BY DEF Place, Descends
<1>4. \A n \in Node : next[n] # Null => rank[next[n]] < rank[n]
  BY <1>2 DEF Ranks, Descends
<1>5. PICK f \in [Node -> Node] : Follows(Node, ends, next, f)
  <2> HIDE DEF ends
  <2> QED BY <1>1, <1>2, <1>3, <1>4, FollowRecursion
<1> QED BY <1>5 DEF Follows

LEMMA DescentEnds ==
  ASSUME NEW tree, Typed(tree), Acyclic(tree), NEW next, Descends(tree, next),
         NEW f, \A n \in Node : f[n] = IF next[n] = Null THEN n ELSE f[next[n]],
         NEW x \in Node
  PROVE  f[x] \in Below(tree)[x] /\ f[x] \in Node /\ next[f[x]] = Null
<1> DEFINE good(n) == f[n] \in Below(tree)[n] /\ f[n] \in Node /\ next[f[n]] = Null
           B == {n \in Node : ~good(n)}
<1>1. B = {}
  <2> SUFFICES ASSUME B # {} PROVE FALSE
    OBVIOUS
  <2>1. PICK n \in B : tree.left[n] \notin B /\ tree.right[n] \notin B
    <3>1. B \in SUBSET Node
      OBVIOUS
    <3> HIDE DEF B
    <3> QED BY <3>1, LowestOf
  <2>2. n \in Node /\ ~good(n)
    BY <2>1
  <2>3. f[n] = IF next[n] = Null THEN n ELSE f[next[n]]
    BY <2>2
  <2>4. CASE next[n] = Null
    BY <2>2, <2>3, <2>4, BelowNode
  <2>5. CASE next[n] # Null
    <3>1. next[n] = tree.left[n] \/ next[n] = tree.right[n]
      BY <2>2, <2>5 DEF Descends
    <3>2. next[n] \in Node
      BY <2>2, <2>5, <3>1, BelowNode
    <3>3. good(next[n])
      BY <2>1, <3>1, <3>2
    <3> QED BY <2>2, <2>3, <2>5, <3>1, <3>3, BelowNode
  <2> QED BY <2>4, <2>5
<1> QED BY <1>1

\* The rightmost node has the greatest of the elements, but for what the code
\* loses below it.
LEMMA RightmostIs ==
  ASSUME NEW tree, Shaped(tree), Ordered(tree), NEW x \in Reachable(tree)
  PROVE  LET max == RightmostFrom(tree, x)
         IN  /\ max \in Below(tree)[x] /\ max \in Node /\ tree.right[max] = Null
             /\ \A e \in Below(tree)[x] :
                  e \in Below(tree)[max] \/ tree.data[e] < tree.data[max]
<1> DEFINE IsIt(a) == a = [m \in Node |-> IF tree.right[m] = Null THEN m ELSE a[tree.right[m]]]
           f == CHOOSE a : IsIt(a)
           good(n) == \A e \in Below(tree)[n] :
                        e \in Below(tree)[f[n]] \/ tree.data[e] < tree.data[f[n]]
           B == {n \in Reachable(tree) : ~good(n)}
<1>1. Typed(tree) /\ Acyclic(tree) /\ Reachable(tree) \subseteq Node
  BY ReachableIs DEF Shaped
<1>2. Descends(tree, tree.right)
  BY <1>1 DEF Descends, Typed, Place
<1>3. \E a : IsIt(a)
  <2>1. PICK a \in [Node -> Node] :
          \A n \in Node : a[n] = IF tree.right[n] = Null THEN n ELSE a[tree.right[n]]
    BY <1>1, <1>2, DescentExists
  <2>2. IsIt(a)
    BY <2>1
  <2> QED BY <2>2
<1>4. IsIt(f)
  <2> HIDE DEF IsIt
  <2> QED BY <1>3
<1>5. \A n \in Node : f[n] = IF tree.right[n] = Null THEN n ELSE f[tree.right[n]]
  BY <1>4
<1>6. RightmostFrom(tree, x) = f[x]
  BY DEF RightmostFrom
<1> HIDE DEF f
<1>7. ASSUME NEW n \in Node
      PROVE  f[n] \in Below(tree)[n] /\ f[n] \in Node /\ tree.right[f[n]] = Null
  BY <1>1, <1>2, <1>5, DescentEnds
<1>8. B = {}
  <2> SUFFICES ASSUME B # {} PROVE FALSE
    OBVIOUS
  <2>1. PICK n \in B : tree.left[n] \notin B /\ tree.right[n] \notin B
    <3>1. B \in SUBSET Node
      BY <1>1
    <3> HIDE DEF B
    <3> QED BY <1>1, <3>1, LowestOf
  <2>2. n \in Reachable(tree) /\ n \in Node /\ ~good(n)
    BY <1>1, <2>1
  <2>3. CASE tree.right[n] = Null
    BY <1>5, <2>2, <2>3
  <2>4. CASE tree.right[n] # Null
    <3> DEFINE r == tree.right[n]
    <3>1. r \in Reachable(tree) /\ r \in Node /\ f[n] = f[r]
      BY <1>1, <1>5, <2>2, <2>4, ReachableIs DEF Closed
    <3>2. good(r)
      BY <2>1, <3>1
    <3>3. Below(tree)[n] = {n} \cup Below(tree)[tree.left[n]] \cup Below(tree)[r]
      BY <1>1, <2>2, BelowNode
    <3>4. f[n] \in Below(tree)[r] /\ f[n] \in Reachable(tree)
      BY <1>7, <2>2, <3>1, SidesApart
    <3>5. tree.data[n] \in Nat /\ tree.data[f[n]] \in Nat /\ tree.data[n] < tree.data[f[n]]
      BY <2>2, <3>4, ReachableIs DEF Ordered
    <3>6. ASSUME NEW e \in Below(tree)[tree.left[n]] PROVE tree.data[e] < tree.data[f[n]]
      <4>1. tree.data[e] \in Nat /\ tree.data[e] < tree.data[n]
        BY <2>2, <3>6, SidesApart, ReachableIs DEF Ordered
      <4> QED BY <3>5, <4>1
    <3> HIDE DEF r
    <3> QED BY <2>2, <3>1, <3>2, <3>3, <3>5, <3>6
  <2> QED BY <2>3, <2>4
<1> QED BY <1>1, <1>6, <1>7, <1>8

\* b differs from tree in its elements only.
SameLinks(tree, b) ==
  /\ DOMAIN b = {"root", "count", "live", "left", "right", "parent", "data"}
  /\ b.root = tree.root /\ b.count = tree.count /\ b.live = tree.live
  /\ b.left = tree.left /\ b.right = tree.right /\ b.parent = tree.parent

\* What freeing g after linking c in its place comes to.
LEMMA FreedIs ==
  ASSUME NEW tree, Shaped(tree), NEW g \in Reachable(tree), NEW c, Heir(tree, g, c),
         NEW b, SameLinks(tree, b), NEW x, NEW v,
         b.data = [m \in Node |-> IF m = x THEN v ELSE tree.data[m]],
         NEW over, over = IF c = Null THEN Relink(b, g, c)
                          ELSE [Relink(b, g, c) EXCEPT !.parent[c] = tree.parent[g]]
  PROVE  Unlinked(tree, g, c, x, v, Freed(over, g))
<1> DEFINE p == b.parent[g]
           lf == [m \in Node |-> IF m = p /\ b.left[p] = g THEN c ELSE b.left[m]]
           rt == [m \in Node |-> IF m = p /\ b.right[p] = g THEN c ELSE b.right[m]]
           done == Freed(over, g)
<1>1. Typed(tree) /\ Linked(tree) /\ g \in tree.live /\ g \in Node /\ g # Null
  BY ReachableIs, NullIs DEF Shaped
<1>2. Relink(b, g, c) = [b EXCEPT !.root = IF p = Null THEN c ELSE @, !.left = lf, !.right = rt]
  BY DEF Relink
<1>3. p = tree.parent[g]
  BY DEF SameLinks
<1>4. ASSUME NEW m \in Node
      PROVE  /\ tree.left[m] = g => m = p
             /\ tree.right[m] = g => m = p
  <2>1. m \notin tree.live => tree.left[m] = Null /\ tree.right[m] = Null
    BY <1>1 DEF Typed
  <2> QED BY <1>1, <1>3, <2>1 DEF Linked
<1>5. /\ lf = [m \in Node |-> IF tree.left[m] = g THEN c ELSE tree.left[m]]
      /\ rt = [m \in Node |-> IF tree.right[m] = g THEN c ELSE tree.right[m]]
  <2>1. \A m \in Node : lf[m] = IF tree.left[m] = g THEN c ELSE tree.left[m]
    BY <1>4 DEF SameLinks
  <2>2. \A m \in Node : rt[m] = IF tree.right[m] = g THEN c ELSE tree.right[m]
    BY <1>4 DEF SameLinks
  <2> QED BY <2>1, <2>2
<1> HIDE DEF lf, rt
<1> DEFINE links == Relink(b, g, c)
<1>6. /\ DOMAIN links = {"root", "count", "live", "left", "right", "parent", "data"}
      /\ links.root = (IF p = Null THEN c ELSE tree.root)
      /\ links.count = tree.count /\ links.live = tree.live
      /\ links.left = lf /\ links.right = rt /\ links.parent = tree.parent
      /\ links.data = b.data
  BY <1>2 DEF SameLinks
<1> HIDE DEF links
<1>7. /\ DOMAIN over = DOMAIN links
      /\ over.root = links.root /\ over.count = links.count /\ over.live = links.live
      /\ over.left = lf /\ over.right = rt /\ over.data = b.data
  <2>1. CASE c = Null
    BY <1>6, <2>1 DEF links
  <2>2. CASE c # Null
    BY <1>6, <2>2 DEF links
  <2> QED BY <2>1, <2>2
<1>8. over.parent = [m \in Node |-> IF m = c THEN tree.parent[g] ELSE tree.parent[m]]
  <2>0. tree.parent = [m \in Node |-> tree.parent[m]]
    BY <1>1 DEF Typed
  <2>1. CASE c = Null
    <3>1. over.parent = tree.parent
      BY <1>6, <2>1 DEF links
    <3> QED BY <2>0, <2>1, <3>1, NullIs
  <2>2. CASE c # Null
    <3>1. over.parent = [tree.parent EXCEPT ![c] = tree.parent[g]]
      BY <1>6, <2>2 DEF links
    <3> QED BY <2>0, <2>2, <3>1
  <2> QED BY <2>1, <2>2
<1>9. /\ DOMAIN done = {"root", "count", "live", "left", "right", "parent", "data"}
      /\ done.root = (IF p = Null THEN c ELSE tree.root)
      /\ done.count = tree.count - 1 /\ done.live = tree.live \ {g}
      /\ done.left = [lf EXCEPT ![g] = Null] /\ done.right = [rt EXCEPT ![g] = Null]
      /\ done.parent = [over.parent EXCEPT ![g] = Null]
      /\ done.data = [b.data EXCEPT ![g] = Null]
  BY <1>6, <1>7 DEF Freed
<1> HIDE DEF done, p
<1>10. done.left = [m \in Node |-> IF m = g THEN Null
                     ELSE IF tree.left[m] = g THEN c ELSE tree.left[m]]
  BY <1>5, <1>9
<1>11. done.right = [m \in Node |-> IF m = g THEN Null
                     ELSE IF tree.right[m] = g THEN c ELSE tree.right[m]]
  BY <1>5, <1>9
<1>12. done.parent = [m \in Node |-> IF m = g THEN Null
                     ELSE IF m = c THEN tree.parent[g] ELSE tree.parent[m]]
  BY <1>8, <1>9
<1>13. done.data = [m \in Node |-> IF m = g THEN Null
                     ELSE IF m = x THEN v ELSE tree.data[m]]
  BY <1>9
<1>14. done.root = IF tree.parent[g] = Null THEN c ELSE tree.root
  BY <1>3, <1>9
<1> QED BY <1>9, <1>10, <1>11, <1>12, <1>13, <1>14 DEF Unlinked, done

\* A node goes in one of two ways: its only child takes its place, if it has
\* one; or the rightmost node on its left goes, leaving it its element.
Spliced(tree, n, g, c, v) ==
  \/ /\ g = n /\ v = tree.data[n] /\ Null \in {tree.left[n], tree.right[n]}
     /\ tree.left[n] \in {c, Null} /\ tree.right[n] \in {c, Null}
  \/ /\ tree.left[n] # Null /\ tree.right[n] # Null
     /\ g = RightmostFrom(tree, tree.left[n])
     /\ c = Null /\ v = tree.data[g]

LEMMA RemovedIs ==
  ASSUME NEW tree, Shaped(tree), Ordered(tree), NEW n \in Reachable(tree)
  PROVE  \E g \in Reachable(tree), c \in Place :
           \E v \in Key : /\ Heir(tree, g, c) /\ Spliced(tree, n, g, c, v)
                          /\ Unlinked(tree, g, c, n, v, Removed(tree, n))
<1> DEFINE l == tree.left[n]
           r == tree.right[n]
<1>1. Typed(tree) /\ Acyclic(tree) /\ n \in tree.live /\ n \in Node /\ tree.data[n] \in Key
  BY ReachableIs DEF Shaped, Typed
<1>2. l \in Place /\ r \in Place /\ tree.left = [m \in Node |-> tree.left[m]]
      /\ DOMAIN tree = {"root", "count", "live", "left", "right", "parent", "data"}
      /\ tree.data = [m \in Node |-> IF m = n THEN tree.data[n] ELSE tree.data[m]]
  BY <1>1, BelowNode DEF Typed
<1>3. SameLinks(tree, tree)
  BY <1>2 DEF SameLinks
<1>4. CASE l = Null /\ r = Null
  <2>1. Removed(tree, n) = Freed(Relink(tree, n, Null), n)
    BY <1>4 DEF Removed
  <2>2. Heir(tree, n, Null)
    BY DEF Heir
  <2>3. Unlinked(tree, n, Null, n, tree.data[n], Removed(tree, n))
    BY <1>2, <1>3, <2>1, <2>2, FreedIs
  <2>4. Spliced(tree, n, n, Null, tree.data[n])
    BY <1>4 DEF Spliced
  <2> QED BY <1>1, <2>2, <2>3, <2>4, NullIs
<1>5. CASE (l = Null) # (r = Null)
  <2> DEFINE c == IF l = Null THEN r ELSE l
             over == [Relink(tree, n, c) EXCEPT !.parent[c] = tree.parent[n]]
  <2>1. Removed(tree, n) = Freed(over, n)
    BY <1>5 DEF Removed
  <2>2. Heir(tree, n, c) /\ c # Null /\ c \in Place
    BY <1>2, <1>5 DEF Heir
  <2>3. over = IF c = Null THEN Relink(tree, n, c)
               ELSE [Relink(tree, n, c) EXCEPT !.parent[c] = tree.parent[n]]
    BY <2>2
  <2>4. Spliced(tree, n, n, c, tree.data[n])
    BY <1>5 DEF Spliced
  <2> HIDE DEF c, over
  <2>5. Unlinked(tree, n, c, n, tree.data[n], Freed(over, n))
    BY <1>2, <1>3, <2>2, <2>3, FreedIs
  <2> QED BY <1>1, <2>1, <2>2, <2>4, <2>5
<1>6. CASE l # Null /\ r # Null
  <2> DEFINE max == RightmostFrom(tree, l)
             b == [tree EXCEPT !.data[n] = tree.data[max]]
             over == Relink(b, max, Null)
  <2>1. Removed(tree, n) = Freed(over, max)
    BY <1>6 DEF Removed
  <2>2. l \in Reachable(tree)
    BY <1>6, ReachableIs DEF Closed
  <2>3. max \in Reachable(tree)
    BY <2>2, RightmostIs, ReachableIs
  <2> HIDE DEF max
  <2>4. tree.data[max] \in Key
    BY <1>1, <2>3, ReachableIs DEF Typed
  <2>5. SameLinks(tree, b)
        /\ b.data = [m \in Node |-> IF m = n THEN tree.data[max] ELSE tree.data[m]]
    <3>1. b.data = [tree.data EXCEPT ![n] = tree.data[max]]
      BY <1>2
    <3>2. SameLinks(tree, b)
      BY <1>2 DEF SameLinks
    <3> QED BY <1>2, <3>1, <3>2
  <2>6. Heir(tree, max, Null)
    BY DEF Heir
  <2>7. over = IF Null = Null THEN Relink(b, max, Null)
               ELSE [Relink(b, max, Null) EXCEPT !.parent[Null] = tree.parent[max]]
    OBVIOUS
  <2> HIDE DEF b, over
  <2>8. Unlinked(tree, max, Null, n, tree.data[max], Freed(over, max))
    BY <2>3, <2>5, <2>6, <2>7, FreedIs
  <2>9. Spliced(tree, n, max, Null, tree.data[max])
    BY <1>6 DEF Spliced, max
  <2> QED BY <2>1, <2>3, <2>4, <2>6, <2>8, <2>9, NullIs
<1> QED BY <1>4, <1>5, <1>6

LEMMA UnlinkedOrdered ==
  ASSUME NEW tree, Shaped(tree), Ordered(tree), NEW n \in Reachable(tree),
         NEW g \in Reachable(tree), NEW c \in Place, Heir(tree, g, c),
         NEW v \in Key, Spliced(tree, n, g, c, v),
         NEW smaller, Unlinked(tree, g, c, n, v, smaller), Shaped(smaller)
  PROVE  Ordered(smaller)
<1> DEFINE d(m) == IF m = n THEN v ELSE tree.data[m]
<1>1. Typed(tree) /\ Acyclic(tree) /\ Reachable(tree) \subseteq Node /\ n # Null
  BY ReachableIs, NullIs DEF Shaped
<1>2. ASSUME NEW m \in Node, m # g PROVE smaller.data[m] = d(m)
  BY <1>2 DEF Unlinked
<1>3. Reachable(smaller) \subseteq Reachable(tree) \ {g}
  BY UnlinkedBelow
<1>4. ASSUME n # g
      PROVE  /\ c = Null /\ v = tree.data[g]
             /\ g \in Below(tree)[tree.left[n]]
             /\ \A e \in Below(tree)[tree.left[n]] :
                  e \in Below(tree)[g] \/ tree.data[e] < tree.data[g]
  <2>1. c = Null /\ v = tree.data[g] /\ tree.left[n] # Null /\ g = RightmostFrom(tree, tree.left[n])
    BY <1>4 DEF Spliced
  <2>2. tree.left[n] \in Reachable(tree)
    BY <2>1, ReachableIs DEF Closed
  <2> QED BY <2>1, <2>2, RightmostIs
<1>5. ASSUME NEW m \in Reachable(smaller), NEW e \in Below(smaller)[smaller.left[m]]
      PROVE  smaller.data[e] < smaller.data[m]
  <2>1. m \in Reachable(tree) /\ m # g /\ m \in Node
    BY <1>1, <1>3
  <2>2. e \in Below(tree)[tree.left[m]] /\ e # g /\ (c = Null => e \notin Below(tree)[g])
    BY UnlinkedBelow
  <2>3. e \in Reachable(tree) /\ e \in Node /\ e # m /\ tree.data[e] < tree.data[m]
    BY <1>1, <2>1, <2>2, SidesApart DEF Ordered
  <2>4. smaller.data[e] = d(e) /\ smaller.data[m] = d(m)
    BY <1>2, <2>1, <2>2, <2>3
  <2>5. CASE m = n
    <3>1. tree.data[e] < tree.data[g] /\ v = tree.data[g]
      BY <1>4, <2>1, <2>2, <2>5
    <3> QED BY <2>3, <2>4, <2>5, <3>1
  <2>6. CASE e = n
    <3>1. g \in Below(tree)[tree.left[n]] /\ v = tree.data[g]
      BY <1>4, <2>2, <2>6
    <3>2. Below(tree)[tree.left[n]] \subseteq Below(tree)[n] /\ tree.left[m] \in Place
      BY <1>1, <2>1, BelowNode
    <3>3. Below(tree)[n] \subseteq Below(tree)[tree.left[m]]
      BY <1>1, <2>2, <2>6, <3>2, BelowBelow
    <3>4. tree.data[g] < tree.data[m]
      BY <2>1, <3>1, <3>2, <3>3 DEF Ordered
    <3> QED BY <2>3, <2>4, <2>6, <3>1, <3>4
  <2>7. CASE m # n /\ e # n
    BY <2>3, <2>4, <2>7
  <2> QED BY <2>5, <2>6, <2>7
<1>6. ASSUME NEW m \in Reachable(smaller), NEW e \in Below(smaller)[smaller.right[m]]
      PROVE  smaller.data[m] < smaller.data[e]
  <2>1. m \in Reachable(tree) /\ m # g /\ m \in Node
    BY <1>1, <1>3
  <2>2. e \in Below(tree)[tree.right[m]] /\ e # g
    BY UnlinkedBelow
  <2>3. e \in Reachable(tree) /\ e \in Node /\ e # m /\ tree.data[m] < tree.data[e]
    BY <1>1, <2>1, <2>2, SidesApart DEF Ordered
  <2>4. smaller.data[e] = d(e) /\ smaller.data[m] = d(m)
    BY <1>2, <2>1, <2>2, <2>3
  <2>5. CASE m = n
    <3>1. tree.data[g] < tree.data[n] /\ v = tree.data[g]
      BY <1>4, <2>1, <2>5 DEF Ordered
    <3>2. tree.data[g] \in Nat /\ tree.data[n] \in Nat /\ tree.data[e] \in Nat
      BY <2>3, ReachableIs
    <3> QED BY <2>3, <2>4, <2>5, <3>1, <3>2
  <2>6. CASE e = n
    <3>1. g \in Below(tree)[tree.left[n]] /\ v = tree.data[g]
      BY <1>4, <2>2, <2>6
    <3>2. Below(tree)[tree.left[n]] \subseteq Below(tree)[n] /\ tree.right[m] \in Place
      BY <1>1, <2>1, BelowNode
    <3>3. Below(tree)[n] \subseteq Below(tree)[tree.right[m]]
      BY <1>1, <2>2, <2>6, <3>2, BelowBelow
    <3>4. tree.data[m] < tree.data[g]
      BY <2>1, <3>1, <3>2, <3>3 DEF Ordered
    <3> QED BY <2>3, <2>4, <2>6, <3>1, <3>4
  <2>7. CASE m # n /\ e # n
    BY <2>3, <2>4, <2>7
  <2> QED BY <2>5, <2>6, <2>7
<1> QED BY <1>5, <1>6 DEF Ordered

\* Removing keeps the tree.
LEMMA RemovedSound ==
  ASSUME NEW tree, Sound(tree), NEW n \in Reachable(tree)
  PROVE  Sound(Removed(tree, n))
<1>1. Shaped(tree) /\ Ordered(tree) /\ Counted(tree) /\ Typed(tree)
  BY DEF Sound, Shaped
<1>2. PICK g \in Reachable(tree), c \in Place :
        \E v \in Key : /\ Heir(tree, g, c) /\ Spliced(tree, n, g, c, v)
                       /\ Unlinked(tree, g, c, n, v, Removed(tree, n))
  BY <1>1, RemovedIs
<1>3. PICK v \in Key : /\ Heir(tree, g, c) /\ Spliced(tree, n, g, c, v)
                       /\ Unlinked(tree, g, c, n, v, Removed(tree, n))
  BY <1>2
<1> DEFINE smaller == Removed(tree, n)
<1> HIDE DEF smaller
<1>4. /\ Cardinality(Reachable(tree)) <= tree.count /\ tree.count <= Cardinality(tree.live)
      /\ Cardinality(Reachable(tree)) \in Nat /\ Cardinality(tree.live) \in Nat
      /\ IsFiniteSet(Reachable(tree)) /\ IsFiniteSet(tree.live)
      /\ tree.count \in Nat
  <2>1. tree.root # Null
    BY <1>1, ReachableIs
  <2>2. tree.count \in Nat
    BY <1>1, NodesAssumption DEF Typed
  <2> QED BY <1>1, <2>1, <2>2, LiveFinite DEF Counted
<1>5. Cardinality(Reachable(tree) \ {g}) = Cardinality(Reachable(tree)) - 1
      /\ IsFiniteSet(Reachable(tree) \ {g})
  BY <1>2, <1>4, FS_RemoveElement
<1>6. Cardinality(tree.live \ {g}) = Cardinality(tree.live) - 1
  BY <1>1, <1>2, <1>4, ReachableIs, FS_RemoveElement
<1>7. Cardinality(Reachable(tree) \ {g}) \in Nat
  BY <1>5, FS_CardinalityType
<1>8. tree.count # 0
  BY <1>4, <1>5, <1>7
<1>9. Shaped(smaller)
  BY <1>1, <1>2, <1>3, <1>8, UnlinkedShaped DEF smaller
<1>10. Ordered(smaller)
  BY <1>1, <1>2, <1>3, <1>9, UnlinkedOrdered DEF smaller
<1>11. Counted(smaller)
  <2>1. Reachable(smaller) \subseteq Reachable(tree) \ {g}
    BY <1>1, <1>2, <1>3, <1>9, UnlinkedBelow DEF smaller
  <2>2. Cardinality(Reachable(smaller)) <= Cardinality(Reachable(tree) \ {g})
    BY <1>5, <2>1, FS_Subset
  <2>3. smaller.count = tree.count - 1 /\ smaller.live = tree.live \ {g}
    BY <1>3 DEF Unlinked, smaller
  <2>4. Cardinality(Reachable(smaller)) \in Nat
    BY <1>9, LiveFinite
  <2> QED BY <1>4, <1>5, <1>6, <2>2, <2>3, <2>4 DEF Counted
<1> QED BY <1>9, <1>10, <1>11 DEF Sound, smaller

-----------------------------------------------------------------------------
(* Clearing *)

\* Nothing is left in a cleared tree; what was cut off stays as it was.
LEMMA ClearedIs ==
  ASSUME NEW tree, Shaped(tree)
  PROVE  /\ Sound(Cleared(tree)) /\ Cleared(tree).root = Null
         /\ Cleared(tree).live = tree.live \ Reachable(tree)
         /\ Reachable(Cleared(tree)) = {}
<1> DEFINE rest == tree.live \ Reachable(tree)
           keep(f, v) == [n \in Node |-> IF n \in rest THEN f[n] ELSE v]
           bare == Cleared(tree)
<1>1. Typed(tree) /\ Linked(tree) /\ Acyclic(tree)
  BY DEF Shaped
<1>2. /\ Reachable(tree) = Below(tree)[tree.root] /\ tree.live \subseteq Node
      /\ tree.root # Null => tree.root \in Reachable(tree) /\ tree.root \in tree.live
  BY <1>1, ReachableIs
<1>3. /\ DOMAIN bare = {"root", "count", "live", "left", "right", "parent", "data"}
      /\ bare.root = Null /\ bare.count = 0 /\ bare.live = rest
      /\ bare.left = keep(tree.left, Null) /\ bare.right = keep(tree.right, Null)
      /\ bare.parent = keep(tree.parent, Null) /\ bare.data = keep(tree.data, Null)
  BY DEF Cleared
<1> HIDE DEF bare
<1>4. ASSUME NEW n \in rest, NEW e, e # Null, e = tree.left[n] \/ e = tree.right[n]
      PROVE  e \in rest /\ tree.parent[e] = n
  <2>1. n \in tree.live /\ n \in Node /\ n \notin Reachable(tree)
    BY <1>2
  <2>2. e \in tree.live /\ tree.parent[e] = n
    BY <1>1, <1>4, <2>1, BelowNode DEF Linked
  <2>3. e \notin Reachable(tree)
    <3> SUFFICES ASSUME e \in Reachable(tree) PROVE FALSE
      OBVIOUS
    <3>1. tree.root # Null /\ tree.root \in tree.live
      BY <1>2, ReachableIs
    <3>2. CASE e = tree.root
      BY <1>1, <2>1, <2>2, <3>1, <3>2, NullIs DEF Linked
    <3>3. CASE e # tree.root
      BY <1>2, <2>1, <2>2, <3>1, <3>3, ParentBelow
    <3> QED BY <3>2, <3>3
  <2> QED BY <2>2, <2>3
<1>5. Typed(bare)
  <2>1. bare.live \subseteq Node /\ bare.root \in bare.live \cup {Null} /\ bare.count \in 0 .. Nodes
    BY <1>2, <1>3, NodesAssumption
  <2>2. bare.left \in [Node -> bare.live \cup {Null}]
        /\ bare.right \in [Node -> bare.live \cup {Null}]
    BY <1>3, <1>4
  <2>3. bare.parent \in [Node -> Place] /\ bare.data \in [Node -> Key \cup {Null}]
    BY <1>1, <1>3, NullIs DEF Typed
  <2>4. \A n \in bare.live : bare.data[n] \in Key
    BY <1>1, <1>2, <1>3 DEF Typed
  <2>5. \A n \in Node \ bare.live : bare.left[n] = Null /\ bare.right[n] = Null
    BY <1>3
  <2> QED BY <1>3, <2>1, <2>2, <2>3, <2>4, <2>5 DEF Typed
<1>6. Linked(bare)
  <2>1. ASSUME NEW n \in rest, NEW e, e # Null, e = bare.left[n] \/ e = bare.right[n]
        PROVE  bare.parent[e] = n
    <3>1. e = tree.left[n] \/ e = tree.right[n]
      BY <1>2, <1>3, <2>1
    <3>2. e \in rest /\ e \in Node /\ tree.parent[e] = n
      BY <1>2, <1>4, <2>1, <3>1
    <3> QED BY <1>3, <3>2
  <2>2. ASSUME NEW n \in rest, bare.left[n] # Null PROVE bare.left[n] # bare.right[n]
    <3>1. bare.left[n] = tree.left[n] /\ bare.right[n] = tree.right[n] /\ n \in tree.live
      BY <1>2, <1>3
    <3> QED BY <1>1, <2>2, <3>1 DEF Linked
  <2> HIDE DEF rest
  <2> QED BY <1>3, <2>1, <2>2 DEF Linked
<1>7. Acyclic(bare)
  <2>1. PICK top \in Nat : \E rank \in [Node -> 0 .. top] : Ranks(tree, rank)
    BY <1>1 DEF Acyclic
  <2>2. PICK rank \in [Node -> 0 .. top] : Ranks(tree, rank)
    BY <2>1
  <2>3. \A n \in Node : /\ bare.left[n] # Null => bare.left[n] = tree.left[n]
                        /\ bare.right[n] # Null => bare.right[n] = tree.right[n]
    BY <1>3
  <2>4. Ranks(bare, rank)
    BY <2>2, <2>3 DEF Ranks
  <2> QED BY <2>1, <2>2, <2>4 DEF Acyclic
<1>8. Shaped(bare)
  BY <1>5, <1>6, <1>7 DEF Shaped
<1>9. Reachable(bare) = {}
  BY <1>3, <1>8, ReachableIs
<1>10. Ordered(bare) /\ Counted(bare)
  BY <1>3, <1>9 DEF Ordered, Counted
<1> QED BY <1>3, <1>8, <1>9, <1>10 DEF Sound, bare

-----------------------------------------------------------------------------
(* Sequences of elements *)

Ascending(s) == \A i, j \in DOMAIN s : i < j => s[i] < s[j]

LEMMA ConcatIs ==
  ASSUME NEW S, NEW a \in Seq(S), NEW b \in Seq(S)
  PROVE  /\ a \o b \in Seq(S) /\ Len(a \o b) = Len(a) + Len(b)
         /\ \A i \in 1 .. Len(a) : (a \o b)[i] = a[i]
         /\ \A i \in 1 .. Len(b) : (a \o b)[Len(a) + i] = b[i]
         /\ \A i \in 1 .. Len(a) + Len(b) : i > Len(a) =>
              i - Len(a) \in 1 .. Len(b) /\ (a \o b)[i] = b[i - Len(a)]
         /\ Range(a \o b) = Range(a) \cup Range(b)
<1>1. a \o b \in Seq(S) /\ Len(a \o b) = Len(a) + Len(b) /\ Len(a) \in Nat /\ Len(b) \in Nat
  OBVIOUS
<1>2. \A i \in 1 .. Len(a) : (a \o b)[i] = a[i]
  OBVIOUS
<1>3. ASSUME NEW i \in 1 .. Len(a) + Len(b), i > Len(a)
      PROVE  i - Len(a) \in 1 .. Len(b) /\ (a \o b)[i] = b[i - Len(a)]
  BY <1>3
<1>4. ASSUME NEW i \in 1 .. Len(b) PROVE (a \o b)[Len(a) + i] = b[i]
  <2>1. Len(a) + i \in 1 .. Len(a) + Len(b) /\ Len(a) + i > Len(a) /\ (Len(a) + i) - Len(a) = i
    BY <1>1
  <2> QED BY <1>3, <2>1
<1>5. /\ DOMAIN a = 1 .. Len(a) /\ DOMAIN b = 1 .. Len(b)
      /\ DOMAIN (a \o b) = 1 .. Len(a) + Len(b)
  BY <1>1
<1>6. Range(a) \cup Range(b) \subseteq Range(a \o b)
  <2>1. ASSUME NEW i \in 1 .. Len(a) PROVE a[i] \in Range(a \o b)
    <3>1. i \in DOMAIN (a \o b) /\ (a \o b)[i] = a[i]
      BY <1>1, <1>2, <1>5
    <3> QED BY <3>1 DEF Range
  <2>2. ASSUME NEW i \in 1 .. Len(b) PROVE b[i] \in Range(a \o b)
    <3>1. Len(a) + i \in DOMAIN (a \o b) /\ (a \o b)[Len(a) + i] = b[i]
      BY <1>1, <1>4, <1>5
    <3> QED BY <3>1 DEF Range
  <2> QED BY <1>5, <2>1, <2>2 DEF Range
<1>7. Range(a \o b) \subseteq Range(a) \cup Range(b)
  <2>1. ASSUME NEW i \in 1 .. Len(a) + Len(b) PROVE (a \o b)[i] \in Range(a) \cup Range(b)
    <3>1. CASE i <= Len(a)
      <4>1. i \in DOMAIN a /\ (a \o b)[i] = a[i]
        BY <1>1, <1>2, <1>5, <3>1
      <4> QED BY <4>1 DEF Range
    <3>2. CASE ~(i <= Len(a))
      <4>1. i - Len(a) \in DOMAIN b /\ (a \o b)[i] = b[i - Len(a)]
        BY <1>1, <1>3, <1>5, <3>2
      <4> QED BY <4>1 DEF Range
    <3> QED BY <3>1, <3>2
  <2> QED BY <1>5, <2>1 DEF Range
<1> QED BY <1>1, <1>2, <1>3, <1>4, <1>6, <1>7

\* Together, the elements of both.
LEMMA Joined ==
  ASSUME NEW a \in Seq(Nat), NEW b \in Seq(Nat)
  PROVE  /\ a \o b \in Seq(Nat) /\ Range(a \o b) = Range(a) \cup Range(b)
         /\ Len(a \o b) = Len(a) + Len(b) /\ Len(a) \in Nat /\ Len(b) \in Nat
<1>1. Len(a) \in Nat /\ Len(b) \in Nat
  OBVIOUS
<1> QED BY <1>1, ConcatIs

LEMMA ConcatAscends ==
  ASSUME NEW a \in Seq(Nat), NEW b \in Seq(Nat), Ascending(a), Ascending(b),
         \A x \in Range(a), y \in Range(b) : x < y
  PROVE  Ascending(a \o b)
<1>1. /\ DOMAIN a = 1 .. Len(a) /\ DOMAIN b = 1 .. Len(b)
      /\ DOMAIN (a \o b) = 1 .. Len(a) + Len(b) /\ Len(a) \in Nat /\ Len(b) \in Nat
  BY ConcatIs
<1>2. ASSUME NEW i \in 1 .. Len(a) + Len(b), NEW j \in 1 .. Len(a) + Len(b), i < j
      PROVE  (a \o b)[i] < (a \o b)[j]
  <2>1. CASE j <= Len(a)
    <3>1. i \in DOMAIN a /\ j \in DOMAIN a
      BY <1>1, <1>2, <2>1
    <3>2. (a \o b)[i] = a[i] /\ (a \o b)[j] = a[j]
      BY <1>1, <3>1, ConcatIs
    <3> QED BY <1>2, <3>1, <3>2 DEF Ascending
  <2>2. CASE i <= Len(a) /\ ~(j <= Len(a))
    <3>1. i \in DOMAIN a /\ (a \o b)[i] = a[i]
      BY <1>1, <2>2, ConcatIs
    <3>2. j - Len(a) \in DOMAIN b /\ (a \o b)[j] = b[j - Len(a)]
      BY <1>1, <2>2, ConcatIs
    <3> QED BY <3>1, <3>2 DEF Range
  <2>3. CASE ~(i <= Len(a))
    <3>1. i - Len(a) \in DOMAIN b /\ (a \o b)[i] = b[i - Len(a)]
      BY <1>1, <2>3, ConcatIs
    <3>2. j - Len(a) \in DOMAIN b /\ (a \o b)[j] = b[j - Len(a)]
      BY <1>1, <1>2, <2>3, ConcatIs
    <3>3. i - Len(a) < j - Len(a)
      BY <1>1, <1>2
    <3> QED BY <3>1, <3>2, <3>3 DEF Ascending
  <2> QED BY <2>1, <2>2, <2>3
<1> QED BY <1>1, <1>2 DEF Ascending

LEMMA AscendingPrefix ==
  ASSUME NEW a \in Seq(Nat), NEW b \in Seq(Nat), Ascending(a), Ascending(b),
         Range(a) = Range(b)
  PROVE  \A i \in DOMAIN a : i \in DOMAIN b /\ a[i] = b[i]
<1> DEFINE good(i) == i \in DOMAIN b /\ a[i] = b[i]
           S == {i \in DOMAIN a : ~good(i)}
<1>1. /\ DOMAIN a = 1 .. Len(a) /\ DOMAIN b = 1 .. Len(b) /\ Len(a) \in Nat /\ Len(b) \in Nat
      /\ \A i \in DOMAIN a : a[i] \in Nat
      /\ \A i \in DOMAIN b : b[i] \in Nat
  OBVIOUS
<1>2. S = {}
  <2> SUFFICES ASSUME S # {} PROVE FALSE
    OBVIOUS
  <2>1. PICK i \in S : \A k \in S : i <= k
    <3>1. S \in SUBSET Nat
      BY <1>1
    <3> HIDE DEF S
    <3> QED BY <3>1, LeastOf
  <2>2. i \in DOMAIN a /\ i \in Nat /\ ~good(i)
    BY <1>1, <2>1
  <2>3. ASSUME NEW k \in DOMAIN a, k < i PROVE k \in DOMAIN b /\ a[k] = b[k]
    <3>1. k \in Nat /\ ~(i <= k)
      BY <1>1, <2>2, <2>3
    <3> QED BY <2>1, <3>1
  <2> HIDE DEF S
  <2>4. PICK j \in DOMAIN b : a[i] = b[j]
    BY <2>2 DEF Range
  <2>5. ~(j < i)
    <3> SUFFICES ASSUME j < i PROVE FALSE
      OBVIOUS
    <3>1. j \in DOMAIN a
      BY <1>1, <2>2
    <3>2. a[j] = b[j] /\ a[j] < a[i]
      BY <2>2, <2>3, <3>1 DEF Ascending
    <3> QED BY <1>1, <2>2, <2>4, <3>1, <3>2
  <2>6. i \in DOMAIN b /\ i < j
    <3>1. i \in DOMAIN b
      BY <1>1, <2>2, <2>5
    <3>2. i # j
      BY <2>2, <2>4, <3>1
    <3> QED BY <1>1, <2>2, <2>5, <3>1, <3>2
  <2>7. b[i] < a[i]
    BY <2>4, <2>6 DEF Ascending
  <2>8. PICK k \in DOMAIN a : b[i] = a[k]
    BY <2>6 DEF Range
  <2>9. k < i
    <3>1. k # i /\ ~(i < k)
      <4>1. ASSUME i < k PROVE FALSE
        <5>1. a[i] < a[k]
          BY <2>2, <4>1 DEF Ascending
        <5>2. a[i] \in Nat /\ a[k] \in Nat
          BY <1>1, <2>2
        <5> QED BY <2>7, <2>8, <5>1, <5>2
      <4>2. k # i
        <5>1. a[i] \in Nat
          BY <1>1, <2>2
        <5> QED BY <2>7, <2>8, <5>1
      <4> QED BY <4>1, <4>2
    <3> QED BY <1>1, <2>2, <3>1
  <2>10. b[k] = a[k] /\ k \in DOMAIN b /\ b[k] < b[i]
    BY <2>3, <2>6, <2>9 DEF Ascending
  <2>11. b[i] \in Nat
    BY <1>1, <2>6
  <2> QED BY <2>8, <2>10, <2>11
<1> QED BY <1>2

\* There is one ascending sequence of given elements.
LEMMA AscendingUnique ==
  ASSUME NEW a \in Seq(Nat), NEW b \in Seq(Nat), Ascending(a), Ascending(b),
         Range(a) = Range(b)
  PROVE  a = b
<1>1. \A i \in DOMAIN a : i \in DOMAIN b /\ a[i] = b[i]
  BY AscendingPrefix
<1>2. \A i \in DOMAIN b : i \in DOMAIN a
  BY AscendingPrefix
<1>3. DOMAIN a = DOMAIN b
  BY <1>1, <1>2
<1>4. DOMAIN a = 1 .. Len(a) /\ DOMAIN b = 1 .. Len(b) /\ Len(a) \in Nat /\ Len(b) \in Nat
  OBVIOUS
<1>5. ~(Len(a) < Len(b)) /\ ~(Len(b) < Len(a))
  <2>1. \A i \in Nat : i \in 1 .. Len(a) <=> i \in 1 .. Len(b)
    BY <1>3, <1>4
  <2> QED BY <1>4, <2>1
<1>6. Len(a) = Len(b)
  <2> DEFINE la == Len(a)  lb == Len(b)
  <2>1. la \in Nat /\ lb \in Nat /\ ~(la < lb) /\ ~(lb < la)
    BY <1>4, <1>5
  <2> HIDE DEF la, lb
  <2>2. la = lb
    BY <2>1
  <2> QED BY <2>2 DEF la, lb
<1> QED BY <1>1, <1>4, <1>6, SeqEqual

-----------------------------------------------------------------------------
(* Traversals *)

InWalk(tree) ==
  LET f[n \in Node \cup {Null}] ==
        IF n = Null THEN <<>>
        ELSE f[tree.left[n]] \o <<tree.data[n]>> \o f[tree.right[n]]
  IN  f

PreWalk(tree) ==
  LET f[n \in Node \cup {Null}] ==
        IF n = Null THEN <<>>
        ELSE <<tree.data[n]>> \o f[tree.left[n]] \o f[tree.right[n]]
  IN  f

PostWalk(tree) ==
  LET f[n \in Node \cup {Null}] ==
        IF n = Null THEN <<>>
        ELSE f[tree.left[n]] \o f[tree.right[n]] \o <<tree.data[n]>>
  IN  f

\* What each of the traversals makes of a node and of what it makes of the sides.
LEMMA WalkExists ==
  ASSUME NEW tree, Typed(tree), Acyclic(tree), NEW F \in [Node \X Seq(Nat) \X Seq(Nat) -> Seq(Nat)]
  PROVE  \E f \in [Place -> Seq(Nat)] :
           /\ f[Null] = <<>>
           /\ \A n \in Node : f[n] = F[<<n, f[tree.left[n]], f[tree.right[n]]>>]
<1>1. <<>> \in Seq(Nat)
  OBVIOUS
<1>2. PICK f \in [Place -> Seq(Nat)] : Collects(tree, <<>>, F, f)
  BY <1>1, DownRecursion
<1> QED BY <1>2 DEF Collects

LEMMA DataTyped ==
  ASSUME NEW tree, Typed(tree), NEW n \in Node
  PROVE  /\ tree.data[n] \in Nat /\ <<tree.data[n]>> \in Seq(Nat)
         /\ tree.left[n] \in Place /\ tree.right[n] \in Place
<1>1. tree.data[n] \in Key \cup {Null} /\ tree.left[n] \in Place /\ tree.right[n] \in Place
  BY DEF Typed, Place
<1>2. tree.data[n] \in Nat
  BY <1>1, KeyAssumption, NullIs
<1> QED BY <1>1, <1>2

LEMMA InWalkIs ==
  ASSUME NEW tree, Typed(tree), Acyclic(tree)
  PROVE  /\ InWalk(tree) \in [Place -> Seq(Nat)] /\ InWalk(tree)[Null] = <<>>
         /\ \A n \in Node : InWalk(tree)[n] =
              InWalk(tree)[tree.left[n]] \o <<tree.data[n]>> \o InWalk(tree)[tree.right[n]]
<1> DEFINE body(n, a) == IF n = Null THEN <<>>
                         ELSE a[tree.left[n]] \o <<tree.data[n]>> \o a[tree.right[n]]
           F == [x \in Node \X Seq(Nat) \X Seq(Nat) |-> x[2] \o <<tree.data[x[1]]>> \o x[3]]
           IsIt(a) == a = [n \in Place |-> body(n, a)]
<1>1. F \in [Node \X Seq(Nat) \X Seq(Nat) -> Seq(Nat)]
  BY DataTyped
<1>2. PICK f \in [Place -> Seq(Nat)] :
        /\ f[Null] = <<>>
        /\ \A n \in Node : f[n] = F[<<n, f[tree.left[n]], f[tree.right[n]]>>]
  <2> HIDE DEF F
  <2> QED BY <1>1, WalkExists
<1>3. \A n \in Node : f[n] = f[tree.left[n]] \o <<tree.data[n]>> \o f[tree.right[n]]
  BY <1>2, DataTyped
<1>4. \A n \in Place : f[n] = body(n, f)
  BY <1>2, <1>3, NullIs DEF Place
<1>5. IsIt(f)
  <2>1. f = [n \in Place |-> f[n]]
    BY <1>2
  <2> HIDE DEF body
  <2> QED BY <1>4, <2>1
<1>6. InWalk(tree) = CHOOSE a : IsIt(a)
  BY DEF InWalk, Place
<1>7. IsIt(InWalk(tree))
  <2> HIDE DEF IsIt
  <2> QED BY <1>5, <1>6
<1> DEFINE w == InWalk(tree)
<1>8. w = [n \in Place |-> body(n, w)]
  BY <1>7
<1> HIDE DEF w
<1>9. \A n \in Place : w[n] = body(n, w)
  BY <1>8
<1>10. w[Null] = <<>>
       /\ \A n \in Node : w[n] = w[tree.left[n]] \o <<tree.data[n]>> \o w[tree.right[n]]
  BY <1>9, NullIs
<1>11. \A n \in Place : w[n] \in Seq(Nat)
  <2> DEFINE B == {n \in Node : w[n] \notin Seq(Nat)}
  <2>1. B = {}
    <3> SUFFICES ASSUME B # {} PROVE FALSE
      OBVIOUS
    <3>1. PICK n \in B : tree.left[n] \notin B /\ tree.right[n] \notin B
      <4>1. B \in SUBSET Node
        OBVIOUS
      <4> HIDE DEF B
      <4> QED BY <4>1, LowestOf
    <3>2. n \in Node /\ w[n] \notin Seq(Nat)
      BY <3>1
    <3>3. tree.left[n] \in Place /\ tree.right[n] \in Place /\ <<tree.data[n]>> \in Seq(Nat)
      BY <3>2, DataTyped
    <3>4. \A c \in Place : c \notin B => w[c] \in Seq(Nat)
      <4>1. <<>> \in Seq(Nat)
        OBVIOUS
      <4> QED BY <1>10, <4>1 DEF Place
    <3>5. w[tree.left[n]] \in Seq(Nat) /\ w[tree.right[n]] \in Seq(Nat)
      BY <3>1, <3>3, <3>4
    <3> HIDE DEF B
    <3>6. w[tree.left[n]] \o <<tree.data[n]>> \o w[tree.right[n]] \in Seq(Nat)
      BY <3>3, <3>5, ConcatIs
    <3> QED BY <1>10, <3>2, <3>6
  <2>2. w[Null] \in Seq(Nat)
    BY <1>10
  <2> QED BY <2>1, <2>2 DEF Place
<1>12. w \in [Place -> Seq(Nat)]
  BY <1>8, <1>11
<1> QED BY <1>10, <1>12 DEF w

\* The in-order walk has the elements below a node, in ascending order, once each.
InLists(tree, n) ==
  /\ Range(InWalk(tree)[n]) = {tree.data[m] : m \in Below(tree)[n]}
  /\ Ascending(InWalk(tree)[n])
  /\ IsFiniteSet(Below(tree)[n]) /\ Len(InWalk(tree)[n]) = Cardinality(Below(tree)[n])

LEMMA InListsBelow ==
  ASSUME NEW tree, Shaped(tree), Ordered(tree), NEW x \in Reachable(tree) \cup {Null}
  PROVE  InLists(tree, x)
<1> DEFINE B == {n \in Reachable(tree) : ~InLists(tree, n)}
<1>1. Typed(tree) /\ Acyclic(tree) /\ Reachable(tree) \subseteq Node
  BY ReachableIs DEF Shaped
<1>2. InLists(tree, Null)
  <2>1. Below(tree)[Null] = {} /\ InWalk(tree)[Null] = <<>>
    BY <1>1, BelowNull, InWalkIs
  <2>2. IsFiniteSet({}) /\ Cardinality({}) = 0
    BY FS_EmptySet
  <2> QED BY <2>1, <2>2 DEF InLists, Ascending, Range
<1>3. B = {}
  <2> SUFFICES ASSUME B # {} PROVE FALSE
    OBVIOUS
  <2>1. PICK n \in B : tree.left[n] \notin B /\ tree.right[n] \notin B
    <3>1. B \in SUBSET Node
      BY <1>1
    <3> HIDE DEF B
    <3> QED BY <1>1, <3>1, LowestOf
  <2>2. n \in Reachable(tree) /\ n \in Node /\ ~InLists(tree, n)
    BY <1>1, <2>1
  <2> DEFINE l == tree.left[n]
             r == tree.right[n]
             w == InWalk(tree)
             lb == Below(tree)[l]
             rb == Below(tree)[r]
             d == <<tree.data[n]>>
  <2>3. l \in Place /\ r \in Place /\ d \in Seq(Nat) /\ Range(d) = {tree.data[n]} /\ Len(d) = 1
        /\ tree.data[n] \in Nat
    BY <1>1, <2>2, DataTyped DEF Range
  <2>4. ASSUME NEW c \in {l, r} PROVE InLists(tree, c)
    <3>1. CASE c = Null
      BY <1>2, <3>1
    <3>2. CASE c # Null
      <4>1. c \in Reachable(tree)
        BY <2>2, <3>2, ReachableIs DEF Closed
      <4> QED BY <2>1, <4>1
    <3> QED BY <3>1, <3>2
  <2> HIDE DEF B
  <2>5. w[n] = w[l] \o d \o w[r] /\ w[l] \in Seq(Nat) /\ w[r] \in Seq(Nat)
    BY <1>1, <2>2, <2>3, InWalkIs
  <2>6. /\ Range(w[l]) = {tree.data[m] : m \in lb} /\ Ascending(w[l])
        /\ IsFiniteSet(lb) /\ Len(w[l]) = Cardinality(lb)
        /\ Range(w[r]) = {tree.data[m] : m \in rb} /\ Ascending(w[r])
        /\ IsFiniteSet(rb) /\ Len(w[r]) = Cardinality(rb)
    BY <2>4 DEF InLists
  <2>7. /\ \A m \in lb : tree.data[m] < tree.data[n] /\ tree.data[m] \in Nat
        /\ \A m \in rb : tree.data[n] < tree.data[m] /\ tree.data[m] \in Nat
        /\ n \notin lb /\ n \notin rb /\ lb \cap rb = {}
    BY <2>2, SidesApart, ReachableIs DEF Ordered
  <2>8. Below(tree)[n] = {n} \cup lb \cup rb
    BY <1>1, <2>2, BelowNode
  <2> HIDE DEF l, r, w, lb, rb, d
  <2>9. /\ w[l] \o d \in Seq(Nat) /\ Range(w[l] \o d) = Range(w[l]) \cup {tree.data[n]}
        /\ Len(w[l] \o d) = Len(w[l]) + 1 /\ Len(w[l]) \in Nat
    <3>1. w[l] \o d \in Seq(Nat) /\ Range(w[l] \o d) = Range(w[l]) \cup Range(d)
          /\ Len(w[l] \o d) = Len(w[l]) + Len(d) /\ Len(w[l]) \in Nat
      BY <2>3, <2>5, Joined
    <3> QED BY <2>3, <3>1
  <2>10. /\ Range(w[n]) = Range(w[l]) \cup {tree.data[n]} \cup Range(w[r])
         /\ Len(w[n]) = Len(w[l]) + 1 + Len(w[r])
    <3>1. /\ Range((w[l] \o d) \o w[r]) = Range(w[l] \o d) \cup Range(w[r])
          /\ Len((w[l] \o d) \o w[r]) = Len(w[l] \o d) + Len(w[r])
      BY <2>5, <2>9, Joined
    <3> QED BY <2>5, <2>9, <3>1
  <2>11. Ascending(w[n])
    <3>1. Ascending(d)
      BY <2>3 DEF Ascending, d
    <3>2. Ascending(w[l] \o d)
      <4>1. \A x1 \in Range(w[l]), y1 \in Range(d) : x1 < y1
        BY <2>3, <2>6, <2>7
      <4> QED BY <2>3, <2>5, <2>6, <3>1, <4>1, ConcatAscends
    <3>3. ASSUME NEW x1 \in Range(w[l] \o d), NEW y1 \in Range(w[r]) PROVE x1 < y1
      <4>1. tree.data[n] < y1 /\ y1 \in Nat
        BY <2>6, <2>7, <3>3
      <4>2. x1 \in Nat /\ (x1 = tree.data[n] \/ x1 < tree.data[n])
        BY <2>3, <2>6, <2>7, <2>9, <3>3
      <4> QED BY <2>3, <4>1, <4>2
    <3> QED BY <2>5, <2>6, <2>9, <3>2, <3>3, ConcatAscends
  <2>12. Range(w[n]) = {tree.data[m] : m \in Below(tree)[n]}
    BY <2>6, <2>8, <2>10
  <2>13. IsFiniteSet(Below(tree)[n])
         /\ Cardinality(Below(tree)[n]) = Cardinality(lb) + 1 + Cardinality(rb)
    <3>1. IsFiniteSet(lb \cup rb) /\ Cardinality(lb \cup rb) = Cardinality(lb) + Cardinality(rb)
      <4>1. Cardinality(lb \cap rb) = 0
        BY <2>7, FS_EmptySet
      <4>2. IsFiniteSet(lb \cup rb) /\ Cardinality(lb \cup rb) =
              Cardinality(lb) + Cardinality(rb) - Cardinality(lb \cap rb)
        BY <2>6, FS_Union
      <4>3. Cardinality(lb) \in Nat /\ Cardinality(rb) \in Nat
        BY <2>6, FS_CardinalityType
      <4> QED BY <4>1, <4>2, <4>3
    <3>2. n \notin lb \cup rb /\ Below(tree)[n] = (lb \cup rb) \cup {n}
      BY <2>7, <2>8
    <3>3. /\ IsFiniteSet((lb \cup rb) \cup {n})
          /\ Cardinality((lb \cup rb) \cup {n}) = Cardinality(lb \cup rb) + 1
      BY <3>1, <3>2, FS_AddElement
    <3>4. Cardinality(lb) \in Nat /\ Cardinality(rb) \in Nat
      BY <2>6, FS_CardinalityType
    <3> QED BY <3>1, <3>2, <3>3, <3>4
  <2>14. Len(w[n]) = Cardinality(Below(tree)[n])
    <3>1. Cardinality(lb) \in Nat /\ Cardinality(rb) \in Nat
      BY <2>6, FS_CardinalityType
    <3> QED BY <2>6, <2>10, <2>13, <3>1
  <2> QED BY <2>2, <2>11, <2>12, <2>13, <2>14 DEF InLists, w
<1> QED BY <1>2, <1>3

LEMMA InOrderIs ==
  ASSUME NEW tree, Shaped(tree), Ordered(tree)
  PROVE  /\ InOrder(tree) = InWalk(tree)[tree.root] /\ InOrder(tree) \in Seq(Nat)
         /\ Range(InOrder(tree)) = Elements(tree) /\ Ascending(InOrder(tree))
         /\ Len(InOrder(tree)) = Cardinality(Reachable(tree))
<1>1. InOrder(tree) = InWalk(tree)[tree.root]
  BY DEF InOrder, InWalk
<1>2. tree.root \in Reachable(tree) \cup {Null} /\ tree.root \in Place
      /\ Reachable(tree) = Below(tree)[tree.root]
  BY ReachableIs
<1>3. InLists(tree, tree.root)
  BY <1>2, InListsBelow
<1>4. InWalk(tree)[tree.root] \in Seq(Nat)
  BY <1>2, InWalkIs DEF Shaped
<1> QED BY <1>1, <1>2, <1>3, <1>4 DEF InLists, Elements

-----------------------------------------------------------------------------
(* The order of balancing *)

Segment == (1 .. Nodes + 1) \X (0 .. Nodes)

MidWalk(arr) ==
  LET f[p \in (1 .. Nodes + 1) \X (0 .. Nodes)] ==
        LET s == p[1]
            e == p[2]
            mid == (s + e) \div 2
        IN  IF s > e THEN <<>>
            ELSE <<arr[mid]>> \o f[<<s, mid - 1>>] \o f[<<mid + 1, e>>]
  IN  f

LEMMA MiddleOf ==
  ASSUME NEW s \in 1 .. Nodes + 1, NEW e \in 0 .. Nodes, s <= e
  PROVE  LET mid == (s + e) \div 2
         IN  /\ mid \in 1 .. Nodes /\ s <= mid /\ mid <= e
             /\ mid - 1 \in 0 .. Nodes /\ mid + 1 \in 1 .. Nodes + 1
             /\ mid - s = (e - s) \div 2 /\ e - mid = (e - s + 1) \div 2
BY NodesAssumption

LEMMA MidWalkIs ==
  ASSUME NEW arr
  PROVE  \A s \in 1 .. Nodes + 1, e \in 0 .. Nodes :
           LET mid == (s + e) \div 2
           IN  MidWalk(arr)[<<s, e>>] =
                 IF s > e THEN <<>>
                 ELSE <<arr[mid]>> \o MidWalk(arr)[<<s, mid - 1>>] \o MidWalk(arr)[<<mid + 1, e>>]
<1> DEFINE U == {arr[i] : i \in 1 .. Nodes}
           V == Seq(U)
           mid(p) == (p[1] + p[2]) \div 2
           body(p, f) == IF p[1] > p[2] THEN <<>>
                         ELSE <<arr[mid(p)]>> \o f[<<p[1], mid(p) - 1>>] \o f[<<mid(p) + 1, p[2]>>]
           G == [x \in Segment \X [Segment -> V] |-> body(x[1], x[2])]
           rank == [p \in Segment |-> IF p[1] > p[2] THEN 0 ELSE p[2] - p[1] + 1]
           IsIt(a) == a = [p \in Segment |-> body(p, a)]
<1>1. rank \in [Segment -> 0 .. Nodes]
  <2>1. ASSUME NEW p \in Segment PROVE (IF p[1] > p[2] THEN 0 ELSE p[2] - p[1] + 1) \in 0 .. Nodes
    <3>1. p[1] \in 1 .. Nodes + 1 /\ p[2] \in 0 .. Nodes
      BY DEF Segment
    <3> QED BY <3>1, NodesAssumption
  <2> QED BY <2>1
<1>2. ASSUME NEW p \in Segment, ~(p[1] > p[2])
      PROVE  /\ mid(p) \in 1 .. Nodes
             /\ <<p[1], mid(p) - 1>> \in Segment /\ <<mid(p) + 1, p[2]>> \in Segment
             /\ rank[<<p[1], mid(p) - 1>>] < rank[p] /\ rank[<<mid(p) + 1, p[2]>>] < rank[p]
  <2>1. p[1] \in 1 .. Nodes + 1 /\ p[2] \in 0 .. Nodes /\ p[1] <= p[2]
    BY <1>2, NodesAssumption DEF Segment
  <2> DEFINE md == mid(p)
  <2>2. md \in 1 .. Nodes /\ p[1] <= md /\ md <= p[2] /\ md - 1 \in 0 .. Nodes
        /\ md + 1 \in 1 .. Nodes + 1
    BY <2>1, MiddleOf
  <2> HIDE DEF md
  <2>3. <<p[1], md - 1>> \in Segment /\ <<md + 1, p[2]>> \in Segment
    BY <2>1, <2>2 DEF Segment
  <2>4. rank[p] = p[2] - p[1] + 1
    BY <2>1
  <2>5. rank[<<p[1], md - 1>>] = IF p[1] > md - 1 THEN 0 ELSE (md - 1) - p[1] + 1
    BY <2>3
  <2>6. rank[<<md + 1, p[2]>>] = IF md + 1 > p[2] THEN 0 ELSE p[2] - (md + 1) + 1
    BY <2>3
  <2> HIDE DEF rank
  <2>7. rank[<<p[1], md - 1>>] < rank[p]
    BY <2>1, <2>2, <2>4, <2>5, NodesAssumption
  <2>8. rank[<<md + 1, p[2]>>] < rank[p]
    BY <2>1, <2>2, <2>4, <2>6, NodesAssumption
  <2> QED BY <2>2, <2>3, <2>7, <2>8 DEF md
<1>3. <<>> \in V /\ \A i \in 1 .. Nodes : <<arr[i]>> \in V
  OBVIOUS
<1> HIDE DEF mid, U, V, rank
<1>4. ASSUME NEW p \in Segment, NEW f \in [Segment -> V] PROVE body(p, f) \in V
  <2>1. CASE p[1] > p[2]
    BY <1>3, <2>1
  <2>2. CASE ~(p[1] > p[2])
    <3>1. f[<<p[1], mid(p) - 1>>] \in V /\ f[<<mid(p) + 1, p[2]>>] \in V /\ <<arr[mid(p)]>> \in V
      BY <1>2, <1>3, <2>2
    <3> QED BY <2>2, <3>1 DEF V
  <2> QED BY <2>1, <2>2
<1>5. G \in [Segment \X [Segment -> V] -> V]
  <2> HIDE DEF body
  <2> QED BY <1>4
<1>6. \A p \in Segment, f \in [Segment -> V] : G[<<p, f>>] = body(p, f)
  <2> HIDE DEF body
  <2> QED OBVIOUS
<1> HIDE DEF G
<1>7. Looks(Segment, V, rank, G)
  <2> SUFFICES ASSUME NEW p \in Segment, NEW g \in [Segment -> V], NEW h \in [Segment -> V],
                      \A m \in Segment : rank[m] < rank[p] => g[m] = h[m]
               PROVE  G[<<p, g>>] = G[<<p, h>>]
    BY DEF Looks
  <2>1. body(p, g) = body(p, h)
    BY <1>2
  <2> HIDE DEF body
  <2> QED BY <1>6, <2>1
<1>8. PICK f \in [Segment -> V] : \A p \in Segment : f[p] = G[<<p, f>>]
  <2>1. Solvable(Segment, V, G)
    BY <1>1, <1>3, <1>5, <1>7, NodesAssumption, Recursion
  <2> QED BY <2>1 DEF Solvable
<1>9. IsIt(f)
  <2>1. f = [p \in Segment |-> f[p]]
    BY <1>8
  <2> HIDE DEF body
  <2> QED BY <1>6, <1>8, <2>1
<1>10. MidWalk(arr) = CHOOSE a : IsIt(a)
  BY DEF MidWalk, Segment, mid
<1>11. IsIt(MidWalk(arr))
  <2> HIDE DEF IsIt
  <2> QED BY <1>9, <1>10
<1>12. \A p \in Segment : MidWalk(arr)[p] = body(p, MidWalk(arr))
  <2> HIDE DEF body
  <2> QED BY <1>11
<1>13. ASSUME NEW s \in 1 .. Nodes + 1, NEW e \in 0 .. Nodes
       PROVE  LET md == (s + e) \div 2
              IN  MidWalk(arr)[<<s, e>>] =
                    IF s > e THEN <<>>
                    ELSE <<arr[md]>> \o MidWalk(arr)[<<s, md - 1>>] \o MidWalk(arr)[<<md + 1, e>>]
  <2>1. <<s, e>> \in Segment /\ <<s, e>>[1] = s /\ <<s, e>>[2] = e
    BY DEF Segment
  <2>2. MidWalk(arr)[<<s, e>>] = body(<<s, e>>, MidWalk(arr))
    BY <1>12, <2>1
  <2> QED BY <2>1, <2>2 DEF mid
<1> QED BY <1>13

\* Middle first, a segment is listed whole.
MidLists(arr, s, e) ==
  /\ MidWalk(arr)[<<s, e>>] \in Seq(Nat)
  /\ Len(MidWalk(arr)[<<s, e>>]) = e - s + 1
  /\ Range(MidWalk(arr)[<<s, e>>]) = {arr[i] : i \in s .. e}

LEMMA MidListsAll ==
  ASSUME NEW arr \in Seq(Nat), Len(arr) <= Nodes,
         NEW s \in 1 .. Nodes + 1, NEW e \in 0 .. Len(arr), s <= e + 1
  PROVE  MidLists(arr, s, e)
<1> DEFINE len == Len(arr)
           Bad(k) == \E a \in 1 .. Nodes + 1, b \in 0 .. len :
                       a <= b + 1 /\ k = b - a + 1 /\ ~MidLists(arr, a, b)
           S == {k \in Nat : Bad(k)}
<1>1. len \in Nat /\ len <= Nodes /\ Nodes \in Nat /\ \A i \in 1 .. len : arr[i] \in Nat
  BY NodesAssumption
<1> HIDE DEF len
<1>2. S = {}
  <2> SUFFICES ASSUME S # {} PROVE FALSE
    OBVIOUS
  <2>1. PICK k \in S : \A y \in S : k <= y
    <3>1. S \in SUBSET Nat
      OBVIOUS
    <3> HIDE DEF S
    <3> QED BY <3>1, LeastOf
  <2>2. PICK a \in 1 .. Nodes + 1, b \in 0 .. len :
          a <= b + 1 /\ k = b - a + 1 /\ ~MidLists(arr, a, b)
    BY <2>1
  <2>3. k \in Nat /\ b \in 0 .. Nodes
    BY <1>1, <2>1, <2>2
  <2>4. ASSUME NEW x \in 1 .. Nodes + 1, NEW y \in 0 .. len, x <= y + 1, y - x < b - a
        PROVE  MidLists(arr, x, y)
    <3> DEFINE j == y - x + 1
    <3>1. j \in Nat /\ j < k
      BY <1>1, <2>2, <2>3, <2>4
    <3>2. j \notin S
      <4> HIDE DEF S, j
      <4> QED BY <2>1, <2>3, <3>1
    <3> QED BY <2>4, <3>1, <3>2
  <2> HIDE DEF S
  <2> DEFINE w == MidWalk(arr)
             mid == (a + b) \div 2
  <2>5. w[<<a, b>>] = IF a > b THEN <<>> ELSE <<arr[mid]>> \o w[<<a, mid - 1>>] \o w[<<mid + 1, b>>]
    BY <2>2, <2>3, MidWalkIs
  <2>6. CASE a > b
    <3>1. w[<<a, b>>] = <<>> /\ b - a + 1 = 0 /\ a .. b = {}
      BY <1>1, <2>2, <2>5, <2>6
    <3> QED BY <2>2, <3>1 DEF MidLists, Range
  <2>7. CASE ~(a > b)
    <3>1. a <= b /\ mid \in 1 .. Nodes /\ a <= mid /\ mid <= b /\ mid - 1 \in 0 .. Nodes
          /\ mid + 1 \in 1 .. Nodes + 1
      BY <1>1, <2>2, <2>3, <2>7, MiddleOf
    <3> HIDE DEF mid
    <3>2. MidLists(arr, a, mid - 1)
      <4>1. mid - 1 \in 0 .. len /\ a <= (mid - 1) + 1 /\ (mid - 1) - a < b - a
        BY <1>1, <2>2, <3>1
      <4> QED BY <2>2, <2>4, <4>1
    <3>3. MidLists(arr, mid + 1, b)
      <4>1. mid + 1 <= b + 1 /\ b - (mid + 1) < b - a
        BY <1>1, <2>2, <3>1
      <4> QED BY <2>2, <2>4, <3>1, <4>1
    <3> DEFINE d == <<arr[mid]>>
               u == w[<<a, mid - 1>>]
               v == w[<<mid + 1, b>>]
    <3>4. d \in Seq(Nat) /\ Len(d) = 1 /\ Range(d) = {arr[mid]}
      <4>1. arr[mid] \in Nat
        BY <1>1, <2>2, <3>1
      <4> QED BY <4>1 DEF Range
    <3>5. u \in Seq(Nat) /\ Len(u) = (mid - 1) - a + 1 /\ Range(u) = {arr[i] : i \in a .. mid - 1}
      BY <3>2 DEF MidLists
    <3>6. v \in Seq(Nat) /\ Len(v) = b - (mid + 1) + 1 /\ Range(v) = {arr[i] : i \in mid + 1 .. b}
      BY <3>3 DEF MidLists
    <3>7. w[<<a, b>>] = (d \o u) \o v
      BY <2>5, <2>7
    <3> HIDE DEF d, u, v, w
    <3>8. d \o u \in Seq(Nat) /\ Range(d \o u) = Range(d) \cup Range(u)
          /\ Len(d \o u) = Len(d) + Len(u)
      BY <3>4, <3>5, Joined
    <3>9. /\ (d \o u) \o v \in Seq(Nat) /\ Range((d \o u) \o v) = Range(d \o u) \cup Range(v)
          /\ Len((d \o u) \o v) = Len(d \o u) + Len(v)
      BY <3>6, <3>8, Joined
    <3>10. Len(w[<<a, b>>]) = b - a + 1
      BY <2>2, <3>1, <3>4, <3>5, <3>6, <3>7, <3>8, <3>9
    <3>11. a .. b = {mid} \cup (a .. mid - 1) \cup (mid + 1 .. b)
      BY <2>2, <3>1
    <3>12. Range(w[<<a, b>>]) = {arr[i] : i \in a .. b}
      BY <3>4, <3>5, <3>6, <3>7, <3>8, <3>9, <3>11
    <3> QED BY <2>2, <3>7, <3>9, <3>10, <3>12 DEF MidLists, w
  <2> QED BY <2>6, <2>7
<1>3. e - s + 1 \in Nat
  BY <1>1 DEF len
<1> QED BY <1>2, <1>3 DEF len

\* x is in the sequence u, and before any y.
Before(u, x, y) == \E k \in DOMAIN u : u[k] = x /\ \A j \in 1 .. k : u[j] # y

LEMMA BeforeJoined ==
  ASSUME NEW a \in Seq(Nat), NEW b \in Seq(Nat), NEW x, NEW y
  PROVE  /\ Before(a, x, y) => Before(a \o b, x, y)
         /\ y \notin Range(a) /\ Before(b, x, y) => Before(a \o b, x, y)
<1>1. /\ DOMAIN a = 1 .. Len(a) /\ DOMAIN b = 1 .. Len(b)
      /\ DOMAIN (a \o b) = 1 .. Len(a) + Len(b) /\ Len(a) \in Nat /\ Len(b) \in Nat
  BY ConcatIs
<1>2. ASSUME Before(a, x, y) PROVE Before(a \o b, x, y)
  <2>1. PICK k \in DOMAIN a : a[k] = x /\ \A j \in 1 .. k : a[j] # y
    BY <1>2 DEF Before
  <2>2. k \in DOMAIN (a \o b) /\ (a \o b)[k] = x
    BY <1>1, <2>1, ConcatIs
  <2>3. \A j \in 1 .. k : (a \o b)[j] # y
    <3>1. \A j \in 1 .. k : j \in 1 .. Len(a)
      BY <1>1, <2>1
    <3> QED BY <2>1, <3>1, ConcatIs
  <2> QED BY <2>2, <2>3 DEF Before
<1>3. ASSUME y \notin Range(a), Before(b, x, y) PROVE Before(a \o b, x, y)
  <2>1. PICK k \in DOMAIN b : b[k] = x /\ \A j \in 1 .. k : b[j] # y
    BY <1>3 DEF Before
  <2>2. Len(a) + k \in DOMAIN (a \o b) /\ (a \o b)[Len(a) + k] = x
    <3>1. (a \o b)[Len(a) + k] = b[k]
      BY <1>1, <2>1, ConcatIs
    <3> QED BY <1>1, <2>1, <3>1
  <2>3. ASSUME NEW j \in 1 .. Len(a) + k PROVE (a \o b)[j] # y
    <3>1. CASE j <= Len(a)
      <4>1. j \in DOMAIN a /\ (a \o b)[j] = a[j]
        BY <1>1, <3>1, ConcatIs
      <4> QED BY <1>3, <4>1 DEF Range
    <3>2. CASE ~(j <= Len(a))
      <4>1. j - Len(a) \in 1 .. k /\ j \in 1 .. Len(a) + Len(b)
        BY <1>1, <2>1, <3>2
      <4>2. (a \o b)[j] = b[j - Len(a)]
        BY <1>1, <3>2, <4>1, ConcatIs
      <4> QED BY <2>1, <4>1, <4>2
    <3> QED BY <3>1, <3>2
  <2> QED BY <2>2, <2>3 DEF Before
<1> QED BY <1>2, <1>3

LEMMA BeforeAsymmetric ==
  ASSUME NEW u \in Seq(Nat), NEW x, NEW y, Before(u, x, y), Before(u, y, x)
  PROVE  FALSE
<1>1. PICK k \in DOMAIN u : u[k] = x /\ \A j \in 1 .. k : u[j] # y
  BY DEF Before
<1>2. PICK m \in DOMAIN u : u[m] = y /\ \A j \in 1 .. m : u[j] # x
  BY DEF Before
<1>3. k \in Nat /\ m \in Nat /\ k >= 1 /\ m >= 1
  <2>1. DOMAIN u = 1 .. Len(u) /\ Len(u) \in Nat
    OBVIOUS
  <2> QED BY <2>1
<1>4. k \in 1 .. m \/ m \in 1 .. k
  BY <1>3
<1> QED BY <1>1, <1>2, <1>4

\* In a segment's order its middle comes first, and the order of each half is
\* kept.
LEMMA MidOrder ==
  ASSUME NEW arr \in Seq(Nat), Len(arr) <= Nodes, Ascending(arr),
         NEW s \in 1 .. Nodes + 1, NEW e \in 0 .. Len(arr), s <= e
  PROVE  LET mid == (s + e) \div 2
             w == MidWalk(arr)
         IN  /\ \A y : y # arr[mid] => Before(w[<<s, e>>], arr[mid], y)
             /\ \A x, y : Before(w[<<s, mid - 1>>], x, y) /\ y \in Range(w[<<s, mid - 1>>])
                            => Before(w[<<s, e>>], x, y)
             /\ \A x, y : Before(w[<<mid + 1, e>>], x, y) /\ y \in Range(w[<<mid + 1, e>>])
                            => Before(w[<<s, e>>], x, y)
<1> DEFINE w == MidWalk(arr)
           mid == (s + e) \div 2
           d == <<arr[mid]>>
           u == w[<<s, mid - 1>>]
           v == w[<<mid + 1, e>>]
<1>1. Len(arr) \in Nat /\ Nodes \in Nat /\ e \in 0 .. Nodes /\ DOMAIN arr = 1 .. Len(arr)
      /\ \A i \in 1 .. Len(arr) : arr[i] \in Nat
  BY NodesAssumption
<1>2. w[<<s, e>>] = (d \o u) \o v
  <2>1. w[<<s, e>>] = IF s > e THEN <<>> ELSE d \o u \o v
    BY <1>1, MidWalkIs
  <2>2. ~(s > e)
    BY <1>1
  <2> QED BY <2>1, <2>2
<1>3. mid \in 1 .. Nodes /\ s <= mid /\ mid <= e /\ mid - 1 \in 0 .. Len(arr)
      /\ mid + 1 \in 1 .. Nodes + 1 /\ mid + 1 <= e + 1 /\ mid \in 1 .. Len(arr)
  <2>1. mid \in 1 .. Nodes /\ s <= mid /\ mid <= e /\ mid + 1 \in 1 .. Nodes + 1
    BY <1>1, MiddleOf
  <2> HIDE DEF mid
  <2> QED BY <1>1, <2>1
<1> HIDE DEF mid
<1>4. MidLists(arr, s, mid - 1) /\ MidLists(arr, mid + 1, e)
  <2>1. s <= (mid - 1) + 1
    BY <1>1, <1>3
  <2> QED BY <1>3, <2>1, MidListsAll
<1>5. d \in Seq(Nat) /\ Range(d) = {arr[mid]} /\ Len(d) = 1 /\ d[1] = arr[mid]
  <2>1. arr[mid] \in Nat
    BY <1>1, <1>3
  <2> QED BY <2>1 DEF Range
<1>6. u \in Seq(Nat) /\ Range(u) = {arr[i] : i \in s .. mid - 1}
      /\ v \in Seq(Nat) /\ Range(v) = {arr[i] : i \in mid + 1 .. e}
  BY <1>4 DEF MidLists
<1>7. ASSUME NEW i \in s .. mid - 1 PROVE arr[i] \in Nat /\ arr[i] < arr[mid]
  <2>1. i \in 1 .. Len(arr) /\ i < mid
    BY <1>1, <1>3
  <2> QED BY <1>1, <1>3, <2>1 DEF Ascending
<1>8. ASSUME NEW i \in mid + 1 .. e PROVE arr[i] \in Nat /\ arr[mid] < arr[i]
  <2>1. i \in 1 .. Len(arr) /\ mid < i
    BY <1>1, <1>3
  <2> QED BY <1>1, <1>3, <2>1 DEF Ascending
<1>9. arr[mid] \in Nat
  BY <1>1, <1>3
<1>10. \A y \in Range(u) : y \in Nat /\ y < arr[mid]
  BY <1>6, <1>7
<1>11. \A y \in Range(v) : y \in Nat /\ arr[mid] < y
  BY <1>6, <1>8
<1> HIDE DEF d, u, v, w
<1>12. d \o u \in Seq(Nat) /\ Range(d \o u) = Range(d) \cup Range(u)
  BY <1>5, <1>6, Joined
<1>13. ASSUME NEW y, y # arr[mid] PROVE Before(w[<<s, e>>], arr[mid], y)
  <2>1. Before(d, arr[mid], y)
    <3>1. 1 \in DOMAIN d /\ \A j \in 1 .. 1 : d[j] # y
      BY <1>5, <1>13
    <3> QED BY <1>5, <3>1 DEF Before
  <2>2. Before(d \o u, arr[mid], y)
    BY <1>5, <1>6, <2>1, BeforeJoined
  <2> QED BY <1>2, <1>6, <1>12, <2>2, BeforeJoined
<1>14. ASSUME NEW x, NEW y, Before(u, x, y), y \in Range(u) PROVE Before(w[<<s, e>>], x, y)
  <2>1. y \notin Range(d)
    BY <1>5, <1>9, <1>10, <1>14
  <2>2. Before(d \o u, x, y)
    BY <1>5, <1>6, <1>14, <2>1, BeforeJoined
  <2> QED BY <1>2, <1>6, <1>12, <2>2, BeforeJoined
<1>15. ASSUME NEW x, NEW y, Before(v, x, y), y \in Range(v) PROVE Before(w[<<s, e>>], x, y)
  <2>1. y \notin Range(d \o u)
    BY <1>5, <1>9, <1>10, <1>11, <1>12, <1>15
  <2>2. d \o u \in Seq(Nat) /\ v \in Seq(Nat)
    BY <1>6, <1>12
  <2>3. Before((d \o u) \o v, x, y)
    BY <1>15, <2>1, <2>2, BeforeJoined
  <2> QED BY <1>2, <2>3
<1> QED BY <1>13, <1>14, <1>15 DEF d, u, v, w, mid

-----------------------------------------------------------------------------
(* Balancing *)

\* The search for an element that is there ends at its node.
LEMMA StopsFound ==
  ASSUME NEW tree, Shaped(tree), Ordered(tree), NEW k \in Nat, NEW stop \in Reachable(tree),
         Stops(tree, k, tree.root, stop), NEW m \in Reachable(tree), tree.data[m] = k
  PROVE  tree.data[stop] = k
<1> SUFFICES ASSUME tree.data[stop] # k PROVE FALSE
  OBVIOUS
<1> DEFINE B == {a \in Reachable(tree) : m \in Below(tree)[a] /\ stop \in Below(tree)[a]}
<1>1. Typed(tree) /\ Acyclic(tree) /\ Reachable(tree) \subseteq Node
      /\ Reachable(tree) = Below(tree)[tree.root]
      /\ tree.root \in Reachable(tree)
  BY ReachableIs DEF Shaped
<1>2. tree.root \in B
  BY <1>1
<1>3. PICK a \in B : tree.left[a] \notin B /\ tree.right[a] \notin B
  <2>1. B \in SUBSET Node /\ B # {}
    BY <1>1, <1>2
  <2> HIDE DEF B
  <2> QED BY <1>1, <2>1, LowestOf
<1>4. a \in Reachable(tree) /\ a \in Node /\ m \in Below(tree)[a] /\ stop \in Below(tree)[a]
      /\ tree.data[a] \in Nat /\ tree.data[stop] \in Nat
  BY <1>1, <1>3, ReachableIs
<1>5. Below(tree)[a] = {a} \cup Below(tree)[tree.left[a]] \cup Below(tree)[tree.right[a]]
      /\ tree.left[a] \in Place /\ tree.right[a] \in Place
  BY <1>1, <1>4, BelowNode
<1>6. ASSUME NEW c \in {tree.left[a], tree.right[a]}
      PROVE  ~(m \in Below(tree)[c] /\ stop \in Below(tree)[c])
  <2>1. CASE c = Null
    BY <1>1, <2>1, BelowNull
  <2>2. CASE c # Null
    <3>1. c \in Reachable(tree)
      BY <1>4, <2>2, ReachableIs DEF Closed
    <3> QED BY <1>3, <3>1
  <2> QED BY <2>1, <2>2
<1> HIDE DEF B
<1>7. /\ \A x \in Below(tree)[tree.left[a]] : tree.data[x] < tree.data[a]
      /\ \A x \in Below(tree)[tree.right[a]] : tree.data[a] < tree.data[x]
  BY <1>4 DEF Ordered
<1>8. /\ stop \in Below(tree)[tree.left[a]] => k < tree.data[a]
      /\ stop \in Below(tree)[tree.right[a]] => tree.data[a] < k
  BY <1>1, <1>4 DEF Stops
<1>9. Side(tree, k, stop) = Null
  BY DEF Stops
<1>10. CASE stop = a
  <2>1. m # a
    BY <1>10
  <2>2. CASE m \in Below(tree)[tree.left[a]]
    <3>1. tree.left[a] = Null
      BY <1>7, <1>9, <1>10, <2>2 DEF Side
    <3> QED BY <1>1, <2>2, <3>1, BelowNull
  <2>3. CASE m \in Below(tree)[tree.right[a]]
    <3>1. tree.data[a] < k
      BY <1>7, <2>3
    <3>2. tree.right[a] = Null
      BY <1>4, <1>9, <1>10, <3>1 DEF Side
    <3> QED BY <1>1, <2>3, <3>2, BelowNull
  <2> QED BY <1>4, <1>5, <2>1, <2>2, <2>3
<1>11. CASE stop # a /\ m = a
  BY <1>4, <1>5, <1>8, <1>11
<1>12. CASE stop # a /\ m # a
  <2>1. CASE stop \in Below(tree)[tree.left[a]]
    <3>1. m \in Below(tree)[tree.right[a]] /\ k < tree.data[a]
      BY <1>4, <1>5, <1>6, <1>8, <1>12, <2>1
    <3> QED BY <1>4, <1>7, <3>1
  <2>2. CASE stop \in Below(tree)[tree.right[a]]
    <3>1. m \in Below(tree)[tree.left[a]] /\ tree.data[a] < k
      BY <1>4, <1>5, <1>6, <1>8, <1>12, <2>2
    <3> QED BY <1>4, <1>7, <3>1
  <2> QED BY <1>4, <1>5, <1>12, <2>1, <2>2
<1> QED BY <1>10, <1>11, <1>12

\* An inserted element that was not there is in a leaf of its own.
NewLeaf(tree, d, new, bigger) ==
  /\ new \in Node \ tree.live /\ bigger.live = tree.live \cup {new}
  /\ d \notin Elements(tree) /\ bigger.data[new] = d
  /\ Reachable(bigger) = Reachable(tree) \cup {new}
  /\ Below(bigger)[new] = {new}
  /\ \A n \in Reachable(tree) : /\ bigger.data[n] = tree.data[n]
                                /\ Below(bigger)[n] \subseteq Below(tree)[n] \cup {new}

LEMMA InsertedLeaf ==
  ASSUME NEW tree, Sound(tree), tree.live # Node, NEW d \in Key
  PROVE  Inserted(tree, d) = tree \/ \E new : NewLeaf(tree, d, new, Inserted(tree, d))
<1> DEFINE stop == StopsAt(tree, d)
           p == IF tree.root = Null THEN Null ELSE stop
           bigger == Inserted(tree, d)
<1>1. Shaped(tree) /\ Ordered(tree) /\ Typed(tree) /\ d \in Nat
  BY KeyAssumption DEF Sound, Shaped
<1>2. tree.root # Null => Stops(tree, d, tree.root, stop)
  BY <1>1, StopsAtIs
<1>3. tree.root # Null => stop \in Reachable(tree)
  BY <1>1, <1>2, ReachableIs DEF Stops
<1>4. Shaped(bigger)
  BY InsertedIs DEF Sound, Shaped
<1> HIDE DEF stop
<1>5. CASE tree.root # Null /\ tree.data[stop] = d
  BY <1>5 DEF Inserted, stop
<1>6. CASE ~(tree.root # Null /\ tree.data[stop] = d)
  <2>1. bigger = WithNode(tree, p, d)
    BY <1>6 DEF Inserted, stop
  <2>2. FreePlace(tree, p, d)
    BY <1>2, <1>3, <1>6 DEF FreePlace, Stops
  <2> HIDE DEF p, bigger
  <2>3. PICK new : Grown(tree, p, d, new, bigger)
    BY <1>1, <2>1, WithNodeIs
  <2>4. new \in Node \ tree.live /\ bigger.live = tree.live \cup {new}
    BY <2>3 DEF Grown
  <2>5. /\ Below(bigger)[new] = {new}
        /\ \A x \in tree.live \cup {Null} : \A m \in Below(bigger)[x] :
             \/ m \in Below(tree)[x]
             \/ m = new /\ p \in Below(tree)[x]
        /\ Reachable(bigger) = Reachable(tree) \cup {new}
    BY <1>1, <1>4, <2>2, <2>3, GrownBelow DEF bigger
  <2>6. bigger.data[new] = d /\ \A n \in Reachable(tree) : bigger.data[n] = tree.data[n]
    BY <1>1, <2>2, <2>3, <2>4, GrownLinks, ReachableIs
  <2>7. d \notin Elements(tree)
    <3> SUFFICES ASSUME NEW m \in Reachable(tree), tree.data[m] = d PROVE FALSE
      BY DEF Elements
    <3>1. tree.root # Null
      BY <1>1, ReachableIs
    <3> QED BY <1>1, <1>2, <1>3, <1>6, <3>1, StopsFound
  <2>8. \A n \in Reachable(tree) : Below(bigger)[n] \subseteq Below(tree)[n] \cup {new}
    BY <1>1, <2>5, ReachableIs
  <2>9. NewLeaf(tree, d, new, bigger)
    BY <2>4, <2>5, <2>6, <2>7, <2>8 DEF NewLeaf
  <2> QED BY <2>9 DEF bigger
<1> QED BY <1>5, <1>6

\* The trees the loop of bintree_rbalance() goes through.
Loop(after, tree, arr, count) ==
  after = [n \in 0 .. count |-> IF n = 0 THEN tree ELSE Inserted(after[n - 1], arr[n])]

LEMMA LoopExists ==
  ASSUME NEW tree, NEW arr, NEW count \in Nat
  PROVE  \E after : Loop(after, tree, arr, count)
<1> DEFINE S == {m \in Nat : ~\E after : Loop(after, tree, arr, m)}
<1> SUFFICES ASSUME S # {} PROVE FALSE
  OBVIOUS
<1>1. PICK m \in S : \A y \in S : m <= y
  BY LeastOf
<1>2. m \in Nat /\ ~\E after : Loop(after, tree, arr, m)
  BY <1>1
<1>3. CASE m = 0
  <2> DEFINE a == [k \in 0 .. 0 |-> tree]
  <2>1. a = [k \in 0 .. 0 |-> IF k = 0 THEN tree ELSE Inserted(a[k - 1], arr[k])]
    OBVIOUS
  <2> HIDE DEF a
  <2>2. Loop(a, tree, arr, 0)
    BY <2>1 DEF Loop
  <2> QED BY <1>2, <1>3, <2>2
<1>4. CASE m # 0
  <2>1. m - 1 \in Nat /\ m - 1 \notin S
    BY <1>1, <1>2, <1>4
  <2>2. PICK b : Loop(b, tree, arr, m - 1)
    BY <2>1
  <2> DEFINE a == [k \in 0 .. m |-> IF k = m THEN Inserted(b[m - 1], arr[m]) ELSE b[k]]
  <2>3. /\ a = [k \in 0 .. m |-> a[k]]
        /\ a[m] = Inserted(b[m - 1], arr[m]) /\ \A k \in 0 .. m - 1 : a[k] = b[k]
    BY <1>2, <1>4
  <2> HIDE DEF a
  <2>4. ASSUME NEW k \in 0 .. m
        PROVE  a[k] = IF k = 0 THEN tree ELSE Inserted(a[k - 1], arr[k])
    <3>1. CASE k = m
      <4>1. m - 1 \in 0 .. m - 1 /\ k # 0
        BY <1>2, <1>4, <3>1
      <4> QED BY <2>3, <3>1, <4>1
    <3>2. CASE k # m
      <4>1. k \in 0 .. m - 1 /\ (k # 0 => k - 1 \in 0 .. m - 1)
        BY <1>2, <3>2
      <4>2. b[k] = IF k = 0 THEN tree ELSE Inserted(b[k - 1], arr[k])
        BY <2>2, <4>1 DEF Loop
      <4> QED BY <2>3, <4>1, <4>2
    <3> QED BY <3>1, <3>2
  <2>5. Loop(a, tree, arr, m)
    BY <2>3, <2>4 DEF Loop
  <2> QED BY <1>2, <2>5
<1> QED BY <1>3, <1>4

\* What was inserted first is above what was inserted later.
Heaped(tree, q) ==
  \A n \in Reachable(tree) : \A m \in Below(tree)[n] :
    m = n \/ Before(q, tree.data[n], tree.data[m])

\* The tree after the first k of the elements q.
Filled(tree, base, q, k) ==
  /\ Sound(tree) /\ Cardinality(tree.live) <= base + k
  /\ Elements(tree) = {q[i] : i \in 1 .. k} /\ Heaped(tree, q)

LEMMA FilledMore ==
  ASSUME NEW base \in Nat, NEW q \in Seq(Key), base + Len(q) <= Nodes,
         NEW k \in 1 .. Len(q), NEW tree, Filled(tree, base, q, k - 1)
  PROVE  Filled(Inserted(tree, q[k]), base, q, k)
<1> DEFINE d == q[k]
           bigger == Inserted(tree, d)
<1>1. Sound(tree) /\ Shaped(tree) /\ d \in Key /\ Len(q) \in Nat /\ k \in Nat
      /\ DOMAIN q = 1 .. Len(q)
  BY DEF Filled, Sound
<1>2. /\ IsFiniteSet(tree.live) /\ Cardinality(tree.live) \in Nat
      /\ Cardinality(tree.live) <= base + (k - 1)
      /\ Elements(tree) = {q[i] : i \in 1 .. k - 1} /\ Heaped(tree, q)
  BY <1>1, LiveFinite DEF Filled
<1>3. tree.live # Node
  <2>1. Cardinality(Node) = Nodes /\ Nodes \in Nat
    BY NodesAssumption, FS_Interval DEF Node
  <2>2. Cardinality(tree.live) < Nodes
    BY <1>1, <1>2, <2>1
  <2> QED BY <1>2, <2>1, <2>2
<1>4. Sound(bigger) /\ Elements(bigger) = Elements(tree) \cup {d}
  BY <1>1, <1>3, InsertedIs
<1>5. bigger = tree \/ \E new : NewLeaf(tree, d, new, bigger)
  BY <1>1, <1>3, InsertedLeaf
<1> HIDE DEF bigger
<1>6. Elements(bigger) = {q[i] : i \in 1 .. k}
  <2>1. 1 .. k = (1 .. k - 1) \cup {k}
    BY <1>1
  <2> QED BY <1>2, <1>4, <2>1
<1>7. CASE bigger = tree
  <2>1. Cardinality(bigger.live) <= base + k
    BY <1>1, <1>2, <1>7
  <2> QED BY <1>2, <1>4, <1>6, <1>7, <2>1 DEF Filled, bigger
<1>8. ASSUME NEW new, NewLeaf(tree, d, new, bigger) PROVE Filled(bigger, base, q, k)
  <2>1. Cardinality(bigger.live) <= base + k
    <3>1. new \notin tree.live /\ bigger.live = tree.live \cup {new}
      BY <1>8 DEF NewLeaf
    <3>2. Cardinality(bigger.live) = Cardinality(tree.live) + 1
      BY <1>2, <3>1, FS_AddElement
    <3> QED BY <1>1, <1>2, <3>2
  <2>2. ASSUME NEW n \in Reachable(tree) PROVE Before(q, tree.data[n], d)
    <3>1. d \notin {q[i] : i \in 1 .. k - 1} /\ tree.data[n] \in {q[i] : i \in 1 .. k - 1}
      BY <1>2, <1>8 DEF NewLeaf, Elements
    <3>2. PICK i \in 1 .. k - 1 : tree.data[n] = q[i]
      BY <3>1
    <3>3. \A j \in 1 .. i : j \in 1 .. k - 1
      BY <1>1, <3>2
    <3>4. i \in DOMAIN q
      BY <1>1, <3>2
    <3> HIDE DEF d
    <3> QED BY <3>1, <3>2, <3>3, <3>4 DEF Before
  <2>3. ASSUME NEW n \in Reachable(bigger), NEW m \in Below(bigger)[n], m # n
        PROVE  Before(q, bigger.data[n], bigger.data[m])
    <3>1. n \in Reachable(tree) /\ bigger.data[n] = tree.data[n]
      BY <1>8, <2>3 DEF NewLeaf
    <3>2. CASE m = new
      <4>1. bigger.data[m] = d
        BY <1>8, <3>2 DEF NewLeaf
      <4> QED BY <2>2, <3>1, <4>1
    <3>3. CASE m # new
      <4>1. m \in Below(tree)[n]
        BY <1>8, <3>1, <2>3, <3>3 DEF NewLeaf
      <4>2. m \in Reachable(tree)
        BY <1>1, <3>1, <4>1, ReachableIs
      <4>3. bigger.data[m] = tree.data[m]
        BY <1>8, <4>2 DEF NewLeaf
      <4>4. Before(q, tree.data[n], tree.data[m])
        BY <1>2, <2>3, <3>1, <4>1 DEF Heaped
      <4> QED BY <3>1, <4>3, <4>4
    <3> QED BY <3>2, <3>3
  <2> QED BY <1>4, <1>6, <2>1, <2>3 DEF Filled, Heaped
<1> QED BY <1>5, <1>7, <1>8 DEF bigger

LEMMA RefilledIs ==
  ASSUME NEW base \in Nat, NEW q \in Seq(Key), base + Len(q) <= Nodes,
         NEW tree, Filled(tree, base, q, 0)
  PROVE  Filled(Refilled(tree, q), base, q, Len(q))
<1> DEFINE after == CHOOSE a : Loop(a, tree, q, Len(q))
           S == {k \in Nat : k <= Len(q) /\ ~Filled(after[k], base, q, k)}
<1>1. Len(q) \in Nat
  OBVIOUS
<1>2. Refilled(tree, q) = after[Len(q)]
  BY DEF Refilled, Loop
<1>3. Loop(after, tree, q, Len(q))
  BY <1>1, LoopExists
<1> HIDE DEF after
<1>4. S = {}
  <2> SUFFICES ASSUME S # {} PROVE FALSE
    OBVIOUS
  <2>1. PICK k \in S : \A y \in S : k <= y
    <3>1. S \in SUBSET Nat
      OBVIOUS
    <3> HIDE DEF S
    <3> QED BY <3>1, LeastOf
  <2>2. k \in Nat /\ k <= Len(q) /\ ~Filled(after[k], base, q, k)
    BY <2>1
  <2>3. after[k] = IF k = 0 THEN tree ELSE Inserted(after[k - 1], q[k])
    <3>1. k \in 0 .. Len(q)
      BY <1>1, <2>2
    <3> QED BY <1>3, <3>1 DEF Loop
  <2>4. CASE k = 0
    BY <2>2, <2>3, <2>4
  <2>5. CASE k # 0
    <3>1. k - 1 \in Nat /\ k \in 1 .. Len(q) /\ k - 1 <= Len(q) /\ ~(k <= k - 1)
      BY <1>1, <2>2, <2>5
    <3>2. k - 1 \notin S
      <4> HIDE DEF S
      <4> QED BY <2>1, <3>1
    <3>3. Filled(after[k - 1], base, q, k - 1)
      BY <3>1, <3>2
    <3> QED BY <2>2, <2>3, <2>5, <3>1, <3>3, FilledMore
  <2> QED BY <2>4, <2>5
<1> QED BY <1>1, <1>2, <1>4

HeightWalk(tree) ==
  LET f[n \in Node \cup {Null}] ==
        IF n = Null THEN 0
        ELSE LET l == f[tree.left[n]]  r == f[tree.right[n]]
             IN  1 + (IF l > r THEN l ELSE r)
  IN  f

LEMMA HeightWalkIs ==
  ASSUME NEW tree, Typed(tree), Acyclic(tree)
  PROVE  /\ HeightWalk(tree)[Null] = 0
         /\ \A n \in Place : HeightWalk(tree)[n] \in Nat
         /\ \A n \in Node : \/ HeightWalk(tree)[n] = 1 + HeightWalk(tree)[tree.left[n]]
                            \/ HeightWalk(tree)[n] = 1 + HeightWalk(tree)[tree.right[n]]
<1> DEFINE higher(l, r) == 1 + (IF l > r THEN l ELSE r)
           body(n, a) == IF n = Null THEN 0 ELSE higher(a[tree.left[n]], a[tree.right[n]])
           F == [x \in Node \X Nat \X Nat |-> higher(x[2], x[3])]
           IsIt(a) == a = [n \in Place |-> body(n, a)]
<1>1. F \in [Node \X Nat \X Nat -> Nat]
  OBVIOUS
<1>2. PICK f \in [Place -> Nat] : Collects(tree, 0, F, f)
  <2> HIDE DEF F
  <2> QED BY <1>1, DownRecursion
<1>3. ASSUME NEW n \in Node
      PROVE  /\ f[tree.left[n]] \in Nat /\ f[tree.right[n]] \in Nat
             /\ f[n] = higher(f[tree.left[n]], f[tree.right[n]])
  <2>1. f[tree.left[n]] \in Nat /\ f[tree.right[n]] \in Nat
    BY <1>2, BelowNode
  <2>2. f[n] = F[<<n, f[tree.left[n]], f[tree.right[n]]>>]
    BY <1>2 DEF Collects
  <2> QED BY <2>1, <2>2
<1>4. f[Null] = 0
  BY <1>2 DEF Collects
<1>5. \A n \in Place : f[n] = body(n, f)
  <2> HIDE DEF higher
  <2> QED BY <1>3, <1>4 DEF Place
<1>6. IsIt(f)
  <2>1. f = [n \in Place |-> f[n]]
    BY <1>2
  <2> HIDE DEF body
  <2> QED BY <1>5, <2>1
<1>7. HeightWalk(tree) = CHOOSE a : IsIt(a)
  BY DEF HeightWalk, Place
<1>8. IsIt(HeightWalk(tree))
  <2> HIDE DEF IsIt
  <2> QED BY <1>6, <1>7
<1> DEFINE w == HeightWalk(tree)
<1>9. w = [n \in Place |-> body(n, w)]
  BY <1>8
<1> HIDE DEF w
<1>10. \A n \in Place : w[n] = body(n, w)
  <2> HIDE DEF body
  <2> QED BY <1>9
<1>11. w[Null] = 0
  BY <1>10, NullIs
<1>12. ASSUME NEW n \in Node PROVE w[n] = higher(w[tree.left[n]], w[tree.right[n]])
  <2> HIDE DEF higher
  <2> QED BY <1>10, NullIs
<1>13. ASSUME NEW n \in Node
       PROVE  w[n] = 1 + w[tree.left[n]] \/ w[n] = 1 + w[tree.right[n]]
  BY <1>12
<1>14. \A n \in Node : w[n] \in Nat
  <2> DEFINE B == {n \in Node : w[n] \notin Nat}
  <2> SUFFICES ASSUME B # {} PROVE FALSE
    OBVIOUS
  <2>1. PICK n \in B : tree.left[n] \notin B /\ tree.right[n] \notin B
    <3>1. B \in SUBSET Node
      OBVIOUS
    <3> HIDE DEF B
    <3> QED BY <3>1, LowestOf
  <2>2. n \in Node /\ w[n] \notin Nat
    BY <2>1
  <2>3. \A c \in Place : c \notin B => w[c] \in Nat
    BY <1>11 DEF Place
  <2>4. w[tree.left[n]] \in Nat /\ w[tree.right[n]] \in Nat
    BY <2>1, <2>2, <2>3, BelowNode
  <2> QED BY <1>13, <2>2, <2>4
<1> QED BY <1>11, <1>13, <1>14 DEF w, Place

\* LeastHeight: each half has one level less.
LEMMA LeastHeightIs ==
  ASSUME NEW count \in Nat
  PROVE  \E h \in [0 .. count -> Nat] :
           /\ LeastHeight(count) = h[count] /\ h[0] = 0
           /\ \A k \in 1 .. count : k \div 2 \in 0 .. count /\ h[k] = 1 + h[k \div 2]
           /\ \A a, b \in 0 .. count : a <= b => h[a] <= h[b]
<1> DEFINE D == 0 .. count
           body(k, f) == IF k = 0 THEN 0 ELSE 1 + f[k \div 2]
           G == [x \in D \X [D -> Nat] |-> body(x[1], x[2])]
           rank == [k \in D |-> k]
           IsIt(a) == a = [k \in 0 .. count |-> body(k, a)]
<1>1. ASSUME NEW k \in D, k # 0 PROVE k \div 2 \in D /\ k \div 2 < k
  BY <1>1
<1>2. ASSUME NEW k \in D, NEW f \in [D -> Nat] PROVE body(k, f) \in Nat
  <2>1. CASE k = 0
    BY <2>1
  <2>2. CASE k # 0
    <3>1. f[k \div 2] \in Nat
      <4> HIDE DEF D
      <4> QED BY <1>1, <2>2
    <3> QED BY <2>2, <3>1
  <2> QED BY <2>1, <2>2
<1>3. G \in [D \X [D -> Nat] -> Nat]
  <2> HIDE DEF body, D
  <2> QED BY <1>2
<1>4. \A k \in D, f \in [D -> Nat] : G[<<k, f>>] = body(k, f)
  <2> HIDE DEF body, D
  <2> QED OBVIOUS
<1> HIDE DEF G
<1>5. Looks(D, Nat, rank, G)
  <2> SUFFICES ASSUME NEW k \in D, NEW g \in [D -> Nat], NEW h \in [D -> Nat],
                      \A m \in D : rank[m] < rank[k] => g[m] = h[m]
               PROVE  G[<<k, g>>] = G[<<k, h>>]
    BY DEF Looks
  <2>1. k # 0 => g[k \div 2] = h[k \div 2]
    BY <1>1
  <2>2. body(k, g) = body(k, h)
    BY <2>1
  <2> HIDE DEF body, D
  <2> QED BY <1>4, <2>2
<1>6. PICK f \in [D -> Nat] : \A k \in D : f[k] = G[<<k, f>>]
  <2>1. rank \in [D -> 0 .. count] /\ 0 \in Nat
    OBVIOUS
  <2> HIDE DEF rank, D
  <2>2. Solvable(D, Nat, G)
    BY <1>3, <1>5, <2>1, Recursion
  <2> QED BY <2>2 DEF Solvable
<1>7. IsIt(f)
  <2>1. f = [k \in D |-> f[k]]
    BY <1>6
  <2>2. \A k \in D : f[k] = body(k, f)
    <3> HIDE DEF body, D
    <3> QED BY <1>4, <1>6
  <2> HIDE DEF body
  <2> QED BY <2>1, <2>2
<1> DEFINE h == CHOOSE a : IsIt(a)
<1>8. LeastHeight(count) = h[count]
  BY DEF LeastHeight
<1>9. IsIt(h)
  <2> HIDE DEF IsIt
  <2> QED BY <1>7
<1> HIDE DEF h
<1>10. h[0] = 0 /\ \A k \in 1 .. count : h[k] = 1 + h[k \div 2]
  <2>1. \A k \in D : h[k] = body(k, h)
    <3> HIDE DEF body
    <3> QED BY <1>9
  <2> QED BY <2>1
<1>11. \A k \in D : h[k] \in Nat
  <2> DEFINE S == {k \in Nat : k \in D /\ h[k] \notin Nat}
  <2> SUFFICES ASSUME S # {} PROVE FALSE
    OBVIOUS
  <2>1. PICK k \in S : \A y \in S : k <= y
    <3>1. S \in SUBSET Nat
      OBVIOUS
    <3> HIDE DEF S
    <3> QED BY <3>1, LeastOf
  <2>2. k \in D /\ h[k] \notin Nat /\ k # 0
    BY <1>10, <2>1
  <2>3. k \div 2 \in D /\ k \div 2 < k /\ k \div 2 \in Nat
    BY <1>1, <2>2
  <2>4. ~(k <= k \div 2)
    BY <2>2, <2>3
  <2>5. h[k \div 2] \in Nat
    BY <2>1, <2>3, <2>4
  <2>6. h[k] = 1 + h[k \div 2]
    BY <1>10, <2>2
  <2> QED BY <2>2, <2>5, <2>6
<1>12. h \in [0 .. count -> Nat]
  <2>1. h = [k \in 0 .. count |-> h[k]]
    BY <1>9
  <2> QED BY <1>11, <2>1
<1>13. \A a, b \in D : a <= b => h[a] <= h[b]
  <2> DEFINE Bad(b) == b \in D /\ \E a \in D : a <= b /\ ~(h[a] <= h[b])
             S == {b \in Nat : Bad(b)}
  <2>1. S = {}
    <3> SUFFICES ASSUME S # {} PROVE FALSE
      OBVIOUS
    <3>1. PICK b \in S : \A y \in S : b <= y
      <4>1. S \in SUBSET Nat
        OBVIOUS
      <4> HIDE DEF S
      <4> QED BY <4>1, LeastOf
    <3>2. b \in D /\ Bad(b)
      BY <3>1
    <3>3. PICK a \in D : a <= b /\ ~(h[a] <= h[b])
      BY <3>2
    <3>4. h[a] \in Nat /\ h[b] \in Nat /\ a # 0 /\ b # 0
      <4>1. h[a] \in Nat /\ h[b] \in Nat
        BY <1>11, <3>2, <3>3
      <4>2. a # 0
        BY <1>10, <3>3, <4>1
      <4> QED BY <3>2, <3>3, <4>1, <4>2
    <3>5. a \div 2 \in D /\ b \div 2 \in D /\ b \div 2 < b /\ a \div 2 <= b \div 2
      BY <1>1, <3>2, <3>3, <3>4
    <3>6. ~Bad(b \div 2)
      <4>1. b \div 2 \in Nat /\ ~(b <= b \div 2)
        BY <3>2, <3>5
      <4>2. b \div 2 \notin S
        <5> HIDE DEF S
        <5> QED BY <3>1, <4>1
      <4> HIDE DEF Bad
      <4> QED BY <4>1, <4>2
    <3>7. h[a \div 2] <= h[b \div 2]
      BY <3>5, <3>6
    <3>8. h[a] = 1 + h[a \div 2] /\ h[b] = 1 + h[b \div 2]
      BY <1>10, <3>2, <3>3, <3>4
    <3>9. h[a \div 2] \in Nat /\ h[b \div 2] \in Nat
      BY <1>11, <3>5
    <3> QED BY <3>3, <3>7, <3>8, <3>9
  <2> QED BY <2>1
<1>14. \A k \in 1 .. count : k \div 2 \in 0 .. count
  BY <1>1
<1> QED BY <1>8, <1>10, <1>12, <1>13, <1>14

\* What is below n are the elements s to e of arr, inserted middle first.
Covers(tree, n, arr, s, e, q) ==
  /\ {tree.data[m] : m \in Below(tree)[n]} = {arr[i] : i \in s .. e}
  /\ \A x, y : Before(MidWalk(arr)[<<s, e>>], x, y) /\ y \in Range(MidWalk(arr)[<<s, e>>])
                 => Before(q, x, y)

LEMMA CoversHalves ==
  ASSUME NEW tree, Shaped(tree), Ordered(tree), NEW q \in Seq(Nat), Heaped(tree, q),
         NEW arr \in Seq(Nat), Len(arr) <= Nodes, Ascending(arr),
         NEW n \in Reachable(tree), NEW s \in 1 .. Nodes + 1, NEW e \in 0 .. Len(arr),
         Covers(tree, n, arr, s, e, q)
  PROVE  LET mid == (s + e) \div 2
         IN  /\ s <= e
             /\ Covers(tree, tree.left[n], arr, s, mid - 1, q)
             /\ Covers(tree, tree.right[n], arr, mid + 1, e, q)
<1> DEFINE mid == (s + e) \div 2
           w == MidWalk(arr)
           lb == Below(tree)[tree.left[n]]
           rb == Below(tree)[tree.right[n]]
<1>1. Typed(tree) /\ Acyclic(tree) /\ n \in Node /\ tree.data[n] \in Nat
  BY ReachableIs DEF Shaped
<1>2. Below(tree)[n] = {n} \cup lb \cup rb
  BY <1>1, BelowNode
<1>3. {tree.data[m] : m \in Below(tree)[n]} = {arr[i] : i \in s .. e}
  BY DEF Covers
<1>4. /\ \A m \in lb : tree.data[m] < tree.data[n] /\ tree.data[m] \in Nat
      /\ \A m \in rb : tree.data[n] < tree.data[m] /\ tree.data[m] \in Nat
  BY SidesApart, ReachableIs DEF Ordered
<1>5. PICK i0 \in s .. e : tree.data[n] = arr[i0]
  BY <1>2, <1>3
<1>6. Len(arr) \in Nat /\ Nodes \in Nat /\ e \in 0 .. Nodes /\ DOMAIN arr = 1 .. Len(arr) /\ s <= e
      /\ \A i \in 1 .. Len(arr) : arr[i] \in Nat
  BY <1>5, NodesAssumption
<1>7. mid \in 1 .. Nodes /\ s <= mid /\ mid <= e /\ mid - 1 \in 0 .. Nodes
      /\ mid + 1 \in 1 .. Nodes + 1
  BY <1>6, MiddleOf
<1>8. /\ \A y : y # arr[mid] => Before(w[<<s, e>>], arr[mid], y)
      /\ \A x, y : Before(w[<<s, mid - 1>>], x, y) /\ y \in Range(w[<<s, mid - 1>>])
                     => Before(w[<<s, e>>], x, y)
      /\ \A x, y : Before(w[<<mid + 1, e>>], x, y) /\ y \in Range(w[<<mid + 1, e>>])
                     => Before(w[<<s, e>>], x, y)
  BY <1>6, MidOrder
<1> HIDE DEF mid
<1>9. /\ Range(w[<<s, e>>]) = {arr[i] : i \in s .. e}
      /\ Range(w[<<s, mid - 1>>]) = {arr[i] : i \in s .. mid - 1}
      /\ Range(w[<<mid + 1, e>>]) = {arr[i] : i \in mid + 1 .. e}
  <2>1. s <= e + 1 /\ s <= (mid - 1) + 1 /\ mid - 1 \in 0 .. Len(arr) /\ mid + 1 <= e + 1
    BY <1>6, <1>7
  <2> QED BY <1>6, <1>7, <2>1, MidListsAll DEF MidLists
<1>10. (s .. mid - 1) \subseteq (s .. e) /\ (mid + 1 .. e) \subseteq (s .. e) /\ mid \in s .. e
       /\ (s .. e) \subseteq 1 .. Len(arr)
  BY <1>6, <1>7
<1> HIDE DEF w, lb, rb
<1>11. tree.data[n] = arr[mid]
  <2> SUFFICES ASSUME tree.data[n] # arr[mid] PROVE FALSE
    OBVIOUS
  <2>1. PICK m \in Below(tree)[n] : arr[mid] = tree.data[m]
    BY <1>3, <1>10
  <2>2. Before(q, tree.data[n], arr[mid])
    BY <2>1 DEF Heaped
  <2>3. Before(w[<<s, e>>], arr[mid], tree.data[n])
    BY <1>8
  <2>4. tree.data[n] \in Range(w[<<s, e>>])
    BY <1>5, <1>9
  <2>5. Before(q, arr[mid], tree.data[n])
    BY <2>3, <2>4 DEF Covers, w
  <2> QED BY <2>2, <2>5, BeforeAsymmetric
<1>12. ASSUME NEW i \in s .. e
       PROVE  /\ arr[i] < arr[mid] <=> i \in s .. mid - 1
              /\ arr[mid] < arr[i] <=> i \in mid + 1 .. e
              /\ arr[i] \in Nat /\ arr[mid] \in Nat
  <2>1. i \in DOMAIN arr /\ mid \in DOMAIN arr /\ arr[i] \in Nat /\ arr[mid] \in Nat
        /\ i \in Nat /\ mid \in Nat
    BY <1>6, <1>10
  <2>2. i < mid => arr[i] < arr[mid]
    BY <2>1 DEF Ascending
  <2>3. mid < i => arr[mid] < arr[i]
    BY <2>1 DEF Ascending
  <2>4. (i < mid <=> i \in s .. mid - 1) /\ (mid < i <=> i \in mid + 1 .. e)
    BY <1>6, <1>7, <2>1
  <2>5. i < mid \/ i = mid \/ mid < i
    BY <2>1
  <2>6. arr[i] < arr[mid] <=> i < mid
    BY <2>1, <2>2, <2>3, <2>5
  <2>7. arr[mid] < arr[i] <=> mid < i
    BY <2>1, <2>2, <2>3, <2>5
  <2> QED BY <2>1, <2>4, <2>6, <2>7
<1>13. {tree.data[m] : m \in lb} = {arr[i] : i \in s .. mid - 1}
  <2>1. ASSUME NEW m \in lb PROVE tree.data[m] \in {arr[i] : i \in s .. mid - 1}
    <3>1. PICK i \in s .. e : tree.data[m] = arr[i]
      BY <1>2, <1>3, <2>1
    <3> QED BY <1>4, <1>11, <1>12, <2>1, <3>1
  <2>2. ASSUME NEW i \in s .. mid - 1 PROVE arr[i] \in {tree.data[m] : m \in lb}
    <3>1. PICK m \in Below(tree)[n] : arr[i] = tree.data[m]
      BY <1>3, <1>10, <2>2
    <3>2. arr[i] < arr[mid] /\ arr[i] \in Nat /\ arr[mid] \in Nat
      BY <1>10, <1>12, <2>2
    <3>3. m # n /\ m \notin rb
      BY <1>4, <1>11, <3>1, <3>2
    <3> QED BY <1>2, <3>1, <3>3
  <2> QED BY <2>1, <2>2
<1>14. {tree.data[m] : m \in rb} = {arr[i] : i \in mid + 1 .. e}
  <2>1. ASSUME NEW m \in rb PROVE tree.data[m] \in {arr[i] : i \in mid + 1 .. e}
    <3>1. PICK i \in s .. e : tree.data[m] = arr[i]
      BY <1>2, <1>3, <2>1
    <3> QED BY <1>4, <1>11, <1>12, <2>1, <3>1
  <2>2. ASSUME NEW i \in mid + 1 .. e PROVE arr[i] \in {tree.data[m] : m \in rb}
    <3>1. PICK m \in Below(tree)[n] : arr[i] = tree.data[m]
      BY <1>3, <1>10, <2>2
    <3>2. arr[mid] < arr[i] /\ arr[i] \in Nat /\ arr[mid] \in Nat
      BY <1>10, <1>12, <2>2
    <3>3. m # n /\ m \notin lb
      BY <1>4, <1>11, <3>1, <3>2
    <3> QED BY <1>2, <3>1, <3>3
  <2> QED BY <2>1, <2>2
<1>15. ASSUME NEW x, NEW y, y \in Range(w[<<s, e>>]), Before(w[<<s, e>>], x, y)
       PROVE  Before(q, x, y)
  BY <1>15 DEF Covers, w
<1>16. Range(w[<<s, mid - 1>>]) \subseteq Range(w[<<s, e>>])
       /\ Range(w[<<mid + 1, e>>]) \subseteq Range(w[<<s, e>>])
  BY <1>9, <1>10
<1>17. Covers(tree, tree.left[n], arr, s, mid - 1, q)
  BY <1>8, <1>13, <1>15, <1>16 DEF Covers, w, lb
<1>18. Covers(tree, tree.right[n], arr, mid + 1, e, q)
  BY <1>8, <1>14, <1>15, <1>16 DEF Covers, w, rb
<1> QED BY <1>6, <1>17, <1>18 DEF mid

LEMMA CoveredHeight ==
  ASSUME NEW tree, Shaped(tree), Ordered(tree), NEW q \in Seq(Nat), Heaped(tree, q),
         NEW arr \in Seq(Nat), Len(arr) <= Nodes, Ascending(arr),
         NEW count \in Nat, Len(arr) <= count, NEW h \in [0 .. count -> Nat],
         \A k \in 1 .. count : k \div 2 \in 0 .. count /\ h[k] = 1 + h[k \div 2],
         \A a, b \in 0 .. count : a <= b => h[a] <= h[b],
         NEW x \in Reachable(tree), NEW s0 \in 1 .. Nodes + 1, NEW e0 \in 0 .. Len(arr),
         Covers(tree, x, arr, s0, e0, q)
  PROVE  e0 - s0 + 1 \in 0 .. count /\ HeightWalk(tree)[x] <= h[e0 - s0 + 1]
<1> DEFINE low(n) == \A s \in 1 .. Nodes + 1, e \in 0 .. Len(arr) :
                       Covers(tree, n, arr, s, e, q) =>
                         e - s + 1 \in 0 .. count /\ HeightWalk(tree)[n] <= h[e - s + 1]
           B == {n \in Reachable(tree) : ~low(n)}
<1>1. Typed(tree) /\ Acyclic(tree) /\ Reachable(tree) \subseteq Node
  BY ReachableIs DEF Shaped
<1>2. B = {}
  <2> SUFFICES ASSUME B # {} PROVE FALSE
    OBVIOUS
  <2>1. PICK n \in B : tree.left[n] \notin B /\ tree.right[n] \notin B
    <3>1. B \in SUBSET Node
      BY <1>1
    <3> HIDE DEF B
    <3> QED BY <1>1, <3>1, LowestOf
  <2>2. n \in Reachable(tree) /\ n \in Node /\ ~low(n)
    BY <1>1, <2>1
  <2>3. PICK s \in 1 .. Nodes + 1, e \in 0 .. Len(arr) :
          /\ Covers(tree, n, arr, s, e, q)
          /\ ~(e - s + 1 \in 0 .. count /\ HeightWalk(tree)[n] <= h[e - s + 1])
    BY <2>2
  <2> DEFINE mid == (s + e) \div 2
             k == e - s + 1
             H == HeightWalk(tree)
  <2>4. s <= e /\ Covers(tree, tree.left[n], arr, s, mid - 1, q)
        /\ Covers(tree, tree.right[n], arr, mid + 1, e, q)
    BY <2>2, <2>3, CoversHalves
  <2>5. Len(arr) \in Nat /\ Nodes \in Nat /\ e \in 0 .. Nodes
    BY NodesAssumption
  <2>6. mid \in 1 .. Nodes /\ s <= mid /\ mid <= e /\ mid + 1 \in 1 .. Nodes + 1
        /\ mid - s = (e - s) \div 2 /\ e - mid = (e - s + 1) \div 2
    BY <2>4, <2>5, MiddleOf
  <2> HIDE DEF mid
  <2>14. s \in 1 .. Nodes + 1 /\ e \in 0 .. Len(arr) /\ s <= e
    BY <2>3, <2>4
  <2>15. mid \in Nat /\ s <= mid /\ mid <= e
    BY <2>6
  <2>13. s \in Nat /\ e \in Nat /\ 1 <= s /\ s <= e /\ e <= count /\ e <= Len(arr)
         /\ mid \in Nat /\ s <= mid /\ mid <= e
    BY <2>5, <2>14, <2>15
  <2>7. k \in 1 .. count /\ mid - 1 \in 0 .. Len(arr)
    BY <2>5, <2>13
  <2>8. mid - s \in 0 .. count /\ e - mid \in 0 .. count /\ k \div 2 \in 0 .. count
        /\ mid - s <= k \div 2 /\ e - mid = k \div 2
    <3>1. mid - s \in 0 .. count /\ e - mid \in 0 .. count
      BY <2>13
    <3>2. k \div 2 \in 0 .. count
      BY <2>7
    <3>3. mid - s <= k \div 2
      BY <2>6, <2>13
    <3> QED BY <2>6, <3>1, <3>2, <3>3
  <2>9. ASSUME NEW c \in {tree.left[n], tree.right[n]} PROVE H[c] <= h[k \div 2] /\ H[c] \in Nat
    <3>1. CASE c = Null
      <4>1. H[c] = 0 /\ h[k \div 2] \in Nat
        BY <1>1, <2>8, <3>1, HeightWalkIs
      <4> QED BY <4>1
    <3>2. CASE c # Null
      <4>1. c \in Reachable(tree) /\ low(c) /\ H[c] \in Nat
        <5>1. c \in Reachable(tree)
          <6>1. Closed(tree, Reachable(tree))
            BY ReachableIs
          <6> QED BY <2>2, <2>9, <3>2, <6>1 DEF Closed
        <5>2. c \in Place
          BY <1>1, <5>1 DEF Place
        <5> QED BY <1>1, <2>1, <5>1, <5>2, HeightWalkIs
      <4> HIDE DEF B
      <4>2. CASE c = tree.left[n]
        <5>1. (mid - 1) - s + 1 = mid - s
          BY <2>4, <2>5, <2>6
        <5>2. H[c] <= h[mid - s]
          BY <2>4, <2>7, <4>1, <4>2, <5>1
        <5>3. h[mid - s] <= h[k \div 2] /\ h[mid - s] \in Nat /\ h[k \div 2] \in Nat
          BY <2>8
        <5> QED BY <4>1, <5>2, <5>3
      <4>3. CASE c = tree.right[n]
        <5>1. e - (mid + 1) + 1 = k \div 2
          BY <2>4, <2>5, <2>6
        <5> HIDE DEF k
        <5>2. H[c] <= h[k \div 2]
          BY <2>4, <2>6, <4>1, <4>3, <5>1
        <5> QED BY <4>1, <5>2
      <4> QED BY <4>2, <4>3
    <3> QED BY <3>1, <3>2
  <2>10. H[n] = 1 + H[tree.left[n]] \/ H[n] = 1 + H[tree.right[n]]
    BY <1>1, <2>2, HeightWalkIs
  <2>11. h[k] = 1 + h[k \div 2] /\ h[k \div 2] \in Nat
    BY <2>7, <2>8
  <2> HIDE DEF k, H, B
  <2>12. H[n] <= h[k]
    <3>1. PICK c \in {tree.left[n], tree.right[n]} : H[n] = 1 + H[c]
      BY <2>10
    <3>2. H[c] <= h[k \div 2] /\ H[c] \in Nat
      BY <2>9, <3>1
    <3> QED BY <2>11, <3>1, <3>2
  <2> QED BY <2>3, <2>7, <2>12 DEF k, H
<1> QED BY <1>2

\* Balancing keeps the elements and leaves the least height.
LEMMA BalancedIs ==
  ASSUME NEW tree, Sound(tree), tree.root # Null
  PROVE  LET flat == Refilled(Cleared(tree), MiddleFirst(InOrder(tree)))
         IN  /\ Sound(flat) /\ InOrder(flat) = InOrder(tree)
             /\ Height(flat) <= LeastHeight(flat.count)
<1> DEFINE arr == InOrder(tree)
           bare == Cleared(tree)
           q == MiddleFirst(arr)
           flat == Refilled(bare, q)
           base == Cardinality(tree.live \ Reachable(tree))
<1>1. Shaped(tree) /\ Ordered(tree) /\ Typed(tree) /\ Acyclic(tree)
  BY DEF Sound, Shaped
<1>2. /\ arr \in Seq(Nat) /\ Range(arr) = Elements(tree) /\ Ascending(arr)
      /\ Len(arr) = Cardinality(Reachable(tree)) /\ Len(arr) \in Nat
  <2>1. arr \in Seq(Nat)
    BY <1>1, InOrderIs
  <2>2. Len(arr) \in Nat
    BY <2>1
  <2> QED BY <1>1, <2>2, InOrderIs
<1>3. /\ base \in Nat /\ base + Len(arr) = Cardinality(tree.live) /\ Cardinality(tree.live) <= Nodes
      /\ Len(arr) <= Nodes
  <2>1. IsFiniteSet(tree.live) /\ IsFiniteSet(Reachable(tree)) /\ Cardinality(tree.live) \in Nat
        /\ Cardinality(tree.live) <= Nodes /\ Cardinality(Reachable(tree)) \in Nat
    BY <1>1, LiveFinite
  <2>2. tree.live \cap Reachable(tree) = Reachable(tree)
    BY <1>1, ReachableIs
  <2>3. IsFiniteSet(tree.live \ Reachable(tree))
        /\ base = Cardinality(tree.live) - Cardinality(tree.live \cap Reachable(tree))
    BY <2>1, FS_Difference
  <2>4. base \in Nat
    BY <2>3, FS_CardinalityType
  <2> DEFINE cl == Cardinality(tree.live)  cr == Cardinality(Reachable(tree))  la == Len(arr)
  <2>5. /\ cl \in Nat /\ cl <= Nodes /\ cr \in Nat /\ la = cr /\ base = cl - cr /\ base \in Nat
        /\ Nodes \in Nat
    BY <1>2, <2>1, <2>2, <2>3, <2>4, NodesAssumption
  <2> HIDE DEF base, cl, cr, la
  <2>6. base \in Nat /\ base + la = cl /\ cl <= Nodes /\ la <= Nodes
    BY <2>5
  <2> QED BY <2>6 DEF cl, la
<1>4. Sound(bare) /\ bare.live = tree.live \ Reachable(tree) /\ Reachable(bare) = {}
  BY <1>1, ClearedIs
<1>5. q = MidWalk(arr)[<<1, Len(arr)>>]
  BY DEF MiddleFirst, MidWalk
<1> HIDE DEF arr, q, bare, base
<1>6. q \in Seq(Nat) /\ Len(q) = Len(arr) /\ Range(q) = {arr[i] : i \in 1 .. Len(arr)}
  <2>1. 1 \in 1 .. Nodes + 1 /\ Len(arr) \in 0 .. Len(arr) /\ 1 <= Len(arr) + 1
        /\ Len(arr) - 1 + 1 = Len(arr)
    BY <1>2, NodesAssumption
  <2>2. MidLists(arr, 1, Len(arr))
    BY <1>2, <1>3, <2>1, MidListsAll
  <2> QED BY <1>5, <2>1, <2>2 DEF MidLists
<1>7. DOMAIN arr = 1 .. Len(arr) /\ DOMAIN q = 1 .. Len(q)
  BY <1>2, <1>6
<1>8. Range(q) = Elements(tree)
  BY <1>2, <1>6, <1>7 DEF Range
<1>9. q \in Seq(Key)
  <2>1. \A i \in 1 .. Len(q) : q[i] \in Key
    <3>1. Elements(tree) \subseteq Key
      BY <1>1, ReachableIs DEF Elements, Typed
    <3> QED BY <1>7, <1>8, <3>1 DEF Range
  <2>2. q = [i \in 1 .. Len(q) |-> q[i]] /\ Len(q) \in Nat
    BY <1>6
  <2> QED BY <2>1, <2>2
<1>10. Filled(bare, base, q, 0)
  <2>1. Elements(bare) = {q[i] : i \in 1 .. 0} /\ Heaped(bare, q)
    BY <1>4 DEF Elements, Heaped
  <2>2. Cardinality(bare.live) = base
    BY <1>4 DEF base
  <2> QED BY <1>3, <1>4, <2>1, <2>2 DEF Filled
<1>11. Filled(flat, base, q, Len(q))
  <2>1. base + Len(q) <= Nodes
    BY <1>3, <1>6
  <2> QED BY <1>3, <1>9, <1>10, <2>1, RefilledIs
<1> HIDE DEF flat
<1>12. Sound(flat) /\ Shaped(flat) /\ Ordered(flat) /\ Typed(flat) /\ Acyclic(flat)
       /\ Heaped(flat, q)
       /\ Elements(flat) = Elements(tree)
  <2>1. Elements(flat) = {q[i] : i \in 1 .. Len(q)}
    BY <1>11 DEF Filled
  <2>2. Elements(flat) = Range(q)
    BY <1>7, <2>1 DEF Range
  <2> QED BY <1>8, <1>11, <2>2 DEF Filled, Sound, Shaped
<1>13. InOrder(flat) = arr
  <2>1. InOrder(flat) \in Seq(Nat) /\ Range(InOrder(flat)) = Elements(flat)
        /\ Ascending(InOrder(flat))
    BY <1>12, InOrderIs
  <2> QED BY <1>2, <1>12, <2>1, AscendingUnique
<1>14. flat.root # Null
  <2>1. tree.root \in Reachable(tree)
    BY <1>1, ReachableIs
  <2>2. Elements(flat) # {}
    BY <1>12, <2>1 DEF Elements
  <2>3. Reachable(flat) # {}
    BY <2>2 DEF Elements
  <2> QED BY <1>12, <2>3, ReachableIs
<1>15. flat.count \in Nat /\ Len(arr) <= flat.count
  <2>1. Len(arr) = Cardinality(Reachable(flat))
    BY <1>12, <1>13, InOrderIs
  <2>2. flat.count \in Nat
    BY <1>12, NodesAssumption DEF Typed
  <2>3. Cardinality(Reachable(flat)) <= flat.count
    BY <1>12, <1>14 DEF Sound, Counted
  <2> QED BY <2>1, <2>2, <2>3
<1>16. PICK h \in [0 .. flat.count -> Nat] :
         /\ LeastHeight(flat.count) = h[flat.count] /\ h[0] = 0
         /\ \A k \in 1 .. flat.count : k \div 2 \in 0 .. flat.count /\ h[k] = 1 + h[k \div 2]
         /\ \A a, b \in 0 .. flat.count : a <= b => h[a] <= h[b]
  BY <1>15, LeastHeightIs
<1>17. Covers(flat, flat.root, arr, 1, Len(arr), q)
  <2>1. {flat.data[m] : m \in Below(flat)[flat.root]} = Elements(flat)
    BY ReachableBelow DEF Elements
  <2>2. Elements(flat) = {arr[i] : i \in 1 .. Len(arr)}
    BY <1>6, <1>8, <1>12
  <2> QED BY <1>5, <2>1, <2>2 DEF Covers
<1>18. HeightWalk(flat)[flat.root] <= h[Len(arr)]
  <2>1. flat.root \in Reachable(flat) /\ 1 \in 1 .. Nodes + 1 /\ Len(arr) \in 0 .. Len(arr)
        /\ Len(arr) - 1 + 1 = Len(arr)
    BY <1>2, <1>12, <1>14, ReachableIs, NodesAssumption
  <2>2. HeightWalk(flat)[flat.root] <= h[Len(arr) - 1 + 1]
    BY <1>2, <1>3, <1>6, <1>12, <1>15, <1>16, <1>17, <2>1, CoveredHeight
  <2> QED BY <2>1, <2>2
<1>19. Height(flat) = HeightWalk(flat)[flat.root]
  BY DEF Height, HeightWalk
<1>20. Height(flat) <= LeastHeight(flat.count)
  <2>1. h[Len(arr)] <= h[flat.count] /\ h[Len(arr)] \in Nat /\ h[flat.count] \in Nat
    BY <1>2, <1>15, <1>16
  <2>2. HeightWalk(flat)[flat.root] \in Nat
    BY <1>12, HeightWalkIs, ReachableIs
  <2> QED BY <1>16, <1>18, <1>19, <2>1, <2>2
<1> QED BY <1>12, <1>13, <1>20 DEF flat, arr, q, bare

LEMMA PreWalkIs ==
  ASSUME NEW tree, Typed(tree), Acyclic(tree)
  PROVE  /\ PreWalk(tree) \in [Place -> Seq(Nat)] /\ PreWalk(tree)[Null] = <<>>
         /\ \A n \in Node : PreWalk(tree)[n] =
              <<tree.data[n]>> \o PreWalk(tree)[tree.left[n]] \o PreWalk(tree)[tree.right[n]]
<1> DEFINE body(n, a) == IF n = Null THEN <<>>
                         ELSE <<tree.data[n]>> \o a[tree.left[n]] \o a[tree.right[n]]
           F == [x \in Node \X Seq(Nat) \X Seq(Nat) |-> <<tree.data[x[1]]>> \o x[2] \o x[3]]
           IsIt(a) == a = [n \in Place |-> body(n, a)]
<1>1. F \in [Node \X Seq(Nat) \X Seq(Nat) -> Seq(Nat)]
  BY DataTyped
<1>2. PICK f \in [Place -> Seq(Nat)] :
        /\ f[Null] = <<>>
        /\ \A n \in Node : f[n] = F[<<n, f[tree.left[n]], f[tree.right[n]]>>]
  <2> HIDE DEF F
  <2> QED BY <1>1, WalkExists
<1>3. \A n \in Node : f[n] = <<tree.data[n]>> \o f[tree.left[n]] \o f[tree.right[n]]
  BY <1>2, DataTyped
<1>4. \A n \in Place : f[n] = body(n, f)
  BY <1>2, <1>3, NullIs DEF Place
<1>5. IsIt(f)
  <2>1. f = [n \in Place |-> f[n]]
    BY <1>2
  <2> HIDE DEF body
  <2> QED BY <1>4, <2>1
<1>6. PreWalk(tree) = CHOOSE a : IsIt(a)
  BY DEF PreWalk, Place
<1>7. IsIt(PreWalk(tree))
  <2> HIDE DEF IsIt
  <2> QED BY <1>5, <1>6
<1> DEFINE w == PreWalk(tree)
<1>8. w = [n \in Place |-> body(n, w)]
  BY <1>7
<1> HIDE DEF w
<1>9. \A n \in Place : w[n] = body(n, w)
  BY <1>8
<1>10. w[Null] = <<>>
       /\ \A n \in Node : w[n] = <<tree.data[n]>> \o w[tree.left[n]] \o w[tree.right[n]]
  BY <1>9, NullIs
<1>11. \A n \in Place : w[n] \in Seq(Nat)
  <2> DEFINE B == {n \in Node : w[n] \notin Seq(Nat)}
  <2>1. B = {}
    <3> SUFFICES ASSUME B # {} PROVE FALSE
      OBVIOUS
    <3>1. PICK n \in B : tree.left[n] \notin B /\ tree.right[n] \notin B
      <4>1. B \in SUBSET Node
        OBVIOUS
      <4> HIDE DEF B
      <4> QED BY <4>1, LowestOf
    <3>2. n \in Node /\ w[n] \notin Seq(Nat)
      BY <3>1
    <3>3. tree.left[n] \in Place /\ tree.right[n] \in Place /\ <<tree.data[n]>> \in Seq(Nat)
      BY <3>2, DataTyped
    <3>4. \A c \in Place : c \notin B => w[c] \in Seq(Nat)
      <4>1. <<>> \in Seq(Nat)
        OBVIOUS
      <4> QED BY <1>10, <4>1 DEF Place
    <3>5. w[tree.left[n]] \in Seq(Nat) /\ w[tree.right[n]] \in Seq(Nat)
      BY <3>1, <3>3, <3>4
    <3> HIDE DEF B
    <3>6. <<tree.data[n]>> \o w[tree.left[n]] \o w[tree.right[n]] \in Seq(Nat)
      BY <3>3, <3>5, ConcatIs
    <3> QED BY <1>10, <3>2, <3>6
  <2>2. w[Null] \in Seq(Nat)
    BY <1>10
  <2> QED BY <2>1, <2>2 DEF Place
<1>12. w \in [Place -> Seq(Nat)]
  BY <1>8, <1>11
<1> QED BY <1>10, <1>12 DEF w

LEMMA PostWalkIs ==
  ASSUME NEW tree, Typed(tree), Acyclic(tree)
  PROVE  /\ PostWalk(tree) \in [Place -> Seq(Nat)] /\ PostWalk(tree)[Null] = <<>>
         /\ \A n \in Node : PostWalk(tree)[n] =
              PostWalk(tree)[tree.left[n]] \o PostWalk(tree)[tree.right[n]] \o <<tree.data[n]>>
<1> DEFINE body(n, a) == IF n = Null THEN <<>>
                         ELSE a[tree.left[n]] \o a[tree.right[n]] \o <<tree.data[n]>>
           F == [x \in Node \X Seq(Nat) \X Seq(Nat) |-> x[2] \o x[3] \o <<tree.data[x[1]]>>]
           IsIt(a) == a = [n \in Place |-> body(n, a)]
<1>1. F \in [Node \X Seq(Nat) \X Seq(Nat) -> Seq(Nat)]
  BY DataTyped
<1>2. PICK f \in [Place -> Seq(Nat)] :
        /\ f[Null] = <<>>
        /\ \A n \in Node : f[n] = F[<<n, f[tree.left[n]], f[tree.right[n]]>>]
  <2> HIDE DEF F
  <2> QED BY <1>1, WalkExists
<1>3. \A n \in Node : f[n] = f[tree.left[n]] \o f[tree.right[n]] \o <<tree.data[n]>>
  BY <1>2, DataTyped
<1>4. \A n \in Place : f[n] = body(n, f)
  BY <1>2, <1>3, NullIs DEF Place
<1>5. IsIt(f)
  <2>1. f = [n \in Place |-> f[n]]
    BY <1>2
  <2> HIDE DEF body
  <2> QED BY <1>4, <2>1
<1>6. PostWalk(tree) = CHOOSE a : IsIt(a)
  BY DEF PostWalk, Place
<1>7. IsIt(PostWalk(tree))
  <2> HIDE DEF IsIt
  <2> QED BY <1>5, <1>6
<1> DEFINE w == PostWalk(tree)
<1>8. w = [n \in Place |-> body(n, w)]
  BY <1>7
<1> HIDE DEF w
<1>9. \A n \in Place : w[n] = body(n, w)
  BY <1>8
<1>10. w[Null] = <<>>
       /\ \A n \in Node : w[n] = w[tree.left[n]] \o w[tree.right[n]] \o <<tree.data[n]>>
  BY <1>9, NullIs
<1>11. \A n \in Place : w[n] \in Seq(Nat)
  <2> DEFINE B == {n \in Node : w[n] \notin Seq(Nat)}
  <2>1. B = {}
    <3> SUFFICES ASSUME B # {} PROVE FALSE
      OBVIOUS
    <3>1. PICK n \in B : tree.left[n] \notin B /\ tree.right[n] \notin B
      <4>1. B \in SUBSET Node
        OBVIOUS
      <4> HIDE DEF B
      <4> QED BY <4>1, LowestOf
    <3>2. n \in Node /\ w[n] \notin Seq(Nat)
      BY <3>1
    <3>3. tree.left[n] \in Place /\ tree.right[n] \in Place /\ <<tree.data[n]>> \in Seq(Nat)
      BY <3>2, DataTyped
    <3>4. \A c \in Place : c \notin B => w[c] \in Seq(Nat)
      <4>1. <<>> \in Seq(Nat)
        OBVIOUS
      <4> QED BY <1>10, <4>1 DEF Place
    <3>5. w[tree.left[n]] \in Seq(Nat) /\ w[tree.right[n]] \in Seq(Nat)
      BY <3>1, <3>3, <3>4
    <3> HIDE DEF B
    <3>6. w[tree.left[n]] \o w[tree.right[n]] \o <<tree.data[n]>> \in Seq(Nat)
      BY <3>3, <3>5, ConcatIs
    <3> QED BY <1>10, <3>2, <3>6
  <2>2. w[Null] \in Seq(Nat)
    BY <1>10
  <2> QED BY <2>1, <2>2 DEF Place
<1>12. w \in [Place -> Seq(Nat)]
  BY <1>8, <1>11
<1> QED BY <1>10, <1>12 DEF w

-----------------------------------------------------------------------------
(* Iterating *)

\* Going up from a node of the tree, the parent is in the tree until the root.
LEMMA ParentIs ==
  ASSUME NEW tree, Shaped(tree), NEW n \in Reachable(tree)
  PROVE  /\ n \in Node /\ n \in tree.live
         /\ tree.parent[n] = Null <=> n = tree.root
         /\ tree.parent[n] # Null =>
              LET p == tree.parent[n]
              IN  /\ p \in Reachable(tree) /\ p \in Node
                  /\ n = tree.left[p] \/ n = tree.right[p]
                  /\ ~(n = tree.left[p] /\ n = tree.right[p])
<1>1. Typed(tree) /\ Linked(tree) /\ Reachable(tree) = Below(tree)[tree.root]
      /\ n \in Node /\ n \in tree.live /\ n # Null
      /\ tree.root # Null /\ tree.root \in tree.live
  BY ReachableIs, NullIs DEF Shaped, Typed
<1>2. tree.parent[tree.root] = Null
  BY <1>1 DEF Linked
<1>3. ASSUME n # tree.root
      PROVE  /\ tree.parent[n] \in Reachable(tree)
             /\ n = tree.left[tree.parent[n]] \/ n = tree.right[tree.parent[n]]
  BY <1>1, <1>3, ParentBelow
<1>4. ASSUME n # tree.root
      PROVE  /\ tree.parent[n] \in Node /\ tree.parent[n] \in tree.live /\ tree.parent[n] # Null
             /\ ~(n = tree.left[tree.parent[n]] /\ n = tree.right[tree.parent[n]])
  <2>1. tree.parent[n] \in Node /\ tree.parent[n] \in tree.live
    BY <1>3, <1>4, ReachableIs
  <2> QED BY <1>1, <2>1, NullIs DEF Linked
<1> QED BY <1>1, <1>2, <1>3, <1>4

\* A rank of the nodes that falls on the way up.
LEMMA UpRanked ==
  ASSUME NEW tree, Shaped(tree)
  PROVE  \E top \in Nat : \E rank \in [Reachable(tree) -> 0 .. top] :
           \A n \in Reachable(tree) : tree.parent[n] # Null => rank[tree.parent[n]] < rank[n]
<1>1. Acyclic(tree) /\ Reachable(tree) \subseteq Node
  BY ReachableIs DEF Shaped
<1>2. PICK top \in Nat : \E rank \in [Node -> 0 .. top] : Ranks(tree, rank)
  BY <1>1 DEF Acyclic
<1>3. PICK rank \in [Node -> 0 .. top] : Ranks(tree, rank)
  BY <1>2
<1> DEFINE up == [n \in Reachable(tree) |-> top - rank[n]]
<1>4. up \in [Reachable(tree) -> 0 .. top]
  <2>1. \A n \in Reachable(tree) : top - rank[n] \in 0 .. top
    BY <1>1, <1>3
  <2> QED BY <2>1
<1>5. ASSUME NEW n \in Reachable(tree), tree.parent[n] # Null PROVE up[tree.parent[n]] < up[n]
  <2>1. tree.parent[n] \in Reachable(tree) /\ tree.parent[n] \in Node /\ n \in Node /\ n # Null
        /\ (n = tree.left[tree.parent[n]] \/ n = tree.right[tree.parent[n]])
    BY <1>5, ParentIs, NullIs
  <2>2. rank[n] < rank[tree.parent[n]]
    BY <1>3, <2>1 DEF Ranks
  <2>3. rank[n] \in 0 .. top /\ rank[tree.parent[n]] \in 0 .. top
    BY <1>3, <2>1
  <2> QED BY <2>1, <2>2, <2>3
<1> HIDE DEF up
<1> QED BY <1>4, <1>5

\* What follows the walk below a node: X gives what is next to it, and then
\* comes what follows its parent.
IsOnwards(tree, X, f) ==
  /\ f \in [Reachable(tree) -> Seq(Nat)]
  /\ \A n \in Reachable(tree) :
       f[n] = IF tree.parent[n] = Null THEN <<>> ELSE X[n] \o f[tree.parent[n]]
Onwards(tree, X) == CHOOSE f : IsOnwards(tree, X, f)

LEMMA OnwardsIs ==
  ASSUME NEW tree, Shaped(tree), NEW X \in [Reachable(tree) -> Seq(Nat)]
  PROVE  IsOnwards(tree, X, Onwards(tree, X))
<1> DEFINE D == Reachable(tree)
           V == Seq(Nat)
           body(n, f) == IF tree.parent[n] = Null THEN <<>> ELSE X[n] \o f[tree.parent[n]]
           G == [y \in D \X [D -> V] |-> body(y[1], y[2])]
<1>1. PICK top \in Nat : \E rank \in [D -> 0 .. top] :
        \A n \in D : tree.parent[n] # Null => rank[tree.parent[n]] < rank[n]
  BY UpRanked
<1>2. PICK rank \in [D -> 0 .. top] :
        \A n \in D : tree.parent[n] # Null => rank[tree.parent[n]] < rank[n]
  BY <1>1
<1>3. \A n \in D : tree.parent[n] # Null => tree.parent[n] \in D
  BY ParentIs
<1> HIDE DEF D
<1>4. ASSUME NEW n \in D, NEW f \in [D -> V] PROVE body(n, f) \in V
  <2>1. CASE tree.parent[n] = Null
    BY <2>1
  <2>2. CASE tree.parent[n] # Null
    <3>1. f[tree.parent[n]] \in Seq(Nat) /\ X[n] \in Seq(Nat)
      BY <1>3, <2>2 DEF D
    <3> QED BY <2>2, <3>1
  <2> QED BY <2>1, <2>2
<1> HIDE DEF V
<1>5. G \in [D \X [D -> V] -> V]
  <2> HIDE DEF body
  <2> QED BY <1>4
<1>6. \A n \in D, f \in [D -> V] : G[<<n, f>>] = body(n, f)
  <2> HIDE DEF body
  <2> QED OBVIOUS
<1> HIDE DEF G
<1>7. Looks(D, V, rank, G)
  <2> SUFFICES ASSUME NEW n \in D, NEW g \in [D -> V], NEW h \in [D -> V],
                      \A m \in D : rank[m] < rank[n] => g[m] = h[m]
               PROVE  G[<<n, g>>] = G[<<n, h>>]
    BY DEF Looks
  <2>1. tree.parent[n] # Null => g[tree.parent[n]] = h[tree.parent[n]]
    BY <1>2, <1>3
  <2>2. body(n, g) = body(n, h)
    BY <2>1
  <2> HIDE DEF body
  <2> QED BY <1>6, <2>2
<1>8. <<>> \in V
  BY DEF V
<1>9. PICK f \in [D -> V] : \A n \in D : f[n] = G[<<n, f>>]
  <2>1. Solvable(D, V, G)
    BY <1>1, <1>2, <1>5, <1>7, <1>8, Recursion
  <2> QED BY <2>1 DEF Solvable
<1>10. IsOnwards(tree, X, f)
  <2>1. \A n \in D : f[n] = body(n, f)
    <3> HIDE DEF body
    <3> QED BY <1>6, <1>9
  <2> QED BY <1>9, <2>1 DEF IsOnwards, D, V
<1> QED BY <1>10 DEF Onwards

LEMMA Assoc ==
  ASSUME NEW a \in Seq(Nat), NEW b \in Seq(Nat), NEW c \in Seq(Nat)
  PROVE  /\ (a \o b) \o c = a \o (b \o c)
         /\ a \o b \in Seq(Nat) /\ b \o c \in Seq(Nat)
         /\ <<>> \o a = a /\ a \o <<>> = a
BY ConcatAssociative, ConcatEmptySeq, ConcatProperties

\* Concatenation under a name, for the provers to handle as a symbol.
Cat(a, b) == a \o b

LEMMA CatIs ==
  \A a, b, c \in Seq(Nat) :
    /\ Cat(a, b) \in Seq(Nat) /\ Cat(Cat(a, b), c) = Cat(a, Cat(b, c))
    /\ Cat(<<>>, a) = a /\ Cat(a, <<>>) = a
BY Assoc DEF Cat

LEMMA Regroup ==
  ASSUME NEW d \in Seq(Nat), NEW a \in Seq(Nat), NEW b \in Seq(Nat), NEW c \in Seq(Nat)
  PROVE  /\ Cat(Cat(a, b), c) = Cat(a, Cat(b, c)) /\ Cat(Cat(a, b), c) \in Seq(Nat)
         /\ Cat(Cat(Cat(d, a), b), c) = Cat(d, Cat(Cat(a, b), c))
<1> DEFINE ab == Cat(a, b)
<1>1. ab \in Seq(Nat) /\ Cat(Cat(d, a), b) = Cat(d, ab) /\ Cat(ab, c) = Cat(a, Cat(b, c))
  BY CatIs
<1> HIDE DEF ab
<1>2. Cat(ab, c) \in Seq(Nat) /\ Cat(Cat(d, ab), c) = Cat(d, Cat(ab, c))
  BY <1>1, CatIs
<1> QED BY <1>1, <1>2 DEF ab

LEMMA RegroupRight ==
  ASSUME NEW d \in Seq(Nat), NEW a \in Seq(Nat), NEW b \in Seq(Nat), NEW c \in Seq(Nat)
  PROVE  /\ Cat(d, Cat(a, Cat(b, c))) = Cat(Cat(d, Cat(a, b)), c)
         /\ Cat(d, Cat(a, b)) \in Seq(Nat)
BY Regroup, CatIs

\* Going up by the parent pointers as long as next does.
LEMMA ClimbExists ==
  ASSUME NEW tree, Shaped(tree), NEW next, NEW ends \in [Reachable(tree) -> Place],
         next \in [Reachable(tree) -> Reachable(tree) \cup {Null}],
         \A n \in Reachable(tree) : next[n] # Null => next[n] = tree.parent[n]
  PROVE  \E f \in [Reachable(tree) -> Place] : Follows(Reachable(tree), ends, next, f)
<1> DEFINE D == Reachable(tree)
<1>1. PICK top \in Nat : \E rank \in [D -> 0 .. top] :
        \A n \in D : tree.parent[n] # Null => rank[tree.parent[n]] < rank[n]
  BY UpRanked
<1>2. PICK rank \in [D -> 0 .. top] :
        \A n \in D : tree.parent[n] # Null => rank[tree.parent[n]] < rank[n]
  BY <1>1
<1>3. \A n \in D : next[n] # Null => rank[next[n]] < rank[n]
  BY <1>2
<1>4. D \in SUBSET Node
  BY ReachableIs
<1> QED BY <1>1, <1>2, <1>3, <1>4, FollowRecursion

\* Of any nodes of the tree, one has its parent not among them.
LEMMA TopmostOf ==
  ASSUME NEW tree, Shaped(tree), NEW B \in SUBSET Reachable(tree), B # {}
  PROVE  \E n \in B : tree.parent[n] \notin B
<1>1. B \in SUBSET Node /\ Typed(tree) /\ Acyclic(tree)
  BY ReachableIs DEF Shaped
<1>2. PICK n \in B : \A m \in B : n # tree.left[m] /\ n # tree.right[m]
  BY <1>1, HighestOf
<1>3. ASSUME tree.parent[n] \in B PROVE FALSE
  <2>1. tree.parent[n] # Null
    BY <1>1, <1>3, NullIs
  <2> QED BY <1>2, <1>3, <2>1, ParentIs
<1> QED BY <1>2, <1>3

\* The children of a node, seen from below.
LEMMA ChildIs ==
  ASSUME NEW tree, Shaped(tree), NEW n \in Reachable(tree)
  PROVE  /\ tree.left[n] # Null => /\ tree.left[n] \in Reachable(tree)
                                   /\ tree.parent[tree.left[n]] = n
                                   /\ tree.left[n] # tree.right[n]
         /\ tree.right[n] # Null => /\ tree.right[n] \in Reachable(tree)
                                    /\ tree.parent[tree.right[n]] = n
                                    /\ tree.right[n] # tree.left[n]
         /\ n # Null
<1>1. Linked(tree) /\ n \in tree.live /\ Closed(tree, Reachable(tree)) /\ n # Null
  BY ReachableIs, NullIs DEF Shaped
<1> QED BY <1>1 DEF Linked, Closed

\* What is left of a preorder walk at a node.
PreGap(tree) ==
  [n \in Reachable(tree) |->
     IF tree.parent[n] # Null /\ n = tree.left[tree.parent[n]]
     THEN PreWalk(tree)[tree.right[tree.parent[n]]] ELSE <<>>]
PreRest(tree, n) ==
  (PreWalk(tree)[tree.left[n]] \o PreWalk(tree)[tree.right[n]]) \o Onwards(tree, PreGap(tree))[n]

\* NextPreOrder() comes to the next of them.
LEMMA PreNext ==
  ASSUME NEW tree, Shaped(tree), NEW n \in Reachable(tree)
  PROVE  LET next == NextPreOrder(tree, n)
         IN  /\ next \in Reachable(tree) \cup {Null}
             /\ PreRest(tree, n) \in Seq(Nat)
             /\ PreRest(tree, n) = IF next = Null THEN <<>>
                                   ELSE <<tree.data[next]>> \o PreRest(tree, next)
<1> DEFINE R == Reachable(tree)
           w == PreWalk(tree)
           after == Onwards(tree, PreGap(tree))
           body(m, a) == LET p == tree.parent[m]
                         IN  IF p = Null THEN Null
                             ELSE IF tree.right[p] \in {m, Null} THEN a[p] ELSE tree.right[p]
           IsIt(a) == a = [m \in R |-> body(m, a)]
           up == CHOOSE a : IsIt(a)
<1>1. Typed(tree) /\ Acyclic(tree) /\ R \subseteq Node
  BY ReachableIs DEF Shaped
<1>2. /\ w \in [Place -> Seq(Nat)] /\ w[Null] = <<>>
      /\ \A m \in Node : w[m] = <<tree.data[m]>> \o w[tree.left[m]] \o w[tree.right[m]]
  BY <1>1, PreWalkIs
<1>3. ASSUME NEW m \in R
      PROVE  /\ tree.left[m] \in Place /\ tree.right[m] \in Place /\ <<tree.data[m]>> \in Seq(Nat)
             /\ w[tree.left[m]] \in Seq(Nat) /\ w[tree.right[m]] \in Seq(Nat)
  BY <1>1, <1>2, DataTyped
<1>4. PreGap(tree) \in [R -> Seq(Nat)]
  <2>1. ASSUME NEW m \in R, tree.parent[m] # Null
        PROVE w[tree.right[tree.parent[m]]] \in Seq(Nat)
    BY <1>3, <2>1, ParentIs
  <2>2. <<>> \in Seq(Nat)
    OBVIOUS
  <2> QED BY <2>1, <2>2 DEF PreGap
<1>5. /\ after \in [R -> Seq(Nat)]
      /\ \A m \in R : after[m] = IF tree.parent[m] = Null THEN <<>>
                                 ELSE PreGap(tree)[m] \o after[tree.parent[m]]
  BY <1>4, OnwardsIs DEF IsOnwards
<1>6. ASSUME NEW m \in R, tree.parent[m] # Null
      PROVE  LET p == tree.parent[m]
             IN  after[m] = IF m = tree.left[p] THEN w[tree.right[p]] \o after[p] ELSE after[p]
  <2> DEFINE p == tree.parent[m]
  <2>1. p \in R /\ after[p] \in Seq(Nat) /\ <<>> \o after[p] = after[p]
    <3>1. p \in R /\ after[p] \in Seq(Nat)
      BY <1>5, <1>6, ParentIs
    <3> QED BY <3>1, Assoc
  <2>2. PreGap(tree)[m] = IF m = tree.left[p] THEN w[tree.right[p]] ELSE <<>>
    BY <1>6 DEF PreGap
  <2> HIDE DEF w
  <2> QED BY <1>5, <1>6, <2>1, <2>2
<1>7. ASSUME NEW m \in R, tree.parent[m] = Null PROVE after[m] = <<>>
  BY <1>5, <1>7
<1> HIDE DEF w, after
<1>8. \E a : IsIt(a)
  <2> DEFINE next == [m \in R |->
                        IF tree.parent[m] # Null /\ tree.right[tree.parent[m]] \in {m, Null}
                        THEN tree.parent[m] ELSE Null]
             ends == [m \in R |->
                        IF tree.parent[m] = Null THEN Null ELSE tree.right[tree.parent[m]]]
  <2>1. next \in [R -> R \cup {Null}] /\ \A m \in R : next[m] # Null => next[m] = tree.parent[m]
    BY ParentIs
  <2>2. ends \in [R -> Place]
    BY <1>3, ParentIs, NullIs
  <2>3. PICK f \in [R -> Place] : Follows(R, ends, next, f)
    <3> HIDE DEF next, ends
    <3> QED BY <2>1, <2>2, ClimbExists
  <2>4. \A m \in R : f[m] = body(m, f)
    BY <2>3 DEF Follows
  <2>5. IsIt(f)
    <3>1. f = [m \in R |-> f[m]]
      BY <2>3
    <3> HIDE DEF body, R
    <3> QED BY <2>4, <3>1
  <2> QED BY <2>5
<1>9. IsIt(up)
  <2> HIDE DEF IsIt
  <2> QED BY <1>8
<1>10. NextPreOrder(tree, n) = IF tree.left[n] # Null THEN tree.left[n]
                               ELSE IF tree.right[n] # Null THEN tree.right[n] ELSE up[n]
  BY DEF NextPreOrder
<1> HIDE DEF up
<1>11. \A m \in R : up[m] = body(m, up)
  <2> HIDE DEF body, R
  <2> QED BY <1>9
<1> DEFINE rest(m) == (w[tree.left[m]] \o w[tree.right[m]]) \o after[m]
           good(m) == /\ up[m] \in R \cup {Null}
                      /\ after[m] = IF up[m] = Null THEN <<>>
                                    ELSE <<tree.data[up[m]]>> \o rest(up[m])
<1>12. ASSUME NEW m \in R
       PROVE  /\ rest(m) \in Seq(Nat)
              /\ w[m] \o after[m] = <<tree.data[m]>> \o rest(m)
              /\ rest(m) = w[tree.left[m]] \o (w[tree.right[m]] \o after[m])
  <2> DEFINE d == <<tree.data[m]>>
             a == w[tree.left[m]]
             b == w[tree.right[m]]
             c == after[m]
  <2>1. d \in Seq(Nat) /\ a \in Seq(Nat) /\ b \in Seq(Nat) /\ c \in Seq(Nat) /\ w[m] = (d \o a) \o b
    <3>1. m \in Node
      BY <1>1
    <3> QED BY <1>2, <1>3, <1>5, <3>1
  <2> HIDE DEF d, a, b, c
  <2>2. /\ Cat(Cat(a, b), c) = Cat(a, Cat(b, c)) /\ Cat(Cat(a, b), c) \in Seq(Nat)
        /\ Cat(Cat(Cat(d, a), b), c) = Cat(d, Cat(Cat(a, b), c))
    BY <2>1, Regroup
  <2>3. /\ rest(m) = Cat(Cat(a, b), c) /\ w[m] \o after[m] = Cat(Cat(Cat(d, a), b), c)
        /\ <<tree.data[m]>> \o rest(m) = Cat(d, Cat(Cat(a, b), c))
        /\ w[tree.left[m]] \o (w[tree.right[m]] \o after[m]) = Cat(a, Cat(b, c))
    BY <2>1 DEF Cat, d, a, b, c
  <2> HIDE DEF rest, w, after
  <2> QED BY <2>2, <2>3
<1>13. \A m \in R : good(m)
  <2> DEFINE B == {m \in R : ~good(m)}
  <2> SUFFICES ASSUME B # {} PROVE FALSE
    OBVIOUS
  <2>1. PICK m \in B : tree.parent[m] \notin B
    <3>1. B \in SUBSET Reachable(tree)
      OBVIOUS
    <3> HIDE DEF B
    <3> QED BY <3>1, TopmostOf
  <2>2. m \in R /\ ~good(m)
    BY <2>1
  <2> DEFINE p == tree.parent[m]
  <2>3. CASE p = Null
    <3>1. up[m] = Null /\ after[m] = <<>>
      BY <1>7, <1>11, <2>2, <2>3
    <3> QED BY <2>2, <3>1
  <2>4. CASE p # Null
    <3>1. p \in R /\ (m = tree.left[p] \/ m = tree.right[p])
          /\ ~(m = tree.left[p] /\ m = tree.right[p])
      BY <2>2, <2>4, ParentIs
    <3>2. good(p)
      BY <2>1, <3>1
    <3> HIDE DEF B, good
    <3>3. after[m] = IF m = tree.left[p] THEN w[tree.right[p]] \o after[p] ELSE after[p]
      BY <1>6, <2>2, <2>4
    <3>4. up[m] = IF tree.right[p] \in {m, Null} THEN up[p] ELSE tree.right[p]
      BY <1>11, <2>2, <2>4
    <3>5. CASE tree.right[p] \in {m, Null}
      <4>1. after[m] = after[p]
        <5>1. CASE m = tree.left[p]
          <6>1. tree.right[p] = Null
            BY <3>1, <3>5, <5>1
          <6>2. <<>> \o after[p] = after[p]
            BY <1>5, <3>1, Assoc
          <6> QED BY <1>2, <3>3, <5>1, <6>1, <6>2
        <5>2. CASE m # tree.left[p]
          BY <3>3, <5>2
        <5> QED BY <5>1, <5>2
      <4>2. up[m] = up[p]
        BY <3>4, <3>5
      <4> QED BY <2>2, <3>2, <4>1, <4>2 DEF good
    <3>6. CASE tree.right[p] \notin {m, Null}
      <4> DEFINE c == tree.right[p]
      <4>1. m = tree.left[p] /\ up[m] = c /\ after[m] = w[c] \o after[p]
        BY <3>1, <3>3, <3>4, <3>6
      <4>2. c \in R /\ tree.parent[c] = p /\ c # tree.left[p] /\ c # Null
        BY <3>1, <3>6, ChildIs
      <4>3. after[c] = after[p]
        BY <1>6, <2>4, <4>2
      <4>4. after[m] = <<tree.data[c]>> \o rest(c)
        BY <1>12, <4>1, <4>2, <4>3
      <4> QED BY <2>2, <4>1, <4>2, <4>4 DEF good
    <3> QED BY <3>5, <3>6
  <2> QED BY <2>3, <2>4
<1> DEFINE next == NextPreOrder(tree, n)
<1>14. next \in R \cup {Null}
       /\ rest(n) = IF next = Null THEN <<>> ELSE <<tree.data[next]>> \o rest(next)
  <2>1. CASE tree.left[n] # Null
    <3> DEFINE l == tree.left[n]
    <3>1. next = l /\ l \in R /\ tree.parent[l] = n /\ n # Null
      BY <1>10, <2>1, ChildIs
    <3>2. after[l] = w[tree.right[n]] \o after[n]
      BY <1>6, <3>1
    <3>3. rest(n) = w[l] \o after[l]
      BY <1>12, <3>2
    <3>4. w[l] \o after[l] = <<tree.data[l]>> \o rest(l)
      BY <1>12, <3>1
    <3> QED BY <2>1, <3>1, <3>3, <3>4
  <2>2. CASE tree.left[n] = Null /\ tree.right[n] # Null
    <3> DEFINE r == tree.right[n]
    <3>1. next = r /\ r \in R /\ tree.parent[r] = n /\ r # tree.left[n] /\ n # Null
      BY <1>10, <2>2, ChildIs
    <3>2. after[r] = after[n]
      BY <1>6, <3>1
    <3>3. w[r] \o after[r] = <<tree.data[r]>> \o rest(r)
      BY <1>12, <3>1
    <3>4. rest(n) = <<>> \o (w[r] \o after[n]) /\ w[r] \in Seq(Nat) /\ after[n] \in Seq(Nat)
      BY <1>2, <1>3, <1>5, <1>12, <2>2
    <3>5. rest(n) = w[r] \o after[n]
      BY <3>4, Assoc
    <3> QED BY <2>2, <3>1, <3>2, <3>3, <3>5
  <2>3. CASE tree.left[n] = Null /\ tree.right[n] = Null
    <3>1. next = up[n] /\ good(n)
      BY <1>10, <1>13, <2>3
    <3>2. rest(n) = <<>> \o (<<>> \o after[n]) /\ after[n] \in Seq(Nat)
      BY <1>2, <1>5, <1>12, <2>3
    <3>3. rest(n) = after[n]
      BY <3>2, Assoc
    <3> QED BY <3>1, <3>3
  <2> QED BY <2>1, <2>2, <2>3
<1>15. rest(n) \in Seq(Nat)
  BY <1>12
<1>16. \A m : rest(m) = PreRest(tree, m)
  BY DEF PreRest, w, after
<1> HIDE DEF rest
<1> QED BY <1>14, <1>15, <1>16
\* Down the left sides, the code comes to a node that has no left child.
LEMMA DescendLeftIs ==
  ASSUME NEW tree, Shaped(tree), NEW x \in Reachable(tree)
  PROVE  /\ DescendLeft(tree, x) \in Reachable(tree)
         /\ tree.left[x] = Null => DescendLeft(tree, x) = x
         /\ tree.left[x] # Null => DescendLeft(tree, x) = DescendLeft(tree, tree.left[x])
<1> DEFINE IsIt(a) == a = [m \in Node |-> IF tree.left[m] = Null THEN m ELSE a[tree.left[m]]]
           f == CHOOSE a : IsIt(a)
<1>1. Typed(tree) /\ Acyclic(tree) /\ Reachable(tree) \subseteq Node /\ x \in Node
  BY ReachableIs DEF Shaped
<1>2. Descends(tree, tree.left)
  BY <1>1 DEF Descends, Typed, Place
<1>3. \E a : IsIt(a)
  <2>1. PICK a \in [Node -> Node] :
          \A n \in Node : a[n] = IF tree.left[n] = Null THEN n ELSE a[tree.left[n]]
    BY <1>1, <1>2, DescentExists
  <2>2. IsIt(a)
    BY <2>1
  <2> QED BY <2>2
<1>4. IsIt(f)
  <2> HIDE DEF IsIt
  <2> QED BY <1>3
<1>5. \A n \in Node : f[n] = IF tree.left[n] = Null THEN n ELSE f[tree.left[n]]
  BY <1>4
<1>6. \A m : DescendLeft(tree, m) = f[m]
  BY DEF DescendLeft
<1> HIDE DEF f
<1>7. f[x] \in Below(tree)[x]
  BY <1>1, <1>2, <1>5, DescentEnds
<1>8. f[x] \in Reachable(tree)
  BY <1>7, ReachableIs
<1>9. f[x] = IF tree.left[x] = Null THEN x ELSE f[tree.left[x]]
  BY <1>1, <1>5
<1> QED BY <1>6, <1>8, <1>9

\* What is left of an inorder walk at a node.
InGap(tree) ==
  [n \in Reachable(tree) |->
     IF tree.parent[n] # Null /\ n = tree.left[tree.parent[n]]
     THEN <<tree.data[tree.parent[n]]>> \o InWalk(tree)[tree.right[tree.parent[n]]] ELSE <<>>]
InAfter(tree) == Onwards(tree, InGap(tree))
InRest(tree, n) == InWalk(tree)[tree.right[n]] \o InAfter(tree)[n]

LEMMA InAfterIs ==
  ASSUME NEW tree, Shaped(tree), NEW n \in Reachable(tree)
  PROVE  /\ <<tree.data[n]>> \in Seq(Nat) /\ InAfter(tree)[n] \in Seq(Nat)
         /\ InWalk(tree)[tree.left[n]] \in Seq(Nat) /\ InWalk(tree)[tree.right[n]] \in Seq(Nat)
         /\ InWalk(tree)[n] = InWalk(tree)[tree.left[n]] \o <<tree.data[n]>>
                              \o InWalk(tree)[tree.right[n]]
         /\ InWalk(tree)[Null] = <<>>
         /\ tree.parent[n] = Null => InAfter(tree)[n] = <<>>
         /\ tree.left[n] # Null => InAfter(tree)[tree.left[n]] =
              (<<tree.data[n]>> \o InWalk(tree)[tree.right[n]]) \o InAfter(tree)[n]
         /\ tree.right[n] # Null => InAfter(tree)[tree.right[n]] = InAfter(tree)[n]
<1> DEFINE R == Reachable(tree)
           w == InWalk(tree)
           gap == InGap(tree)
           after == InAfter(tree)
<1>1. Typed(tree) /\ Acyclic(tree) /\ R \subseteq Node
  BY ReachableIs DEF Shaped
<1>2. /\ w \in [Place -> Seq(Nat)] /\ w[Null] = <<>>
      /\ \A m \in Node : w[m] = w[tree.left[m]] \o <<tree.data[m]>> \o w[tree.right[m]]
  BY <1>1, InWalkIs
<1>3. ASSUME NEW m \in R
      PROVE  /\ <<tree.data[m]>> \in Seq(Nat)
             /\ w[tree.left[m]] \in Seq(Nat) /\ w[tree.right[m]] \in Seq(Nat)
  BY <1>1, <1>2, DataTyped
<1>4. gap \in [R -> Seq(Nat)]
  <2>1. ASSUME NEW m \in R, tree.parent[m] # Null
        PROVE <<tree.data[tree.parent[m]]>> \o w[tree.right[tree.parent[m]]] \in Seq(Nat)
    <3>1. tree.parent[m] \in R
      BY <2>1, ParentIs
    <3>2. <<tree.data[tree.parent[m]]>> \in Seq(Nat) /\ w[tree.right[tree.parent[m]]] \in Seq(Nat)
      BY <1>3, <3>1
    <3> HIDE DEF w
    <3> QED BY <3>2, Assoc
  <2>2. <<>> \in Seq(Nat)
    OBVIOUS
  <2> QED BY <2>1, <2>2 DEF InGap
<1>5. /\ after \in [R -> Seq(Nat)]
      /\ \A m \in R : after[m] = IF tree.parent[m] = Null THEN <<>>
                                 ELSE gap[m] \o after[tree.parent[m]]
  BY <1>4, OnwardsIs DEF IsOnwards, InAfter
<1>6. ASSUME tree.left[n] # Null
      PROVE  after[tree.left[n]] = (<<tree.data[n]>> \o w[tree.right[n]]) \o after[n]
  <2> DEFINE l == tree.left[n]
  <2>1. l \in R /\ tree.parent[l] = n /\ n # Null
    BY <1>6, ChildIs
  <2>2. gap[l] = <<tree.data[n]>> \o w[tree.right[n]]
    BY <2>1 DEF InGap
  <2> HIDE DEF w, gap, after, l
  <2>3. after[l] = gap[l] \o after[n]
    BY <1>5, <2>1
  <2> QED BY <2>2, <2>3 DEF l
<1>7. ASSUME tree.right[n] # Null PROVE after[tree.right[n]] = after[n]
  <2> DEFINE r == tree.right[n]
  <2>1. r \in R /\ tree.parent[r] = n /\ n # Null /\ r # tree.left[n]
    BY <1>7, ChildIs
  <2>2. gap[r] = <<>>
    BY <2>1 DEF InGap
  <2>3. after[n] \in Seq(Nat)
    BY <1>5
  <2> HIDE DEF w, gap, after, r
  <2>4. after[r] = <<>> \o after[n] /\ <<>> \o after[n] = after[n]
    BY <1>5, <2>1, <2>2, <2>3, Assoc
  <2> QED BY <2>4 DEF r
<1>8. after[n] \in Seq(Nat) /\ (tree.parent[n] = Null => after[n] = <<>>)
  BY <1>5
<1>9. w[n] = w[tree.left[n]] \o <<tree.data[n]>> \o w[tree.right[n]]
  BY <1>1, <1>2
<1> HIDE DEF w, after
<1>10. /\ <<tree.data[n]>> \in Seq(Nat)
       /\ w[tree.left[n]] \in Seq(Nat) /\ w[tree.right[n]] \in Seq(Nat) /\ w[Null] = <<>>
  BY <1>2, <1>3
<1> QED BY <1>6, <1>7, <1>8, <1>9, <1>10 DEF w, after

LEMMA InAfterLeft ==
  ASSUME NEW tree, Shaped(tree), NEW n \in Reachable(tree), tree.left[n] # Null
  PROVE  InAfter(tree)[tree.left[n]] =
           (<<tree.data[n]>> \o InWalk(tree)[tree.right[n]]) \o InAfter(tree)[n]
BY InAfterIs

LEMMA InAfterRight ==
  ASSUME NEW tree, Shaped(tree), NEW n \in Reachable(tree), tree.right[n] # Null
  PROVE  InAfter(tree)[tree.right[n]] = InAfter(tree)[n]
BY InAfterIs

\* DescendLeft() comes to what an inorder walk visits first.
LEMMA InFirst ==
  ASSUME NEW tree, Shaped(tree), NEW x \in Reachable(tree)
  PROVE  LET d == DescendLeft(tree, x)
         IN  /\ d \in Reachable(tree) /\ InRest(tree, d) \in Seq(Nat)
             /\ InWalk(tree)[x] \o InAfter(tree)[x] = <<tree.data[d]>> \o InRest(tree, d)
<1> DEFINE R == Reachable(tree)
           w == InWalk(tree)
           after == InAfter(tree)
           first(n) == DescendLeft(tree, n)
           rest(n) == InRest(tree, n)
           good(n) == w[n] \o after[n] = <<tree.data[first(n)]>> \o rest(first(n))
           B == {n \in R : ~good(n)}
<1>1. Typed(tree) /\ Acyclic(tree) /\ R \subseteq Node
  BY ReachableIs DEF Shaped
<1>2. ASSUME NEW n \in R
      PROVE  /\ first(n) \in R
             /\ tree.left[n] = Null => first(n) = n
             /\ tree.left[n] # Null => first(n) = first(tree.left[n])
  BY DescendLeftIs
<1>3. ASSUME NEW n \in R
      PROVE  /\ rest(n) \in Seq(Nat) /\ rest(n) = w[tree.right[n]] \o after[n]
             /\ w[n] \o after[n] =
                  w[tree.left[n]] \o ((<<tree.data[n]>> \o w[tree.right[n]]) \o after[n])
             /\ (<<tree.data[n]>> \o w[tree.right[n]]) \o after[n] = <<tree.data[n]>> \o rest(n)
  <2> DEFINE a == w[tree.left[n]]
             b == <<tree.data[n]>>
             c == w[tree.right[n]]
             d == after[n]
  <2>1. a \in Seq(Nat) /\ b \in Seq(Nat) /\ c \in Seq(Nat) /\ d \in Seq(Nat)
        /\ w[n] = (a \o b) \o c
    BY InAfterIs
  <2>2. rest(n) = c \o d
    BY DEF InRest
  <2> HIDE DEF a, b, c, d, w, rest
  <2>4. a \in Seq(Nat) /\ b \in Seq(Nat) /\ c \in Seq(Nat) /\ d \in Seq(Nat)
    BY <2>1
  <2>3. Cat(Cat(Cat(a, b), c), d) = Cat(a, Cat(Cat(b, c), d))
    BY <2>4, CatIs
  <2>5. Cat(Cat(b, c), d) = Cat(b, Cat(c, d))
    BY <2>4, CatIs
  <2>6. Cat(c, d) \in Seq(Nat)
    BY <2>4, CatIs
  <2> QED BY <2>1, <2>2, <2>3, <2>5, <2>6 DEF Cat, a, b, c, d
<1>4. B = {}
  <2> SUFFICES ASSUME B # {} PROVE FALSE
    OBVIOUS
  <2>1. PICK n \in B : tree.left[n] \notin B /\ tree.right[n] \notin B
    <3>1. B \in SUBSET Node
      BY <1>1
    <3> HIDE DEF B
    <3> QED BY <1>1, <3>1, LowestOf
  <2>2. n \in R /\ ~good(n)
    BY <2>1
  <2>3. CASE tree.left[n] = Null
    <3> DEFINE s == <<tree.data[n]>> \o rest(n)
    <3>1. s \in Seq(Nat)
      <4>1. <<tree.data[n]>> \in Seq(Nat) /\ rest(n) \in Seq(Nat)
        BY <1>3, <2>2, InAfterIs
      <4> HIDE DEF rest
      <4> QED BY <4>1, Assoc
    <3>2. w[Null] = <<>>
      BY <2>2, InAfterIs
    <3> HIDE DEF w, after, rest, first
    <3>3. w[n] \o after[n] = <<>> \o s
      BY <1>3, <2>2, <2>3, <3>2
    <3> HIDE DEF s
    <3>4. w[n] \o after[n] = s
      BY <3>1, <3>3, Assoc
    <3>5. first(n) = n
      BY <1>2, <2>2, <2>3
    <3> QED BY <2>2, <3>4, <3>5 DEF s
  <2>4. CASE tree.left[n] # Null
    <3> DEFINE l == tree.left[n]
    <3>1. l \in R
      BY <2>2, <2>4, ChildIs
    <3>2. good(l) /\ first(n) = first(l)
      BY <1>2, <2>1, <2>2, <2>4, <3>1
    <3>3. after[l] = (<<tree.data[n]>> \o w[tree.right[n]]) \o after[n]
      BY <2>2, <2>4, InAfterIs
    <3> HIDE DEF w, after, rest, first
    <3>4. w[n] \o after[n] = w[l] \o after[l]
      BY <1>3, <2>2, <3>3
    <3> QED BY <2>2, <3>2, <3>4
  <2> QED BY <2>3, <2>4
<1>5. good(x) /\ first(x) \in R
  BY <1>2, <1>4
<1>6. rest(first(x)) \in Seq(Nat)
  BY <1>3, <1>5
<1> QED BY <1>5, <1>6
\* NextInOrder() comes to the next that an inorder walk visits.
LEMMA InNext ==
  ASSUME NEW tree, Shaped(tree), NEW n \in Reachable(tree)
  PROVE  LET next == NextInOrder(tree, n)
         IN  /\ next \in Reachable(tree) \cup {Null}
             /\ InRest(tree, n) = IF next = Null THEN <<>>
                                  ELSE <<tree.data[next]>> \o InRest(tree, next)
<1> DEFINE R == Reachable(tree)
           w == InWalk(tree)
           after == InAfter(tree)
           rest(m) == InRest(tree, m)
           body(m, a) == LET p == tree.parent[m]
                         IN  IF p = Null \/ tree.left[p] = m THEN p ELSE a[p]
           IsIt(a) == a = [m \in R |-> body(m, a)]
           up == CHOOSE a : IsIt(a)
<1>1. R \subseteq Node
  BY ReachableIs
<1>2. \E a : IsIt(a)
  <2> DEFINE next == [m \in R |-> IF tree.parent[m] # Null /\ tree.left[tree.parent[m]] # m
                                  THEN tree.parent[m] ELSE Null]
             ends == [m \in R |-> tree.parent[m]]
  <2>1. next \in [R -> R \cup {Null}] /\ \A m \in R : next[m] # Null => next[m] = tree.parent[m]
    BY ParentIs
  <2>2. ends \in [R -> Place]
    BY <1>1, ParentIs, NullIs DEF Place
  <2>3. PICK f \in [R -> Place] : Follows(R, ends, next, f)
    <3> HIDE DEF next, ends
    <3> QED BY <2>1, <2>2, ClimbExists
  <2>4. \A m \in R : f[m] = body(m, f)
    BY <2>3 DEF Follows
  <2>5. IsIt(f)
    <3>1. f = [m \in R |-> f[m]]
      BY <2>3
    <3> HIDE DEF body, R
    <3> QED BY <2>4, <3>1
  <2> QED BY <2>5
<1>3. IsIt(up)
  <2> HIDE DEF IsIt
  <2> QED BY <1>2
<1>4. NextInOrder(tree, n) = IF tree.right[n] # Null THEN DescendLeft(tree, tree.right[n])
                             ELSE up[n]
  BY DEF NextInOrder
<1> HIDE DEF up
<1>5. \A m \in R : up[m] = body(m, up)
  <2> HIDE DEF body, R
  <2> QED BY <1>3
<1> DEFINE good(m) == /\ up[m] \in R \cup {Null}
                      /\ after[m] = IF up[m] = Null THEN <<>>
                                    ELSE <<tree.data[up[m]]>> \o rest(up[m])
           B == {m \in R : ~good(m)}
<1>6. B = {}
  <2> SUFFICES ASSUME B # {} PROVE FALSE
    OBVIOUS
  <2>1. PICK m \in B : tree.parent[m] \notin B
    <3>1. B \in SUBSET Reachable(tree)
      OBVIOUS
    <3> HIDE DEF B
    <3> QED BY <3>1, TopmostOf
  <2>2. m \in R /\ ~good(m)
    BY <2>1
  <2> DEFINE p == tree.parent[m]
  <2>3. CASE p = Null
    <3>1. up[m] = Null /\ after[m] = <<>>
      BY <1>5, <2>2, <2>3, InAfterIs
    <3> QED BY <2>2, <3>1
  <2>4. CASE p # Null
    <3>1. p \in R /\ m # Null /\ (m = tree.left[p] \/ m = tree.right[p])
      BY <1>1, <2>2, <2>4, ParentIs, NullIs
    <3>2. CASE m = tree.left[p]
      <4>1. up[m] = p
        BY <1>5, <2>2, <3>2
      <4>2. after[m] = (<<tree.data[p]>> \o w[tree.right[p]]) \o after[p]
        BY <3>1, <3>2, InAfterLeft
      <4>3. <<tree.data[p]>> \in Seq(Nat) /\ w[tree.right[p]] \in Seq(Nat) /\ after[p] \in Seq(Nat)
        BY <3>1, InAfterIs
      <4>4. rest(p) = w[tree.right[p]] \o after[p]
        BY DEF InRest
      <4> HIDE DEF w, after, rest
      <4> DEFINE b == <<tree.data[p]>>
                 c == w[tree.right[p]]
                 d == after[p]
      <4>6. Cat(Cat(b, c), d) = Cat(b, Cat(c, d))
        <5>1. b \in Seq(Nat) /\ c \in Seq(Nat) /\ d \in Seq(Nat)
          BY <4>3
        <5> HIDE DEF b, c, d
        <5> QED BY <5>1, CatIs
      <4>5. after[m] = <<tree.data[p]>> \o rest(p)
        BY <4>2, <4>4, <4>6 DEF Cat
      <4> QED BY <2>2, <2>4, <3>1, <4>1, <4>5
    <3>3. CASE m # tree.left[p]
      <4>1. up[m] = up[p]
        BY <1>5, <2>2, <2>4, <3>3
      <4>4. m = tree.right[p] /\ m # Null
        BY <3>1, <3>3
      <4>2. after[m] = after[p]
        BY <3>1, <4>4, InAfterRight
      <4>3. good(p)
        BY <2>1, <3>1
      <4> HIDE DEF after, rest
      <4> QED BY <2>2, <4>1, <4>2, <4>3
    <3> QED BY <3>2, <3>3
  <2> QED BY <2>3, <2>4
<1>7. good(n)
  BY <1>6
<1> DEFINE next == NextInOrder(tree, n)
<1>8. rest(n) = w[tree.right[n]] \o after[n] /\ w[Null] = <<>> /\ after[n] \in Seq(Nat)
  BY InAfterIs DEF InRest
<1>9. next \in R \cup {Null} /\ rest(n) = IF next = Null THEN <<>>
                                          ELSE <<tree.data[next]>> \o rest(next)
  <2>1. CASE tree.right[n] # Null
    <3> DEFINE r == tree.right[n]
    <3>1. r \in R
      BY <2>1, ChildIs
    <3>2. next = DescendLeft(tree, r)
      BY <1>4, <2>1
    <3>3. after[r] = after[n]
      BY <2>1, InAfterIs
    <3>4. /\ next \in R
          /\ w[r] \o after[r] = <<tree.data[next]>> \o rest(next)
      BY <3>1, <3>2, InFirst
    <3>5. next # Null
      BY <1>1, <3>4, NullIs
    <3> HIDE DEF w, after, rest, next
    <3> QED BY <1>8, <3>3, <3>4, <3>5
  <2>2. CASE tree.right[n] = Null
    <3>1. next = up[n]
      BY <1>4, <2>2
    <3> HIDE DEF w, after, rest
    <3>2. rest(n) = after[n]
      BY <1>8, <2>2, Assoc
    <3> QED BY <1>7, <3>1, <3>2
  <2> QED BY <2>1, <2>2
<1> HIDE DEF rest, next
<1> QED BY <1>9 DEF rest, next

\* Whatever the node, the inorder walk ends with it and what is left there.
LEMMA InSuffix ==
  ASSUME NEW tree, Shaped(tree), NEW n \in Reachable(tree)
  PROVE  \E done \in Seq(Nat) :
           InOrder(tree) = done \o (<<tree.data[n]>> \o InRest(tree, n))
<1> DEFINE R == Reachable(tree)
           w == InWalk(tree)
           after == InAfter(tree)
           all == InOrder(tree)
           good(m) == \E done \in Seq(Nat) : all = done \o (w[m] \o after[m])
           B == {m \in R : ~good(m)}
<1>1. all = w[tree.root]
  BY DEF InOrder, InWalk
<1>2. ASSUME NEW m \in R
      PROVE  w[m] \o after[m] =
               w[tree.left[m]] \o (<<tree.data[m]>> \o (w[tree.right[m]] \o after[m]))
  <2> DEFINE a == w[tree.left[m]]
             b == <<tree.data[m]>>
             c == w[tree.right[m]]
             d == after[m]
  <2>1. a \in Seq(Nat) /\ b \in Seq(Nat) /\ c \in Seq(Nat) /\ d \in Seq(Nat)
        /\ w[m] = (a \o b) \o c
    BY InAfterIs
  <2> HIDE DEF a, b, c, d, w
  <2>2. Cat(Cat(Cat(a, b), c), d) = Cat(a, Cat(b, Cat(c, d)))
    BY <2>1, CatIs
  <2> QED BY <2>1, <2>2 DEF Cat, a, b, c, d
<1>3. ASSUME NEW m \in R
      PROVE  /\ w[tree.left[m]] \in Seq(Nat) /\ <<tree.data[m]>> \in Seq(Nat)
             /\ w[tree.right[m]] \in Seq(Nat) /\ after[m] \in Seq(Nat)
             /\ w[tree.right[m]] \o after[m] \in Seq(Nat)
             /\ <<tree.data[m]>> \o (w[tree.right[m]] \o after[m]) \in Seq(Nat)
             /\ (<<tree.data[m]>> \o w[tree.right[m]]) \o after[m] =
                  <<tree.data[m]>> \o (w[tree.right[m]] \o after[m])
  <2> DEFINE b == <<tree.data[m]>>
             c == w[tree.right[m]]
             d == after[m]
             cd == c \o d
  <2>1. b \in Seq(Nat) /\ c \in Seq(Nat) /\ d \in Seq(Nat) /\ w[tree.left[m]] \in Seq(Nat)
    BY InAfterIs
  <2> HIDE DEF b, c, d
  <2>2. cd \in Seq(Nat) /\ (b \o c) \o d = b \o cd
    BY <2>1, Assoc
  <2> HIDE DEF cd
  <2>3. b \o cd \in Seq(Nat)
    BY <2>1, <2>2, Assoc
  <2> QED BY <2>1, <2>2, <2>3 DEF b, c, d, cd
<1>4. B = {}
  <2> SUFFICES ASSUME B # {} PROVE FALSE
    OBVIOUS
  <2>1. PICK m \in B : tree.parent[m] \notin B
    <3>1. B \in SUBSET Reachable(tree)
      OBVIOUS
    <3> HIDE DEF B
    <3> QED BY <3>1, TopmostOf
  <2>2. m \in R /\ ~good(m)
    BY <2>1
  <2> DEFINE p == tree.parent[m]
  <2>3. CASE p = Null
    <3>1. m = tree.root /\ after[m] = <<>>
      BY <2>2, <2>3, ParentIs, InAfterIs
    <3>2. all \in Seq(Nat)
      <4>1. Typed(tree) /\ Acyclic(tree) /\ tree.root \in Place
        BY ReachableIs DEF Shaped
      <4> QED BY <1>1, <4>1, InWalkIs
    <3> HIDE DEF w, after, all
    <3>3. all = <<>> \o (w[m] \o after[m])
      BY <1>1, <3>1, <3>2, Assoc
    <3>4. <<>> \in Seq(Nat)
      OBVIOUS
    <3>5. good(m)
      BY <3>3, <3>4
    <3> QED BY <2>2, <3>5
  <2>4. CASE p # Null
    <3>1. p \in R /\ m # Null /\ (m = tree.left[p] \/ m = tree.right[p])
      BY <2>2, <2>4, ParentIs, ReachableIs, NullIs
    <3>2. good(p)
      BY <2>1, <3>1
    <3>3. PICK done \in Seq(Nat) : all = done \o (w[p] \o after[p])
      BY <3>2
    <3>4. CASE m = tree.left[p]
      <4>1. after[m] = (<<tree.data[p]>> \o w[tree.right[p]]) \o after[p]
        BY <3>1, <3>4, InAfterLeft
      <4> HIDE DEF w, after, all
      <4>2. w[m] \o after[m] = w[p] \o after[p]
        <5>1. w[p] \o after[p] = w[m] \o (<<tree.data[p]>> \o (w[tree.right[p]] \o after[p]))
          BY <1>2, <3>1, <3>4
        <5>2. after[m] = <<tree.data[p]>> \o (w[tree.right[p]] \o after[p])
          BY <1>3, <3>1, <4>1
        <5> QED BY <5>1, <5>2
      <4>3. good(m)
        BY <3>3, <4>2
      <4> QED BY <2>2, <4>3
    <3>5. CASE m # tree.left[p]
      <4>7. m = tree.right[p] /\ m # Null
        BY <3>1, <3>5
      <4>1. after[m] = after[p] /\ m = tree.right[p]
        BY <3>1, <4>7, InAfterRight
      <4> HIDE DEF w, after, all
      <4> DEFINE a == w[tree.left[p]]
                 b == <<tree.data[p]>>
                 c == w[m] \o after[m]
      <4>2. a \in Seq(Nat) /\ b \in Seq(Nat) /\ c \in Seq(Nat)
            /\ w[p] \o after[p] = a \o (b \o c)
        BY <1>2, <1>3, <3>1, <4>1
      <4> HIDE DEF a, b, c
      <4> DEFINE before == Cat(done, Cat(a, b))
      <4>3. Cat(done, Cat(a, Cat(b, c))) = Cat(before, c) /\ before \in Seq(Nat)
        <5>1. a \in Seq(Nat) /\ b \in Seq(Nat) /\ c \in Seq(Nat)
          BY <4>2
        <5> QED BY <5>1, RegroupRight
      <4> HIDE DEF before
      <4>4. all = Cat(done, Cat(a, Cat(b, c)))
        BY <3>3, <4>2 DEF Cat
      <4>5. all = before \o c
        BY <4>3, <4>4 DEF Cat
      <4>6. good(m)
        BY <4>3, <4>5 DEF c
      <4> QED BY <2>2, <4>6
    <3> QED BY <3>4, <3>5
  <2> QED BY <2>3, <2>4
<1>5. PICK done \in Seq(Nat) : all = done \o (w[n] \o after[n])
  BY <1>4
<1> DEFINE a == w[tree.left[n]]
           c == <<tree.data[n]>> \o (w[tree.right[n]] \o after[n])
<1>6. InRest(tree, n) = w[tree.right[n]] \o after[n]
  BY DEF InRest
<1> HIDE DEF w, after, all
<1>7. a \in Seq(Nat) /\ c \in Seq(Nat) /\ w[n] \o after[n] = a \o c
  BY <1>2, <1>3
<1>8. c = <<tree.data[n]>> \o InRest(tree, n)
  BY <1>6
<1> HIDE DEF a, c
<1> DEFINE before == Cat(done, a)
<1>9. Cat(done, Cat(a, c)) = Cat(before, c) /\ before \in Seq(Nat)
  BY <1>5, <1>7, CatIs
<1> HIDE DEF before
<1>10. all = before \o c
  BY <1>5, <1>7, <1>9 DEF Cat
<1> QED BY <1>8, <1>9, <1>10 DEF all

\* The next node of an inorder walk has a greater element.
LEMMA InAscends ==
  ASSUME NEW tree, Shaped(tree), Ordered(tree), NEW n \in Reachable(tree),
         NextInOrder(tree, n) # Null
  PROVE  tree.data[n] < tree.data[NextInOrder(tree, n)]
<1> DEFINE next == NextInOrder(tree, n)
           x == tree.data[n]
           y == tree.data[next]
           more == InRest(tree, next)
<1>1. next \in Reachable(tree) /\ InRest(tree, n) = <<y>> \o more
  BY InNext
<1>2. more \in Seq(Nat)
  <2>1. InWalk(tree)[tree.right[next]] \in Seq(Nat) /\ InAfter(tree)[next] \in Seq(Nat)
    BY <1>1, InAfterIs
  <2> QED BY <2>1, Assoc DEF InRest
<1>3. PICK done \in Seq(Nat) : InOrder(tree) = done \o (<<x>> \o InRest(tree, n))
  BY InSuffix
<1>4. x \in Nat /\ y \in Nat
  BY <1>1, ReachableIs
<1>5. Ascending(InOrder(tree))
  BY InOrderIs
<1> DEFINE s == done \o (<<x>> \o (<<y>> \o more))
           k == Len(done)
<1>6. Ascending(s)
  BY <1>1, <1>3, <1>5
<1> HIDE DEF more, next, x, y
<1>7. k + 1 \in DOMAIN s /\ k + 2 \in DOMAIN s /\ s[k + 1] = x /\ s[k + 2] = y
  BY <1>2, <1>3, <1>4
<1>8. k \in Nat
  BY <1>3
<1> HIDE DEF s, k
<1>9. x < y
  BY <1>6, <1>7, <1>8 DEF Ascending
<1> QED BY <1>9 DEF x, y, next
\* The first leaf below a node.
LEMMA FirstLeafIs ==
  ASSUME NEW tree, Shaped(tree), NEW x \in Reachable(tree)
  PROVE  /\ FirstLeaf(tree, x) \in Reachable(tree)
         /\ tree.left[x] # Null => FirstLeaf(tree, x) = FirstLeaf(tree, tree.left[x])
         /\ (tree.left[x] = Null /\ tree.right[x] # Null) =>
              FirstLeaf(tree, x) = FirstLeaf(tree, tree.right[x])
         /\ (tree.left[x] = Null /\ tree.right[x] = Null) => FirstLeaf(tree, x) = x
<1> DEFINE body(m, a) == IF tree.left[m] # Null THEN a[tree.left[m]]
                         ELSE IF tree.right[m] # Null THEN a[tree.right[m]] ELSE m
           IsIt(a) == a = [m \in Node |-> body(m, a)]
           f == CHOOSE a : IsIt(a)
           next == [m \in Node |-> IF tree.left[m] # Null THEN tree.left[m] ELSE tree.right[m]]
<1>1. Typed(tree) /\ Acyclic(tree) /\ Reachable(tree) \subseteq Node /\ x \in Node
  BY ReachableIs DEF Shaped
<1>2. Descends(tree, next)
  <2>1. \A m \in Node : tree.left[m] \in Place /\ tree.right[m] \in Place
    BY <1>1, DataTyped
  <2>2. next \in [Node -> Place]
    BY <2>1
  <2>3. \A m \in Node : next[m] = Null \/ next[m] = tree.left[m] \/ next[m] = tree.right[m]
    OBVIOUS
  <2> HIDE DEF next
  <2> QED BY <2>2, <2>3 DEF Descends
<1>3. PICK a \in [Node -> Node] : \A n \in Node : a[n] = IF next[n] = Null THEN n ELSE a[next[n]]
  <2> HIDE DEF next
  <2> QED BY <1>1, <1>2, DescentExists
<1>4. IsIt(a)
  <2>1. \A n \in Node : a[n] = body(n, a)
    BY <1>3
  <2>2. a = [n \in Node |-> a[n]]
    BY <1>3
  <2> HIDE DEF body
  <2> QED BY <2>1, <2>2
<1>5. IsIt(f)
  <2> HIDE DEF IsIt
  <2> QED BY <1>4
<1>6. \A m : FirstLeaf(tree, m) = f[m]
  BY DEF FirstLeaf
<1> HIDE DEF f
<1>7. \A n \in Node : f[n] = body(n, f)
  <2> HIDE DEF body
  <2> QED BY <1>5
<1>8. f[x] \in Below(tree)[x]
  <2>1. \A n \in Node : f[n] = IF next[n] = Null THEN n ELSE f[next[n]]
    BY <1>7
  <2> HIDE DEF next
  <2> QED BY <1>1, <1>2, <2>1, DescentEnds
<1>9. f[x] \in Reachable(tree)
  BY <1>8, ReachableIs
<1>10. f[x] = body(x, f)
  BY <1>1, <1>7
<1> QED BY <1>6, <1>9, <1>10

\* What is left of a postorder walk after a node.
PostGap(tree) ==
  [n \in Reachable(tree) |->
     IF tree.parent[n] = Null THEN <<>>
     ELSE IF n = tree.left[tree.parent[n]]
          THEN PostWalk(tree)[tree.right[tree.parent[n]]] \o <<tree.data[tree.parent[n]]>>
          ELSE <<tree.data[tree.parent[n]]>>]
PostRest(tree) == Onwards(tree, PostGap(tree))

LEMMA PostRestIs ==
  ASSUME NEW tree, Shaped(tree), NEW n \in Reachable(tree)
  PROVE  /\ <<tree.data[n]>> \in Seq(Nat) /\ PostRest(tree)[n] \in Seq(Nat)
         /\ PostWalk(tree)[tree.left[n]] \in Seq(Nat) /\ PostWalk(tree)[tree.right[n]] \in Seq(Nat)
         /\ PostWalk(tree)[n] = PostWalk(tree)[tree.left[n]] \o PostWalk(tree)[tree.right[n]]
                                \o <<tree.data[n]>>
         /\ PostWalk(tree)[Null] = <<>>
         /\ tree.parent[n] = Null => PostRest(tree)[n] = <<>>
         /\ tree.left[n] # Null => PostRest(tree)[tree.left[n]] =
              (PostWalk(tree)[tree.right[n]] \o <<tree.data[n]>>) \o PostRest(tree)[n]
         /\ tree.right[n] # Null => PostRest(tree)[tree.right[n]] =
              <<tree.data[n]>> \o PostRest(tree)[n]
<1> DEFINE R == Reachable(tree)
           w == PostWalk(tree)
           gap == PostGap(tree)
           after == PostRest(tree)
<1>1. Typed(tree) /\ Acyclic(tree) /\ R \subseteq Node
  BY ReachableIs DEF Shaped
<1>2. /\ w \in [Place -> Seq(Nat)] /\ w[Null] = <<>>
      /\ \A m \in Node : w[m] = w[tree.left[m]] \o w[tree.right[m]] \o <<tree.data[m]>>
  BY <1>1, PostWalkIs
<1>3. ASSUME NEW m \in R
      PROVE  /\ <<tree.data[m]>> \in Seq(Nat)
             /\ w[tree.left[m]] \in Seq(Nat) /\ w[tree.right[m]] \in Seq(Nat)
  BY <1>1, <1>2, DataTyped
<1>4. gap \in [R -> Seq(Nat)]
  <2>1. ASSUME NEW m \in R, tree.parent[m] # Null
        PROVE  /\ w[tree.right[tree.parent[m]]] \o <<tree.data[tree.parent[m]]>> \in Seq(Nat)
               /\ <<tree.data[tree.parent[m]]>> \in Seq(Nat)
    <3>1. tree.parent[m] \in R
      BY <2>1, ParentIs
    <3>2. <<tree.data[tree.parent[m]]>> \in Seq(Nat) /\ w[tree.right[tree.parent[m]]] \in Seq(Nat)
      BY <1>3, <3>1
    <3> HIDE DEF w
    <3> QED BY <3>2, Assoc
  <2>2. <<>> \in Seq(Nat)
    OBVIOUS
  <2> QED BY <2>1, <2>2 DEF PostGap
<1>5. /\ after \in [R -> Seq(Nat)]
      /\ \A m \in R : after[m] = IF tree.parent[m] = Null THEN <<>>
                                 ELSE gap[m] \o after[tree.parent[m]]
  BY <1>4, OnwardsIs DEF IsOnwards, PostRest
<1>6. ASSUME tree.left[n] # Null
      PROVE  after[tree.left[n]] = (w[tree.right[n]] \o <<tree.data[n]>>) \o after[n]
  <2> DEFINE l == tree.left[n]
  <2>1. l \in R /\ tree.parent[l] = n /\ n # Null
    BY <1>6, ChildIs
  <2>2. gap[l] = w[tree.right[n]] \o <<tree.data[n]>>
    BY <2>1 DEF PostGap
  <2> HIDE DEF w, gap, after, l
  <2>3. after[l] = gap[l] \o after[n]
    BY <1>5, <2>1
  <2> QED BY <2>2, <2>3 DEF l
<1>7. ASSUME tree.right[n] # Null PROVE after[tree.right[n]] = <<tree.data[n]>> \o after[n]
  <2> DEFINE r == tree.right[n]
  <2>1. r \in R /\ tree.parent[r] = n /\ n # Null /\ r # tree.left[n]
    BY <1>7, ChildIs
  <2>2. gap[r] = <<tree.data[n]>>
    BY <2>1 DEF PostGap
  <2> HIDE DEF w, gap, after, r
  <2>3. after[r] = gap[r] \o after[n]
    BY <1>5, <2>1
  <2> QED BY <2>2, <2>3 DEF r
<1>8. after[n] \in Seq(Nat) /\ (tree.parent[n] = Null => after[n] = <<>>)
  BY <1>5
<1>9. w[n] = w[tree.left[n]] \o w[tree.right[n]] \o <<tree.data[n]>>
  BY <1>1, <1>2
<1> HIDE DEF w, after
<1>10. /\ <<tree.data[n]>> \in Seq(Nat)
       /\ w[tree.left[n]] \in Seq(Nat) /\ w[tree.right[n]] \in Seq(Nat) /\ w[Null] = <<>>
  BY <1>2, <1>3
<1> QED BY <1>6, <1>7, <1>8, <1>9, <1>10 DEF w, after

LEMMA PostRestLeft ==
  ASSUME NEW tree, Shaped(tree), NEW n \in Reachable(tree), tree.left[n] # Null
  PROVE  PostRest(tree)[tree.left[n]] =
           (PostWalk(tree)[tree.right[n]] \o <<tree.data[n]>>) \o PostRest(tree)[n]
BY PostRestIs

LEMMA PostRestRight ==
  ASSUME NEW tree, Shaped(tree), NEW n \in Reachable(tree), tree.right[n] # Null
  PROVE  PostRest(tree)[tree.right[n]] = <<tree.data[n]>> \o PostRest(tree)[n]
BY PostRestIs

\* FirstLeaf() comes to what a postorder walk visits first.
LEMMA PostFirst ==
  ASSUME NEW tree, Shaped(tree), NEW x \in Reachable(tree)
  PROVE  LET d == FirstLeaf(tree, x)
         IN  /\ d \in Reachable(tree)
             /\ PostWalk(tree)[x] \o PostRest(tree)[x] = <<tree.data[d]>> \o PostRest(tree)[d]
<1> DEFINE R == Reachable(tree)
           w == PostWalk(tree)
           after == PostRest(tree)
           first(n) == FirstLeaf(tree, n)
           good(n) == w[n] \o after[n] = <<tree.data[first(n)]>> \o after[first(n)]
           B == {n \in R : ~good(n)}
<1>1. Typed(tree) /\ Acyclic(tree) /\ R \subseteq Node
  BY ReachableIs DEF Shaped
<1>2. ASSUME NEW n \in R
      PROVE  w[n] \o after[n] =
               w[tree.left[n]] \o ((w[tree.right[n]] \o <<tree.data[n]>>) \o after[n])
  <2> DEFINE a == w[tree.left[n]]
             b == w[tree.right[n]]
             c == <<tree.data[n]>>
             d == after[n]
  <2>1. a \in Seq(Nat) /\ b \in Seq(Nat) /\ c \in Seq(Nat) /\ d \in Seq(Nat)
        /\ w[n] = (a \o b) \o c
    BY PostRestIs
  <2> HIDE DEF a, b, c, d, w
  <2>2. Cat(Cat(Cat(a, b), c), d) = Cat(a, Cat(Cat(b, c), d))
    BY <2>1, CatIs
  <2> QED BY <2>1, <2>2 DEF Cat, a, b, c, d
<1>3. ASSUME NEW n \in R, tree.left[n] = Null
      PROVE  w[n] \o after[n] = w[tree.right[n]] \o (<<tree.data[n]>> \o after[n])
  <2> DEFINE b == w[tree.right[n]]
             c == <<tree.data[n]>>
             d == after[n]
  <2>1. b \in Seq(Nat) /\ c \in Seq(Nat) /\ d \in Seq(Nat) /\ w[Null] = <<>>
    BY PostRestIs
  <2>2. w[n] \o d = w[tree.left[n]] \o ((b \o c) \o d)
    BY <1>2
  <2> HIDE DEF b, c, d, w
  <2>3. Cat(<<>>, Cat(Cat(b, c), d)) = Cat(b, Cat(c, d))
    BY <2>1, CatIs
  <2>4. w[n] \o d = b \o (c \o d)
    BY <1>3, <2>1, <2>2, <2>3 DEF Cat
  <2> QED BY <2>4 DEF b, c, d
<1>4. B = {}
  <2> SUFFICES ASSUME B # {} PROVE FALSE
    OBVIOUS
  <2>1. PICK n \in B : tree.left[n] \notin B /\ tree.right[n] \notin B
    <3>1. B \in SUBSET Node
      BY <1>1
    <3> HIDE DEF B
    <3> QED BY <1>1, <3>1, LowestOf
  <2>2. n \in R /\ ~good(n)
    BY <2>1
  <2>3. CASE tree.left[n] # Null
    <3> DEFINE l == tree.left[n]
    <3>1. l \in R
      BY <2>2, <2>3, ChildIs
    <3>2. good(l) /\ first(n) = first(l)
      BY <2>1, <2>2, <2>3, <3>1, FirstLeafIs
    <3>3. after[l] = (w[tree.right[n]] \o <<tree.data[n]>>) \o after[n]
      BY <2>2, <2>3, PostRestIs
    <3> HIDE DEF w, after, first
    <3>4. w[n] \o after[n] = w[l] \o after[l]
      BY <1>2, <2>2, <3>3
    <3> QED BY <2>2, <3>2, <3>4
  <2>4. CASE tree.left[n] = Null /\ tree.right[n] # Null
    <3> DEFINE r == tree.right[n]
    <3>1. r \in R
      BY <2>2, <2>4, ChildIs
    <3>2. good(r) /\ first(n) = first(r)
      BY <2>1, <2>2, <2>4, <3>1, FirstLeafIs
    <3>3. after[r] = <<tree.data[n]>> \o after[n]
      BY <2>2, <2>4, PostRestIs
    <3> HIDE DEF w, after, first
    <3>4. w[n] \o after[n] = w[r] \o after[r]
      BY <1>3, <2>2, <2>4, <3>3
    <3> QED BY <2>2, <3>2, <3>4
  <2>5. CASE tree.left[n] = Null /\ tree.right[n] = Null
    <3> DEFINE s == <<tree.data[n]>> \o after[n]
    <3>1. s \in Seq(Nat) /\ w[Null] = <<>>
      <4>1. <<tree.data[n]>> \in Seq(Nat) /\ after[n] \in Seq(Nat)
        BY <2>2, PostRestIs
      <4>2. w[Null] = <<>>
        BY <2>2, PostRestIs
      <4> HIDE DEF after
      <4> QED BY <4>1, <4>2, Assoc
    <3>2. first(n) = n
      BY <2>2, <2>5, FirstLeafIs
    <3> HIDE DEF w, after, first
    <3>3. w[n] \o after[n] = <<>> \o s
      BY <1>3, <2>2, <2>5, <3>1
    <3> HIDE DEF s
    <3>4. w[n] \o after[n] = s
      BY <3>1, <3>3, Assoc
    <3> QED BY <2>2, <3>2, <3>4 DEF s
  <2> QED BY <2>3, <2>4, <2>5
<1>5. good(x) /\ first(x) \in R
  BY <1>4, FirstLeafIs
<1> QED BY <1>5

\* NextPostOrder() comes to the next that a postorder walk visits.
LEMMA PostNext ==
  ASSUME NEW tree, Shaped(tree), NEW n \in Reachable(tree)
  PROVE  LET next == NextPostOrder(tree, n)
         IN  /\ next \in Reachable(tree) \cup {Null}
             /\ PostRest(tree)[n] = IF next = Null THEN <<>>
                                    ELSE <<tree.data[next]>> \o PostRest(tree)[next]
<1> DEFINE R == Reachable(tree)
           w == PostWalk(tree)
           after == PostRest(tree)
           next == NextPostOrder(tree, n)
           p == tree.parent[n]
           good(m) == /\ m \in R \cup {Null}
                      /\ after[n] = IF m = Null THEN <<>> ELSE <<tree.data[m]>> \o after[m]
<1>1. next = IF p # Null /\ tree.left[p] = n /\ tree.right[p] # Null
             THEN FirstLeaf(tree, tree.right[p]) ELSE p
  BY DEF NextPostOrder
<1>2. CASE p = Null
  <2>1. after[n] = <<>> /\ next = Null
    BY <1>1, <1>2, PostRestIs
  <2> QED BY <2>1
<1>3. CASE p # Null
  <2>1. p \in R /\ n # Null /\ (n = tree.left[p] \/ n = tree.right[p])
    BY <1>3, ParentIs, ReachableIs, NullIs
  <2>2. <<tree.data[p]>> \in Seq(Nat) /\ w[tree.right[p]] \in Seq(Nat) /\ after[p] \in Seq(Nat)
        /\ w[Null] = <<>>
    BY <2>1, PostRestIs
  <2>3. CASE n = tree.left[p] /\ tree.right[p] # Null
    <3> DEFINE r == tree.right[p]
    <3>1. r \in R /\ next = FirstLeaf(tree, r)
      BY <1>1, <1>3, <2>1, <2>3, ChildIs
    <3>2. next \in R /\ w[r] \o after[r] = <<tree.data[next]>> \o after[next]
      BY <3>1, PostFirst
    <3>3. next # Null
      BY <3>2, ReachableIs, NullIs
    <3>8. after[r] = <<tree.data[p]>> \o after[p]
      BY <2>1, <2>3, PostRestRight
    <3>4. after[n] = (w[r] \o <<tree.data[p]>>) \o after[p]
      BY <2>1, <2>3, PostRestLeft
    <3> HIDE DEF w, after, next
    <3> DEFINE a == w[r]
               b == <<tree.data[p]>>
               c == after[p]
    <3>7. Cat(Cat(a, b), c) = Cat(a, Cat(b, c))
      <4>1. a \in Seq(Nat) /\ b \in Seq(Nat) /\ c \in Seq(Nat)
        BY <2>2
      <4> HIDE DEF a, b, c
      <4> QED BY <4>1, CatIs
    <3>5. after[n] = w[r] \o after[r]
      BY <3>4, <3>7, <3>8 DEF Cat
    <3>6. good(next)
      BY <3>2, <3>3, <3>5
    <3> QED BY <3>6 DEF after, next
  <2>4. CASE n = tree.left[p] /\ tree.right[p] = Null
    <3>1. next = p
      BY <1>1, <2>4
    <3>2. after[n] = (w[Null] \o <<tree.data[p]>>) \o after[p]
      BY <2>1, <2>4, PostRestLeft
    <3> HIDE DEF w, after, next
    <3>3. after[n] = <<tree.data[p]>> \o after[p]
      BY <2>2, <3>2, Assoc
    <3>4. good(next)
      BY <1>3, <2>1, <3>1, <3>3
    <3> QED BY <3>4 DEF after, next
  <2>5. CASE n # tree.left[p]
    <3>1. next = p
      BY <1>1, <2>5
    <3>4. n = tree.right[p] /\ n # Null
      BY <2>1, <2>5
    <3>5. p \in Reachable(tree) /\ tree.right[p] # Null
      BY <2>1, <3>4
    <3>6. PostRest(tree)[tree.right[p]] = <<tree.data[p]>> \o PostRest(tree)[p]
      BY <3>5, PostRestRight
    <3>2. after[n] = <<tree.data[p]>> \o after[p]
      BY <3>4, <3>6
    <3> HIDE DEF w, after, next
    <3>3. good(next)
      BY <1>3, <2>1, <3>1, <3>2
    <3> QED BY <3>3 DEF after, next
  <2> QED BY <2>1, <2>3, <2>4, <2>5
<1> QED BY <1>2, <1>3
LEMMA PreRoot ==
  ASSUME NEW tree, Shaped(tree), tree.root # Null
  PROVE  PreOrder(tree) = <<tree.data[tree.root]>> \o PreRest(tree, tree.root)
<1> DEFINE R == Reachable(tree)
           w == PreWalk(tree)
           x == tree.root
           after == Onwards(tree, PreGap(tree))
           d == <<tree.data[x]>>
           a == w[tree.left[x]]
           b == w[tree.right[x]]
<1>1. Typed(tree) /\ Acyclic(tree) /\ R \subseteq Node /\ x \in R
  BY ReachableIs DEF Shaped
<1>2. w \in [Place -> Seq(Nat)] /\ w[x] = (d \o a) \o b
  BY <1>1, PreWalkIs
<1>3. d \in Seq(Nat) /\ a \in Seq(Nat) /\ b \in Seq(Nat)
  <2>1. tree.left[x] \in Place /\ tree.right[x] \in Place /\ d \in Seq(Nat)
    BY <1>1, DataTyped
  <2> HIDE DEF w
  <2> QED BY <1>2, <2>1
<1>4. after[x] = <<>>
  <2>1. PreGap(tree) \in [R -> Seq(Nat)]
    <3>1. ASSUME NEW m \in R, tree.parent[m] # Null
          PROVE w[tree.right[tree.parent[m]]] \in Seq(Nat)
      <4>1. tree.parent[m] \in Node
        BY <3>1, ParentIs
      <4>2. tree.right[tree.parent[m]] \in Place
        BY <1>1, <4>1, DataTyped
      <4> HIDE DEF w
      <4> QED BY <1>2, <4>2
    <3>2. <<>> \in Seq(Nat)
      OBVIOUS
    <3> QED BY <3>1, <3>2 DEF PreGap
  <2>2. IsOnwards(tree, PreGap(tree), after)
    BY <2>1, OnwardsIs
  <2>3. tree.parent[x] = Null
    BY <1>1, ParentIs
  <2> QED BY <1>1, <2>2, <2>3 DEF IsOnwards
<1>5. PreOrder(tree) = w[x] /\ PreRest(tree, x) = (a \o b) \o after[x]
  BY DEF PreOrder, PreWalk, PreRest
<1> DEFINE ab == a \o b
<1> HIDE DEF w, a, b, d, after
<1>6. (d \o a) \o b = d \o ab /\ ab \in Seq(Nat)
  BY <1>3, Assoc
<1> HIDE DEF ab
<1>7. ab \o <<>> = ab
  BY <1>6, Assoc
<1>8. PreRest(tree, x) = ab
  BY <1>4, <1>5, <1>7 DEF ab
<1>9. PreOrder(tree) = d \o PreRest(tree, x)
  BY <1>2, <1>5, <1>6, <1>8
<1> QED BY <1>9 DEF d, x

WalkOrder == {"preorder", "inorder", "postorder"}

\* What is left of a walk at a node.
Rest(tree, order, n) ==
  CASE order = "preorder" -> PreRest(tree, n)
    [] order = "inorder" -> InRest(tree, n)
    [] order = "postorder" -> PostRest(tree)[n]

\* An iteration begins with what the traversal of its order collects first.
LEMMA WalkFirst ==
  ASSUME NEW tree, Shaped(tree), tree.root # Null, NEW order \in WalkOrder
  PROVE  LET first == FirstNode(tree, order)
         IN  /\ first \in Reachable(tree)
             /\ Collect(tree, order) = <<tree.data[first]>> \o Rest(tree, order, first)
<1> DEFINE x == tree.root
           first == FirstNode(tree, order)
           good == /\ first \in Reachable(tree)
                   /\ Collect(tree, order) = <<tree.data[first]>> \o Rest(tree, order, first)
<1>1. Typed(tree) /\ Acyclic(tree) /\ x \in Reachable(tree) /\ x \in Place
  BY ReachableIs DEF Shaped
<1>2. tree.parent[x] = Null
  BY <1>1, ParentIs
<1>3. CASE order = "preorder"
  BY <1>1, <1>3, PreRoot DEF FirstNode, Collect, Rest
<1>4. CASE order = "inorder"
  <2> DEFINE s == InWalk(tree)[x]
  <2>1. s \in Seq(Nat) /\ InOrder(tree) = s
    <3>1. InOrder(tree) = s
      BY DEF InOrder, InWalk
    <3>2. s \in Seq(Nat)
      BY <1>1, InWalkIs
    <3> QED BY <3>1, <3>2
  <2>2. InAfter(tree)[x] = <<>>
    BY <1>1, <1>2, InAfterIs
  <2>3. first = DescendLeft(tree, x)
    BY <1>4 DEF FirstNode
  <2>4. first \in Reachable(tree) /\ s \o <<>> = <<tree.data[first]>> \o InRest(tree, first)
    BY <1>1, <2>2, <2>3, InFirst
  <2> HIDE DEF s, first
  <2>5. InOrder(tree) = <<tree.data[first]>> \o InRest(tree, first)
    BY <2>1, <2>4, Assoc
  <2>6. good
    BY <1>4, <2>4, <2>5 DEF Collect, Rest
  <2> QED BY <2>6 DEF first
<1>5. CASE order = "postorder"
  <2> DEFINE s == PostWalk(tree)[x]
  <2>1. s \in Seq(Nat) /\ PostOrder(tree) = s
    <3>1. PostOrder(tree) = s
      BY DEF PostOrder, PostWalk
    <3>2. s \in Seq(Nat)
      BY <1>1, PostWalkIs
    <3> QED BY <3>1, <3>2
  <2>2. PostRest(tree)[x] = <<>>
    BY <1>1, <1>2, PostRestIs
  <2>3. first = FirstLeaf(tree, x)
    BY <1>5 DEF FirstNode
  <2>4. first \in Reachable(tree) /\ s \o <<>> = <<tree.data[first]>> \o PostRest(tree)[first]
    BY <1>1, <2>2, <2>3, PostFirst
  <2> HIDE DEF s, first
  <2>5. PostOrder(tree) = <<tree.data[first]>> \o PostRest(tree)[first]
    BY <2>1, <2>4, Assoc
  <2>6. good
    BY <1>5, <2>4, <2>5 DEF Collect, Rest
  <2> QED BY <2>6 DEF first
<1> QED BY <1>3, <1>4, <1>5 DEF WalkOrder

\* One step of the iterator takes one element off what is left.
LEMMA WalkNext ==
  ASSUME NEW tree, Shaped(tree), NEW order \in WalkOrder, NEW n \in Reachable(tree)
  PROVE  LET next == NextNode(tree, n, order)
         IN  /\ next \in Reachable(tree) \cup {Null}
             /\ Rest(tree, order, n) \in Seq(Nat)
             /\ Rest(tree, order, n) =
                  IF next = Null THEN <<>> ELSE <<tree.data[next]>> \o Rest(tree, order, next)
<1>1. CASE order = "preorder"
  <2>1. \A m : Rest(tree, order, m) = PreRest(tree, m)
    BY <1>1 DEF Rest
  <2>2. NextNode(tree, n, order) = NextPreOrder(tree, n)
    BY <1>1 DEF NextNode
  <2> QED BY <2>1, <2>2, PreNext
<1>2. CASE order = "inorder"
  <2>1. \A m : Rest(tree, order, m) = InRest(tree, m)
    BY <1>2 DEF Rest
  <2>2. NextNode(tree, n, order) = NextInOrder(tree, n)
    BY <1>2 DEF NextNode
  <2>3. InRest(tree, n) \in Seq(Nat)
    <3>1. InWalk(tree)[tree.right[n]] \in Seq(Nat) /\ InAfter(tree)[n] \in Seq(Nat)
      BY InAfterIs
    <3> QED BY <3>1, Assoc DEF InRest
  <2> QED BY <2>1, <2>2, <2>3, InNext
<1>3. CASE order = "postorder"
  <2>1. \A m : Rest(tree, order, m) = PostRest(tree)[m]
    BY <1>3 DEF Rest
  <2>2. NextNode(tree, n, order) = NextPostOrder(tree, n)
    BY <1>3 DEF NextNode
  <2>3. PostRest(tree)[n] \in Seq(Nat)
    BY PostRestIs
  <2> DEFINE next == NextPostOrder(tree, n)
             after == PostRest(tree)
  <2>4. /\ next \in Reachable(tree) \cup {Null}
        /\ after[n] = IF next = Null THEN <<>> ELSE <<tree.data[next]>> \o after[next]
    BY PostNext
  <2>5. Rest(tree, order, n) = after[n] /\ Rest(tree, order, next) = after[next]
    BY <2>1
  <2> HIDE DEF next, after
  <2>6. /\ Rest(tree, order, n) \in Seq(Nat)
        /\ Rest(tree, order, n) =
             IF next = Null THEN <<>> ELSE <<tree.data[next]>> \o Rest(tree, order, next)
    BY <2>3, <2>4, <2>5 DEF after
  <2> QED BY <2>2, <2>4, <2>6 DEF next
<1> QED BY <1>1, <1>2, <1>3 DEF WalkOrder

-----------------------------------------------------------------------------
(* The invariant *)

\* What has been returned since bintree_first(), and what is left, make up
\* what the recursive traversal collects.
Recorded(tree, order, at, s) ==
  s # <<>> => \/ at = Null /\ s = Collect(tree, order)
              \/ /\ at \in Reachable(tree)
                 /\ Collect(tree, order) = s \o Rest(tree, order, at)

TreeInv ==
  /\ Sound(t)
  /\ iter \in Reachable(t) \cup {Null, Gone}
  /\ trav \in WalkOrder
  /\ given \in Key \cup {Null}
  /\ seen \in Seq(Key)
  /\ Recorded(t, trav, iter, seen)

LEMMA InitTree == TreeInit => TreeInv
<1> SUFFICES ASSUME TreeInit PROVE TreeInv
  OBVIOUS
<1>1. PICK garbage \in 0 .. Nodes : t = Empty(garbage)
  BY DEF TreeInit
<1> DEFINE rank == [n \in Node |-> 0]
<1>2. Acyclic(t)
  <2>1. Ranks(t, rank)
    BY <1>1 DEF Ranks, Empty, Blank
  <2>2. rank \in [Node -> 0 .. 0] /\ 0 \in Nat
    OBVIOUS
  <2> HIDE DEF rank
  <2> QED BY <2>1, <2>2 DEF Acyclic
<1>3. Typed(t)
  BY <1>1, NullIs DEF Typed, Empty, Blank, Place
<1>4. Linked(t)
  BY <1>1 DEF Linked, Empty, Blank
<1>5. Reachable(t) = {}
  BY <1>1, <1>2, <1>3, <1>4, ReachableIs DEF Shaped, Empty
<1>6. Sound(t)
  BY <1>1, <1>2, <1>3, <1>4, <1>5 DEF Sound, Shaped, Ordered, Counted, Empty
<1>7. seen = <<>> /\ seen \in Seq(Key) /\ trav \in WalkOrder /\ given \in Key \cup {Null}
      /\ iter \in Reachable(t) \cup {Null, Gone}
  BY DEF TreeInit, WalkOrder
<1> QED BY <1>6, <1>7 DEF TreeInv, Recorded

LEMMA BecomesInv ==
  ASSUME TreeInv, NEW tree, Sound(tree), Becomes(tree)
  PROVE  TreeInv'
<1>1. t' = tree /\ seen' = <<>> /\ trav' = trav /\ given' = given
      /\ iter' \in Reachable(tree) \cup {Null, Gone}
  BY DEF Becomes, IterIn
<1>2. <<>> \in Seq(Key)
  OBVIOUS
<1> QED BY <1>1, <1>2 DEF TreeInv, Recorded

LEMMA DiscardInv ==
  ASSUME TreeInv, NEW tree, Sound(tree), Discard(tree)
  PROVE  TreeInv'
<1>1. t' = tree /\ seen' = <<>> /\ trav' = trav /\ given' = given
      /\ iter' \in Reachable(tree) \cup {Null, Gone}
  BY DEF Discard
<1>2. <<>> \in Seq(Key)
  OBVIOUS
<1> QED BY <1>1, <1>2 DEF TreeInv, Recorded

\* bintree_find() finds a node of the tree with the key, if there is one.
LEMMA FindIs ==
  ASSUME NEW tree, Sound(tree), NEW k \in Key
  PROVE  LET n == NodeFind(tree, k)
         IN  /\ n # Null <=> k \in Elements(tree)
             /\ n # Null => n \in Reachable(tree) /\ tree.data[n] = k
<1> DEFINE n == NodeFind(tree, k)
           stop == StopsAt(tree, k)
<1>1. Shaped(tree) /\ Ordered(tree) /\ k \in Nat
  BY KeyAssumption DEF Sound
<1>2. CASE tree.root = Null
  BY <1>1, <1>2, ReachableIs DEF NodeFind, Elements
<1>3. CASE tree.root # Null
  <2>1. Stops(tree, k, tree.root, stop)
    BY <1>1, <1>3, StopsAtIs
  <2>2. stop \in Reachable(tree) /\ stop # Null
    BY <1>1, <2>1, ReachableIs, NullIs DEF Stops
  <2>3. n = IF tree.data[stop] = k THEN stop ELSE Null
    BY <1>3 DEF NodeFind
  <2>4. ASSUME k \in Elements(tree) PROVE tree.data[stop] = k
    <3>1. PICK m \in Reachable(tree) : tree.data[m] = k
      BY <2>4 DEF Elements
    <3> QED BY <1>1, <2>1, <2>2, <3>1, StopsFound
  <2>5. tree.data[stop] = k => k \in Elements(tree)
    BY <2>2 DEF Elements
  <2> QED BY <2>2, <2>3, <2>4, <2>5
<1> QED BY <1>2, <1>3

LEMMA KeyAt ==
  ASSUME NEW tree, Shaped(tree), NEW n \in Reachable(tree)
  PROVE  tree.data[n] \in Key
BY ReachableIs DEF Shaped, Typed

LEMMA FirstInv ==
  ASSUME TreeInv, NEW order \in WalkOrder, First(order)
  PROVE  TreeInv'
<1> DEFINE n == FirstNode(t, order)
           d == t.data[n]
<1>1. t.root # Null /\ t' = t /\ iter' = n /\ trav' = order /\ given' = d /\ seen' = <<d>>
  BY DEF First
<1>2. Shaped(t) /\ Sound(t)
  BY DEF TreeInv, Sound
<1>3. n \in Reachable(t) /\ Collect(t, order) = <<d>> \o Rest(t, order, n)
  BY <1>1, <1>2, WalkFirst
<1>4. d \in Key
  BY <1>2, <1>3, KeyAt
<1> HIDE DEF n, d
<1>5. <<d>> \in Seq(Key)
  BY <1>4
<1>6. Recorded(t', trav', iter', seen')
  BY <1>1, <1>3 DEF Recorded
<1> QED BY <1>1, <1>2, <1>3, <1>4, <1>5, <1>6 DEF TreeInv

LEMMA NextElemInv ==
  ASSUME TreeInv, NextElem
  PROVE  TreeInv'
<1> DEFINE n == NextNode(t, iter, trav)
           d == t.data[n]
<1>1. iter \in Node /\ t' = t /\ trav' = trav /\ iter' = n
      /\ (n = Null => given' = given /\ seen' = seen)
      /\ (n # Null => given' = d /\ seen' = IF seen = <<>> THEN seen ELSE Append(seen, d))
  BY DEF NextElem
<1>2. Shaped(t) /\ Sound(t) /\ trav \in WalkOrder /\ iter \in Reachable(t)
      /\ given \in Key \cup {Null} /\ seen \in Seq(Key)
  BY <1>1, NullIs DEF TreeInv, Sound
<1> DEFINE rest == Rest(t, trav, iter)
           more == Rest(t, trav, n)
<1>3. n \in Reachable(t) \cup {Null} /\ rest \in Seq(Nat)
      /\ rest = IF n = Null THEN <<>> ELSE <<d>> \o more
  BY <1>2, WalkNext
<1>4. seen # <<>> => Collect(t, trav) = seen \o rest
  <2>1. iter # Null
    BY <1>1, NullIs
  <2>2. Recorded(t, trav, iter, seen)
    BY DEF TreeInv
  <2> QED BY <2>1, <2>2 DEF Recorded
<1>5. seen \in Seq(Nat)
  <2>1. Key \subseteq Nat
    BY KeyAssumption
  <2> QED BY <1>2, <2>1, SeqMonotonic
<1>6. CASE n = Null
  <2>1. seen # <<>> => Collect(t, trav) = seen
    <3>1. seen \o <<>> = seen
      BY <1>5, Assoc
    <3> HIDE DEF rest, n
    <3> QED BY <1>3, <1>4, <1>6, <3>1
  <2>2. Recorded(t', trav', iter', seen')
    BY <1>1, <1>6, <2>1 DEF Recorded
  <2> HIDE DEF n, d
  <2> QED BY <1>1, <1>2, <1>6, <2>2 DEF TreeInv
<1>7. CASE n # Null
  <2>1. n \in Reachable(t)
    BY <1>3, <1>7
  <2>2. d \in Key
    BY <1>2, <2>1, KeyAt
  <2>3. more \in Seq(Nat)
    BY <1>2, <2>1, WalkNext
  <2> HIDE DEF n, d, rest
  <2>4. seen' \in Seq(Key)
    BY <1>1, <1>2, <1>7, <2>2
  <2>5. ASSUME seen' # <<>> PROVE Collect(t, trav) = seen' \o more
    <3>1. seen # <<>> /\ seen' = Append(seen, d)
      BY <1>1, <1>7, <2>5
    <3>2. seen' = seen \o <<d>> /\ <<d>> \in Seq(Nat)
      BY <1>2, <2>2, <3>1, KeyAssumption
    <3>3. Collect(t, trav) = seen \o (<<d>> \o more)
      BY <1>3, <1>4, <1>7, <3>1
    <3> HIDE DEF more
    <3>4. (seen \o <<d>>) \o more = seen \o (<<d>> \o more)
      BY <1>5, <2>3, <3>2, Assoc
    <3> QED BY <3>2, <3>3, <3>4
  <2>6. Recorded(t', trav', iter', seen')
    BY <1>1, <2>1, <2>5 DEF Recorded
  <2> HIDE DEF more
  <2> QED BY <1>1, <1>2, <1>7, <2>1, <2>2, <2>4, <2>6 DEF TreeInv
<1> QED BY <1>6, <1>7

LEMMA TreeNextInv == TreeInv /\ [TreeNext]_treevars => TreeInv'
<1> SUFFICES ASSUME TreeInv, [TreeNext]_treevars PROVE TreeInv'
  OBVIOUS
<1>1. Sound(t) /\ Shaped(t)
  BY DEF TreeInv, Sound
<1>2. ASSUME NEW d \in Key, Insert(d) PROVE TreeInv'
  <2>1. t.live # Node /\ Becomes(Inserted(t, d))
    BY <1>2 DEF Insert
  <2>2. Sound(Inserted(t, d))
    BY <1>1, <2>1, InsertedIs
  <2> QED BY <2>1, <2>2, BecomesInv
<1>3. ASSUME NEW k \in Key, RemoveKey(k) PROVE TreeInv'
  <2>1. NodeFind(t, k) # Null /\ Becomes(Removed(t, NodeFind(t, k)))
    BY <1>3 DEF RemoveKey
  <2>2. NodeFind(t, k) \in Reachable(t)
    BY <1>1, <2>1, FindIs
  <2>3. Sound(Removed(t, NodeFind(t, k)))
    BY <1>1, <2>2, RemovedSound
  <2> QED BY <2>1, <2>3, BecomesInv
<1>4. ASSUME ClearTree PROVE TreeInv'
  <2>1. Sound(Cleared(t)) /\ Discard(Cleared(t))
    BY <1>1, <1>4, ClearedIs DEF ClearTree
  <2> QED BY <2>1, DiscardInv
<1>5. ASSUME Balance PROVE TreeInv'
  <2>1. t.root # Null /\ Discard(Refilled(Cleared(t), MiddleFirst(InOrder(t))))
    BY <1>5 DEF Balance
  <2>2. Sound(Refilled(Cleared(t), MiddleFirst(InOrder(t))))
    BY <1>1, <2>1, BalancedIs
  <2> QED BY <2>1, <2>2, DiscardInv
<1>6. ASSUME NEW order \in {"preorder", "inorder", "postorder"}, First(order) PROVE TreeInv'
  BY <1>6, FirstInv DEF WalkOrder
<1>7. ASSUME NextElem PROVE TreeInv'
  BY <1>7, NextElemInv
<1>8. ASSUME UNCHANGED treevars PROVE TreeInv'
  BY <1>8 DEF TreeInv, treevars
<1> QED BY <1>2, <1>3, <1>4, <1>5, <1>6, <1>7, <1>8 DEF TreeNext

LEMMA TreeInvariance == TreeSpec => []TreeInv
<1>1. TreeInit => TreeInv
  BY InitTree
<1>2. TreeInv /\ [TreeNext]_treevars => TreeInv'
  BY TreeNextInv
<1> QED BY <1>1, <1>2, PTL DEF TreeSpec
-----------------------------------------------------------------------------
(* Theorems about the binary tree *)

LEMMA TreeTyped == TreeInv => TreeTypeOK
<1> SUFFICES ASSUME TreeInv PROVE TreeTypeOK
  OBVIOUS
<1>1. Typed(t) /\ Shaped(t)
  BY DEF TreeInv, Sound, Shaped
<1>2. DOMAIN t = {"root", "count", "live", "left", "right", "parent", "data"}
      /\ t.live \subseteq Node /\ t.root \in t.live \cup {Null} /\ t.count \in 0 .. Nodes
  BY <1>1 DEF Typed
<1>3. ASSUME NEW n \in t.live
      PROVE  t.data[n] \in Key /\ {t.left[n], t.right[n]} \subseteq t.live \cup {Null}
  BY <1>1, <1>3 DEF Typed
<1>4. iter \in t.live \cup {Null, Gone}
  BY <1>1, ReachableIs DEF TreeInv
<1>5. trav \in {"preorder", "inorder", "postorder"} /\ given \in Key \cup {Null}
      /\ seen \in Seq(Key)
  BY DEF TreeInv, WalkOrder
<1> QED BY <1>2, <1>3, <1>4, <1>5 DEF TreeTypeOK

LEMMA TreeCounts == TreeInv => CountsNodes
<1> SUFFICES ASSUME TreeInv, t.root # Null, t.live = Reachable(t)
             PROVE  t.count = Len(InOrder(t))
  BY DEF CountsNodes
<1> DEFINE size == Cardinality(Reachable(t))
<1>1. Shaped(t) /\ Ordered(t) /\ Counted(t) /\ Typed(t)
  BY DEF TreeInv, Sound, Shaped
<1>2. Len(InOrder(t)) = size /\ size \in Nat
  BY <1>1, InOrderIs
<1>3. size <= t.count /\ t.count <= size /\ t.count \in Nat
  BY <1>1 DEF Counted, Typed
<1> HIDE DEF size
<1> QED BY <1>2, <1>3

\* The binary tree stays a search tree: through inserts, removals, clearing
\* and balancing, an in-order walk ascends, so that bintree_find() may go down
\* one side only; the parent pointers are the inverse of the links; and
\* bintree_count() is right as long as no removal lost a node.
THEOREM TreeSearch == TreeSpec => []SearchTree
<1>1. ASSUME TreeInv PROVE SearchTree
  <2>1. Shaped(t) /\ Ordered(t)
    BY <1>1 DEF TreeInv, Sound
  <2>2. TreeTypeOK /\ CountsNodes
    BY <1>1, TreeTyped, TreeCounts
  <2>3. \A i, j \in DOMAIN InOrder(t) : i < j => InOrder(t)[i] < InOrder(t)[j]
    BY <2>1, InOrderIs DEF Ascending
  <2>4. ASSUME NEW n \in Reachable(t)
        PROVE  IF n = t.root THEN t.parent[n] = Null
               ELSE /\ t.parent[n] \in Reachable(t)
                    /\ n \in {t.left[t.parent[n]], t.right[t.parent[n]]}
    BY <2>1, ParentIs
  <2> QED BY <2>2, <2>3, <2>4 DEF SearchTree
<1>2. TreeInv => SearchTree
  BY <1>1
<1> QED BY <1>2, TreeInvariance, PTL

\* bintree_first() and bintree_next() visit, by the parent pointers and without
\* a stack, what bintree_collect() collects recursively, in its order, and
\* come to the end when all of it was visited.
THEOREM TreeIteration == TreeSpec => []IterationAgrees
<1>1. ASSUME TreeInv PROVE IterationAgrees
  <2> SUFFICES ASSUME seen # <<>>
               PROVE  IsPrefix(seen, Collect(t, trav)) /\ (iter = Null => seen = Collect(t, trav))
    BY DEF IterationAgrees
  <2> DEFINE all == Collect(t, trav)
             rest == Rest(t, trav, iter)
  <2>4. seen \in Seq(Key) /\ Key \subseteq Nat
    BY <1>1, KeyAssumption DEF TreeInv
  <2>5. seen \in Seq(Nat)
    BY <2>4, SeqMonotonic
  <2>1. seen \in Seq(Nat) /\ Recorded(t, trav, iter, seen) /\ Shaped(t) /\ trav \in WalkOrder
    BY <1>1, <2>5 DEF TreeInv, Sound
  <2>2. CASE iter = Null /\ seen = all
    BY <2>2 DEF IsPrefix
  <2>3. CASE iter \in Reachable(t) /\ all = seen \o rest
    <3>1. rest \in Seq(Nat) /\ iter # Null
      BY <2>1, <2>3, WalkNext, ReachableIs, NullIs
    <3> HIDE DEF all, rest
    <3>2. Len(seen) <= Len(all) /\ SubSeq(seen, 1, Len(seen)) = SubSeq(all, 1, Len(seen))
      <4>1. Len(all) = Len(seen) + Len(rest) /\ \A i \in 1 .. Len(seen) : all[i] = seen[i]
        BY <2>1, <2>3, <3>1, ConcatIs
      <4> QED BY <2>1, <2>3, <3>1, <4>1
    <3>3. IsPrefix(seen, all)
      BY <3>2 DEF IsPrefix
    <3> QED BY <3>1, <3>3 DEF all
  <2> QED BY <2>1, <2>2, <2>3 DEF Recorded
<1>2. TreeInv => IterationAgrees
  BY <1>1
<1> QED BY <1>2, TreeInvariance, PTL

\* An in-order iteration goes to ever greater elements whatever is inserted,
\* removed or cleared between two calls of bintree_next(), as long as the
\* iterator's node holds what the last call returned.
THEOREM TreeAscent == TreeSpec => IterationAscends
<1>1. ASSUME TreeInv, [TreeNext]_treevars, NextElem, trav = "inorder", iter' # Null,
             t.data[iter] = given
      PROVE  given' > given
  <2> DEFINE n == NextInOrder(t, iter)
  <2>1. iter \in Node /\ iter' = n /\ n # Null /\ given' = t.data[n]
    BY <1>1 DEF NextElem, NextNode
  <2>2. Shaped(t) /\ Ordered(t) /\ iter \in Reachable(t)
    BY <1>1, <2>1, NullIs DEF TreeInv, Sound
  <2>3. t.data[iter] < t.data[n] /\ n \in Reachable(t)
    BY <2>1, <2>2, InAscends, InNext
  <2>4. t.data[iter] \in Nat /\ t.data[n] \in Nat
    BY <2>2, <2>3, ReachableIs
  <2> QED BY <1>1, <2>1, <2>3, <2>4
<1>2. TreeInv /\ [TreeNext]_treevars =>
        [(NextElem /\ trav = "inorder" /\ iter' # Null /\ t.data[iter] = given) =>
           given' > given]_treevars
  BY <1>1
<1> QED BY <1>2, TreeInvariance, PTL DEF TreeSpec, IterationAscends

\* bintree_balance(), which empties the tree and inserts the middle of what it
\* collected and then the halves, keeps every element and leaves a tree no
\* higher than a tree of that many nodes must be.
THEOREM TreeBalance == TreeSpec => BalanceIsTight
<1>1. ASSUME TreeInv, Balance
      PROVE  InOrder(t') = InOrder(t) /\ Height(t') <= LeastHeight(t'.count)
  <2>1. Sound(t) /\ t.root # Null /\ t' = Refilled(Cleared(t), MiddleFirst(InOrder(t)))
    BY <1>1 DEF TreeInv, Balance, Discard
  <2> QED BY <2>1, BalancedIs
<1>2. TreeInv /\ [TreeNext]_treevars =>
        [Balance => /\ InOrder(t') = InOrder(t)
                    /\ Height(t') <= LeastHeight(t'.count)]_treevars
  BY <1>1
<1> QED BY <1>2, TreeInvariance, PTL DEF TreeSpec, BalanceIsTight

FindsElements == \A k \in Key : NodeFind(t, k) # Null <=> k \in Elements(t)

\* bintree_find() finds a key exactly when a node of the tree has it.
THEOREM TreeFinds == TreeSpec => []FindsElements
<1>1. TreeInv => FindsElements
  BY FindIs DEF TreeInv, FindsElements
<1> QED BY <1>1, TreeInvariance, PTL

AddsOnlyThat ==
  [][\A d \in Key : Insert(d) => Elements(t') = Elements(t) \cup {d}]_treevars

\* bintree_insert() adds its argument, loses nothing and adds nothing else,
\* which bintree_remove() cannot say of what it removes.
THEOREM TreeAdds == TreeSpec => AddsOnlyThat
<1>1. ASSUME TreeInv, NEW d \in Key, Insert(d) PROVE Elements(t') = Elements(t) \cup {d}
  <2>1. Sound(t) /\ t.live # Node /\ t' = Inserted(t, d)
    BY <1>1 DEF TreeInv, Insert, Becomes
  <2> QED BY <2>1, InsertedIs
<1>2. TreeInv /\ [TreeNext]_treevars =>
        [\A d \in Key : Insert(d) => Elements(t') = Elements(t) \cup {d}]_treevars
  BY <1>1
<1> QED BY <1>2, TreeInvariance, PTL DEF TreeSpec, AddsOnlyThat
-----------------------------------------------------------------------------
(* What a removal removes *)

\* No two nodes of the tree have the same element.
LEMMA ElementsDiffer ==
  ASSUME NEW tree, Shaped(tree), Ordered(tree), NEW m \in Reachable(tree),
         NEW o \in Reachable(tree), tree.data[m] = tree.data[o]
  PROVE  m = o
<1> SUFFICES ASSUME m # o PROVE FALSE
  OBVIOUS
<1> DEFINE B == {a \in Reachable(tree) : m \in Below(tree)[a] /\ o \in Below(tree)[a]}
<1>1. Typed(tree) /\ Acyclic(tree) /\ Reachable(tree) \subseteq Node
      /\ Reachable(tree) = Below(tree)[tree.root] /\ tree.root \in Reachable(tree)
      /\ tree.data[m] \in Nat
  BY ReachableIs DEF Shaped
<1>2. B # {}
  BY <1>1
<1>3. PICK a \in B : tree.left[a] \notin B /\ tree.right[a] \notin B
  <2>1. B \in SUBSET Node
    BY <1>1
  <2> HIDE DEF B
  <2> QED BY <1>1, <1>2, <2>1, LowestOf
<1> DEFINE l == tree.left[a]
           r == tree.right[a]
<1>4. a \in Reachable(tree) /\ a \in Node /\ tree.data[a] \in Nat
  BY <1>1, <1>3, ReachableIs
<1>5. Below(tree)[a] = {a} \cup Below(tree)[l] \cup Below(tree)[r]
  BY <1>1, <1>4, BelowNode
<1>6. ~(m \in Below(tree)[l] /\ o \in Below(tree)[l])
      /\ ~(m \in Below(tree)[r] /\ o \in Below(tree)[r])
  <2>1. l # Null => l \in Reachable(tree)
    BY <1>4, ChildIs
  <2>2. r # Null => r \in Reachable(tree)
    BY <1>4, ChildIs
  <2>3. Below(tree)[Null] = {}
    BY <1>1, BelowNull
  <2> QED BY <1>3, <2>1, <2>2, <2>3
<1>7. ASSUME NEW e \in Below(tree)[l] PROVE tree.data[e] < tree.data[a]
  BY <1>4 DEF Ordered
<1>8. ASSUME NEW e \in Below(tree)[r] PROVE tree.data[a] < tree.data[e]
  BY <1>4 DEF Ordered
<1>9. m \in Below(tree)[a] /\ o \in Below(tree)[a]
  BY <1>3
<1> HIDE DEF B, l, r
<1> QED BY <1>1, <1>4, <1>5, <1>6, <1>7, <1>8, <1>9

LEMMA NotOwnChild ==
  ASSUME NEW tree, Shaped(tree), NEW n \in Reachable(tree)
  PROVE  tree.left[n] # n /\ tree.right[n] # n
<1>1. Typed(tree) /\ Acyclic(tree) /\ {n} \in SUBSET Node /\ {n} # {}
  BY ReachableIs DEF Shaped
<1>2. PICK m \in {n} : tree.left[m] \notin {n} /\ tree.right[m] \notin {n}
  BY <1>1, LowestOf
<1> QED BY <1>2

LEMMA NotBelowRoot ==
  ASSUME NEW tree, Shaped(tree), NEW n \in Reachable(tree), tree.left[n] # Null,
         NEW g \in Below(tree)[tree.left[n]]
  PROVE  g # tree.root
<1> DEFINE l == tree.left[n]
<1>1. l \in Reachable(tree) /\ tree.parent[l] = n /\ n # Null /\ l \in tree.live
  BY ChildIs, ReachableIs
<1>2. g \in Reachable(tree) /\ Below(tree)[l] \subseteq Node
  BY <1>1, ReachableIs
<1>3. g # l => tree.parent[g] \in Below(tree)[l]
  BY <1>1, ParentBelow
<1>4. tree.parent[g] # Null
  BY <1>1, <1>2, <1>3, NullIs
<1> QED BY <1>2, <1>4, ParentIs

\* Unlinking a node loses no other when its place goes to all it leads to.
LEMMA UnlinkedReaches ==
  ASSUME NEW tree, Shaped(tree), NEW g \in Reachable(tree), NEW c \in Place,
         tree.left[g] \in {c, Null}, tree.right[g] \in {c, Null},
         NEW x, NEW v, NEW smaller, Unlinked(tree, g, c, x, v, smaller), Shaped(smaller),
         Reachable(smaller) \subseteq Reachable(tree) \ {g}
  PROVE  Reachable(tree) \ {g} \subseteq Reachable(smaller)
<1> DEFINE R == Reachable(tree)
           S == Reachable(smaller)
           lost(m) == IF m = g THEN c # Null /\ c \notin S ELSE m \notin S
           B == {m \in R : lost(m)}
<1>1. B = {}
  <2> SUFFICES ASSUME B # {} PROVE FALSE
    OBVIOUS
  <2>1. PICK m \in B : tree.parent[m] \notin B
    <3>1. B \in SUBSET Reachable(tree)
      OBVIOUS
    <3> HIDE DEF B
    <3> QED BY <3>1, TopmostOf
  <2>2. m \in R /\ lost(m) /\ m \in Node /\ g \in Node /\ m # Null /\ g # Null
    BY <2>1, ReachableIs, NullIs
  <2> DEFINE p == tree.parent[m]
             heir == IF m = g THEN c ELSE m
  <2>3. heir # Null /\ heir \notin S
    BY <2>2
  <2>4. CASE p = Null
    <3>1. m = tree.root /\ (m # g => tree.parent[g] # Null)
      BY <2>2, <2>4, ParentIs
    <3>2. smaller.root = heir
      BY <2>4, <3>1 DEF Unlinked
    <3>3. heir \in S
      BY <2>3, <3>2, ReachableIs
    <3> QED BY <2>3, <3>3
  <2>5. CASE p # Null /\ p # g
    <3>1. p \in R /\ p \in Node /\ (m = tree.left[p] \/ m = tree.right[p])
      BY <2>2, <2>5, ParentIs
    <3>2. p \in S
      BY <2>1, <2>5, <3>1
    <3>3. smaller.left[p] = heir \/ smaller.right[p] = heir
      BY <2>2, <2>5, <3>1 DEF Unlinked
    <3>4. heir \in S
      BY <2>3, <3>2, <3>3, ReachableIs DEF Closed
    <3> QED BY <2>3, <3>4
  <2>6. CASE p = g
    <3>1. p # Null
      BY <2>2, <2>6
    <3>2. m = tree.left[g] \/ m = tree.right[g]
      BY <2>2, <2>6, <3>1, ParentIs
    <3>3. m = c /\ c # Null
      BY <2>2, <3>2
    <3>4. m # g
      BY <3>2, NotOwnChild
    <3>5. c \in S
      BY <2>1, <2>6, <3>3
    <3> QED BY <2>3, <3>3, <3>4, <3>5
  <2> QED BY <2>4, <2>5, <2>6
<1>2. ASSUME NEW m \in R, m # g PROVE m \in S
  BY <1>1, <1>2
<1> QED BY <1>2

\* A node the code replaces by the rightmost on its left must find that one
\* without a left child: what hangs below it goes with it.
Spared(tree, n) ==
  \/ Null \in {tree.left[n], tree.right[n]}
  \/ tree.left[RightmostFrom(tree, tree.left[n])] = Null

LEMMA RemovedElements ==
  ASSUME NEW tree, Sound(tree), NEW n \in Reachable(tree)
  PROVE  LET left == Elements(tree) \ {tree.data[n]}
         IN  /\ Elements(Removed(tree, n)) \subseteq left
             /\ Elements(Removed(tree, n)) = left <=> Spared(tree, n)
<1> DEFINE R == Reachable(tree)
           smaller == Removed(tree, n)
           S == Reachable(smaller)
           k == tree.data[n]
<1>1. Shaped(tree) /\ Ordered(tree) /\ Typed(tree) /\ Acyclic(tree) /\ R \subseteq Node
  BY ReachableIs DEF Sound, Shaped
<1>2. PICK g \in Reachable(tree), c \in Place :
        \E v \in Key : /\ Heir(tree, g, c) /\ Spliced(tree, n, g, c, v)
                       /\ Unlinked(tree, g, c, n, v, Removed(tree, n))
  BY <1>1, RemovedIs
<1>3. PICK v \in Key : /\ Heir(tree, g, c) /\ Spliced(tree, n, g, c, v)
                       /\ Unlinked(tree, g, c, n, v, Removed(tree, n))
  BY <1>2
<1>4. Shaped(smaller)
  BY RemovedSound DEF Sound
<1> HIDE DEF smaller
<1>5. S \subseteq R \ {g} /\ (c = Null => \A m \in S :
        /\ Below(smaller)[smaller.left[m]] \cap Below(tree)[g] = {}
        /\ Below(smaller)[smaller.right[m]] \cap Below(tree)[g] = {})
  BY <1>1, <1>2, <1>3, <1>4, UnlinkedBelow DEF smaller
<1>6. ASSUME NEW m \in S PROVE smaller.data[m] = IF m = n THEN v ELSE tree.data[m]
  BY <1>1, <1>3, <1>5 DEF Unlinked, smaller
<1> DEFINE l == tree.left[n]
           r == tree.right[n]
<1>7. ASSUME g # n
      PROVE  /\ l # Null /\ g = RightmostFrom(tree, l) /\ c = Null /\ v = tree.data[g]
             /\ g \in Below(tree)[l] /\ tree.right[g] = Null /\ v # k
  <2>1. l # Null /\ g = RightmostFrom(tree, l) /\ c = Null /\ v = tree.data[g]
    BY <1>3, <1>7 DEF Spliced
  <2>2. l \in R
    BY <1>1, <2>1, ChildIs
  <2>3. g \in Below(tree)[l] /\ tree.right[g] = Null
    BY <1>1, <2>1, <2>2, RightmostIs
  <2>4. tree.data[g] # tree.data[n]
    BY <1>1, <1>2, <1>7, ElementsDiffer
  <2> QED BY <2>1, <2>3, <2>4
<1>8. Elements(smaller) \subseteq Elements(tree) \ {k}
  <2> SUFFICES ASSUME NEW m \in S
               PROVE  smaller.data[m] \in Elements(tree) /\ smaller.data[m] # k
    BY DEF Elements
  <2>1. m \in R /\ m # g
    BY <1>5
  <2>2. CASE m = n
    <3>1. smaller.data[m] = tree.data[g] /\ v # k /\ smaller.data[m] = v
      BY <1>6, <1>7, <2>1, <2>2
    <3> QED BY <1>2, <3>1 DEF Elements
  <2>3. CASE m # n
    <3>1. smaller.data[m] = tree.data[m] /\ tree.data[m] # k
      BY <1>1, <1>6, <2>1, <2>3, ElementsDiffer
    <3> QED BY <2>1, <3>1 DEF Elements
  <2> QED BY <2>2, <2>3
<1>9. ASSUME tree.left[g] \in {c, Null}, tree.right[g] \in {c, Null}
      PROVE  Elements(tree) \ {k} \subseteq Elements(smaller)
  <2>1. R \ {g} \subseteq S
    BY <1>1, <1>2, <1>3, <1>4, <1>5, <1>9, UnlinkedReaches DEF smaller
  <2> SUFFICES ASSUME NEW m \in R, tree.data[m] # k
               PROVE  \E o \in S : smaller.data[o] = tree.data[m]
    BY DEF Elements
  <2>2. m # n
    OBVIOUS
  <2>3. CASE m = g
    <3>1. n \in S /\ smaller.data[n] = tree.data[m]
      BY <1>6, <1>7, <2>1, <2>2, <2>3
    <3> QED BY <3>1
  <2>4. CASE m # g
    <3>1. m \in S /\ smaller.data[m] = tree.data[m]
      BY <1>6, <2>1, <2>2, <2>4
    <3> QED BY <3>1
  <2> QED BY <2>3, <2>4
<1>10. ASSUME g # n, tree.left[g] # Null
       PROVE  Elements(smaller) # Elements(tree) \ {k}
  <2> DEFINE e == tree.left[g]
  <2>1. e \in R /\ e \in Below(tree)[g] /\ g \in Node /\ e # Null
    <3>1. e \in R /\ g \in Node
      BY <1>1, <1>2, <1>10, ChildIs
    <3>2. Closed(tree, Below(tree)[g]) /\ g \in Below(tree)[g]
      BY <1>1, <3>1, BelowClosed, BelowNode DEF Place
    <3> QED BY <1>10, <3>1, <3>2 DEF Closed
  <2>2. e \notin S
    <3> SUFFICES ASSUME e \in S PROVE FALSE
      OBVIOUS
    <3>1. e # tree.root /\ tree.parent[g] # Null
      <4>1. tree.parent[e] # Null
        BY <1>1, <1>2, <2>1, ChildIs
      <4>2. g # tree.root
        BY <1>1, <1>7, <1>10, NotBelowRoot
      <4> QED BY <1>1, <1>2, <2>1, <4>1, <4>2, ParentIs
    <3>2. smaller.root = tree.root
      BY <1>3, <3>1 DEF Unlinked, smaller
    <3>3. smaller.parent[e] # Null
      BY <1>1, <3>1, <3>2, <1>4, ParentIs
    <3> DEFINE p == smaller.parent[e]
    <3>4. p \in S /\ (e = smaller.left[p] \/ e = smaller.right[p])
      BY <1>4, <3>3, ParentIs
    <3>5. e \in Below(smaller)[e]
      BY <1>1, <1>4, <2>1, BelowNode DEF Shaped
    <3> QED BY <1>5, <1>7, <1>10, <2>1, <3>4, <3>5
  <2>3. tree.data[e] \in Elements(tree) /\ tree.data[e] # k
    <3>1. e # n
      <4>1. e \in Below(tree)[l]
        BY <1>1, <1>7, <1>10, <2>1, DataTyped, BelowBelow
      <4>2. tree.data[e] < tree.data[n] /\ tree.data[e] \in Nat /\ tree.data[n] \in Nat
        BY <1>1, <2>1, <4>1, ReachableIs DEF Ordered
      <4> QED BY <4>2
    <3> QED BY <1>1, <2>1, <3>1, ElementsDiffer DEF Elements
  <2>4. tree.data[e] # tree.data[g]
    BY <1>1, <1>2, <2>1, ElementsDiffer, NotOwnChild
  <2>5. tree.data[e] \notin Elements(smaller)
    <3> SUFFICES ASSUME NEW m \in S, smaller.data[m] = tree.data[e] PROVE FALSE
      BY DEF Elements
    <3>1. CASE m = n
      BY <1>6, <1>7, <1>10, <2>4, <3>1
    <3>2. CASE m # n
      <4>1. tree.data[m] = tree.data[e] /\ m \in R
        BY <1>5, <1>6, <3>2
      <4>2. m = e
        BY <1>1, <2>1, <4>1, ElementsDiffer
      <4> QED BY <2>2, <4>2
    <3> QED BY <3>1, <3>2
  <2> QED BY <2>3, <2>5
<1>11. CASE g = n
  <2>1. g \notin Below(tree)[l]
    BY <1>1, <1>11, SidesApart
  <2>2. ~(l # Null /\ g = RightmostFrom(tree, l))
    BY <1>1, <2>1, ChildIs, RightmostIs
  <2>3. Null \in {l, r} /\ l \in {c, Null} /\ r \in {c, Null}
    BY <1>3, <2>2 DEF Spliced
  <2>4. Spared(tree, n)
    BY <2>3 DEF Spared
  <2>5. Elements(tree) \ {k} \subseteq Elements(smaller)
    BY <1>9, <1>11, <2>3
  <2> QED BY <1>8, <2>4, <2>5 DEF smaller
<1>12. CASE g # n
  <2>1. l # Null /\ r # Null /\ g = RightmostFrom(tree, l)
    BY <1>3, <1>12 DEF Spliced
  <2>2. Spared(tree, n) <=> tree.left[g] = Null
    BY <2>1 DEF Spared
  <2>3. CASE tree.left[g] = Null
    <3>1. Elements(tree) \ {k} \subseteq Elements(smaller)
      BY <1>7, <1>9, <1>12, <2>3
    <3> QED BY <1>8, <2>2, <2>3, <3>1 DEF smaller
  <2>4. CASE tree.left[g] # Null
    BY <1>8, <1>10, <1>12, <2>2, <2>4 DEF smaller
  <2> QED BY <2>3, <2>4
<1> QED BY <1>11, <1>12

RemovesExactly ==
  [][\A k \in Key : RemoveKey(k) =>
       /\ Elements(t') \subseteq Elements(t) \ {k}
       /\ Elements(t') = Elements(t) \ {k} <=> Spared(t, NodeFind(t, k))]_treevars

\* bintree_remove() always removes its argument and never adds an element; it
\* removes nothing else exactly when the node has a child missing, or the
\* rightmost node on its left, which takes its place, has no left child.
THEOREM TreeRemoves == TreeSpec => RemovesExactly
<1>1. ASSUME TreeInv, NEW k \in Key, RemoveKey(k)
      PROVE  /\ Elements(t') \subseteq Elements(t) \ {k}
             /\ Elements(t') = Elements(t) \ {k} <=> Spared(t, NodeFind(t, k))
  <2> DEFINE n == NodeFind(t, k)
  <2>1. Sound(t) /\ n # Null /\ t' = Removed(t, n)
    BY <1>1 DEF TreeInv, RemoveKey, Becomes
  <2>2. n \in Reachable(t) /\ t.data[n] = k
    BY <2>1, FindIs
  <2> HIDE DEF n
  <2>3. /\ Elements(Removed(t, n)) \subseteq Elements(t) \ {k}
        /\ Elements(Removed(t, n)) = Elements(t) \ {k} <=> Spared(t, n)
    BY <2>1, <2>2, RemovedElements
  <2> QED BY <2>1, <2>3 DEF n
<1>2. TreeInv /\ [TreeNext]_treevars =>
        [\A k \in Key : RemoveKey(k) =>
           /\ Elements(t') \subseteq Elements(t) \ {k}
           /\ Elements(t') = Elements(t) \ {k} <=> Spared(t, NodeFind(t, k))]_treevars
  BY <1>1
<1> QED BY <1>2, TreeInvariance, PTL DEF TreeSpec, RemovesExactly

-----------------------------------------------------------------------------
(* The ring buffer *)

\* The queued slots hold bytes, never unwritten memory.
QueuedBytes == \A i \in 1 .. num : buf[Slot(i)] \in Byte

\* What the tests ringbuf_put() has passed so far established.
PutProgress ==
  /\ pc = "size" => /\ bufsz - num < Len(arg)
                    /\ nbufsz >= bufsz
                    /\ nbufsz # bufsz => nbufsz < 2 * (num + Len(arg))
  /\ pc = "copy" => Len(arg) <= bufsz - num

\* A put of at least one byte leaves head beyond the start of the buffer, so
\* a full buffer drained to its end empties with tail on head, not bufsz off.
HeadMoved == num > 0 => head > 0

IInv == TypeOK /\ CursorsAgree /\ QueuedBytes /\ PutProgress /\ HeadMoved

USE SizesAssumption, ChunksAssumption, RequestsAssumption, FillAssumption

LEMMA InitIInv == Init => IInv
<1> SUFFICES ASSUME Init PROVE IInv
  OBVIOUS
<1>1. TypeOK
  BY EmptySeq DEF Init, TypeOK, Malloc
<1>2. CursorsAgree /\ QueuedBytes /\ PutProgress /\ HeadMoved
  BY DEF Init, CursorsAgree, QueuedBytes, PutProgress, HeadMoved
<1> QED
  BY <1>1, <1>2 DEF IInv

\* The call of a put only records its arguments and what line 116 found.
LEMMA PutCallIInv ==
  ASSUME IInv, NEW data \in Chunks, PutCall(data)
  PROVE  IInv'
<1> USE DEF IInv
<1>1. /\ UNCHANGED <<buf, bufsz, head, tail, num>>
      /\ data \in Seq(Byte) /\ arg' = data /\ out' = <<>>
      /\ Len(data) \in Nat
  BY LenProperties DEF PutCall, ring
<1>2. TypeOK'
  BY <1>1, EmptySeq DEF PutCall, TypeOK
<1>3. CursorsAgree' /\ HeadMoved'
  BY <1>1 DEF CursorsAgree, HeadMoved
<1>4. QueuedBytes'
  BY <1>1 DEF QueuedBytes, Slot
<1>5. PutProgress'
  BY <1>1 DEF PutProgress, PutCall, TypeOK
<1> QED
  BY <1>2, <1>3, <1>4, <1>5

LEMMA PutDoubleIInv ==
  ASSUME IInv, PutDouble
  PROVE  IInv'
<1> USE DEF IInv
<1>1. UNCHANGED <<buf, bufsz, head, tail, num, pc, arg, out>>
      /\ nbufsz' = 2 * nbufsz
  BY DEF PutDouble, ring, TypeOK
<1>2. TypeOK'
  BY <1>1 DEF TypeOK
<1>3. CursorsAgree' /\ QueuedBytes' /\ HeadMoved'
  BY <1>1 DEF CursorsAgree, QueuedBytes, Slot, HeadMoved
<1>4. PutProgress'
  <2>1. Len(arg) \in Nat /\ nbufsz - num < Len(arg) /\ pc = "size"
    BY LenProperties DEF PutDouble, TooSmall, TypeOK
  <2> QED
    BY <1>1, <2>1 DEF PutProgress, TypeOK
<1> QED
  BY <1>2, <1>3, <1>4

\* Moving to the new buffer keeps every queued byte, in order, from offset 0.
LEMMA RelocatedContent ==
  ASSUME TypeOK, CursorsAgree, NEW n \in Nat, num <= n
  PROVE  /\ Relocated(n) \in [0 .. (n - 1) -> Byte \cup {Junk}]
         /\ \A i \in 1 .. num : Relocated(n)[i - 1] = buf[Slot(i)]
<1>1. ASSUME NEW i \in 0 .. (n - 1)
      PROVE  Relocated(n)[i] \in Byte \cup {Junk}
  BY DEF Relocated, Wrapped, TypeOK, CursorsAgree
<1>2. ASSUME NEW i \in 1 .. num
      PROVE  Relocated(n)[i - 1] = buf[Slot(i)]
  <2>1. i - 1 \in 0 .. (n - 1)
    BY DEF TypeOK
  <2>2. CASE Wrapped
    BY <2>1, <2>2 DEF Relocated, Wrapped, TypeOK, CursorsAgree, Slot
  <2>3. CASE ~Wrapped
    BY <2>1, <2>3 DEF Relocated, Wrapped, TypeOK, CursorsAgree, Slot
  <2> QED
    BY <2>2, <2>3
<1>3. Relocated(n) = [i \in 0 .. (n - 1) |-> Relocated(n)[i]]
  BY DEF Relocated
<1> QED
  BY <1>1, <1>2, <1>3

LEMMA PutGrowIInv ==
  ASSUME IInv, PutGrow
  PROVE  IInv' /\ \A i \in 1 .. num : buf'[Slot(i)'] = buf[Slot(i)]
<1> USE DEF IInv
<1>1. /\ buf' = Relocated(nbufsz) /\ bufsz' = nbufsz
      /\ head' = num /\ tail' = 0 /\ pc = "size" /\ pc' = "copy"
      /\ UNCHANGED <<num, nbufsz, arg, out>>
      /\ Len(arg) \in Nat
      /\ nbufsz - num >= Len(arg)
  BY LenProperties DEF PutGrow, TooSmall, TypeOK
<1>2. nbufsz \in Nat /\ num <= nbufsz
  BY <1>1 DEF TypeOK, PutProgress
<1>3. TypeOK'
  BY <1>1, <1>2, RelocatedContent DEF TypeOK
<1>4. CursorsAgree' /\ HeadMoved'
  BY <1>1, <1>2 DEF CursorsAgree, HeadMoved, TypeOK
<1>5. \A i \in 1 .. num : buf'[Slot(i)'] = buf[Slot(i)]
  <2>1. ASSUME NEW i \in 1 .. num PROVE Slot(i)' = i - 1
    BY <1>1, <1>2 DEF Slot, TypeOK
  <2> QED
    BY <2>1, <1>1, <1>2, RelocatedContent
<1>6. QueuedBytes'
  BY <1>1, <1>5 DEF QueuedBytes
<1>7. PutProgress'
  BY <1>1 DEF PutProgress
<1> QED
  BY <1>3, <1>4, <1>5, <1>6, <1>7

\* The copy of the caller's bytes touches no queued byte and fills the slots
\* that follow them.
LEMMA PutCopyIInv ==
  ASSUME IInv, PutCopy
  PROVE  /\ IInv'
         /\ num' = num + Len(arg)
         /\ \A i \in 1 .. num : buf'[Slot(i)'] = buf[Slot(i)]
         /\ \A j \in (num + 1) .. (num + Len(arg)) : buf'[Slot(j)'] = arg[j - num]
<1> DEFINE n == Len(arg)
           k == AvailToPut
<1> USE DEF IInv
<1>1. /\ pc = "copy" /\ pc' = "idle" /\ num' = num + n
      /\ nbufsz' = 0 /\ arg' = <<>>
      /\ UNCHANGED <<bufsz, tail, out>>
  BY DEF PutCopy
<1>2. /\ n \in Nat /\ n <= bufsz - num
      /\ arg \in [1 .. n -> Byte]
  BY <1>1, LenProperties DEF TypeOK, PutProgress
<1>3. \A i \in Nat : Slot(i)' = Slot(i)
  BY <1>1 DEF Slot
<1>4. k \in Nat /\ k <= bufsz
  BY DEF AvailToPut, Wrapped, TypeOK
<1> DEFINE Done ==
             /\ TypeOK' /\ CursorsAgree' /\ HeadMoved'
             /\ \A i \in 1 .. num : buf'[Slot(i)'] = buf[Slot(i)]
             /\ \A j \in (num + 1) .. (num + n) : buf'[Slot(j)'] = arg[j - num]
<1>5. ASSUME k >= n PROVE Done
  <2>1. buf' = Memcpy(buf, head, arg, 0, n) /\ head' = head + n
    BY <1>5 DEF PutCopy
  <2>2. ASSUME NEW i \in 0 .. (bufsz - 1)
        PROVE  buf'[i] = IF i \in head .. (head + n - 1)
                           THEN arg[i - head + 1] ELSE buf[i]
    BY <2>1, <1>2 DEF Memcpy, TypeOK
  <2>3. TypeOK'
    <3>1. buf' = [i \in 0 .. (bufsz - 1) |-> buf'[i]]
      BY <2>1 DEF Memcpy, TypeOK
    <3>2. ASSUME NEW i \in 0 .. (bufsz - 1)
          PROVE  buf'[i] \in Byte \cup {Junk}
      <4>1. CASE i \in head .. (head + n - 1)
        <5>1. i - head + 1 \in 1 .. n
          BY <4>1, <1>2 DEF TypeOK
        <5> QED
          BY <4>1, <5>1, <2>2, <1>2
      <4>2. CASE i \notin head .. (head + n - 1)
        BY <4>2, <2>2 DEF TypeOK
      <4> QED
        BY <4>1, <4>2
    <3>3. head' \in 0 .. bufsz
      BY <2>1, <1>5, <1>2 DEF AvailToPut, Wrapped, TypeOK
    <3> QED
      BY <3>1, <3>2, <3>3, <1>1, <1>2, EmptySeq DEF TypeOK
  <2>4. CursorsAgree' /\ HeadMoved'
    <3>1. /\ {bufsz, head, tail, num, n} \subseteq Nat
          /\ head <= bufsz /\ tail <= bufsz /\ num <= bufsz
      BY <1>2 DEF TypeOK
    <3>2. /\ head' = head + n /\ num' = num + n
          /\ tail' = tail /\ bufsz' = bufsz
      BY <2>1, <1>1
    <3>3. CASE Wrapped
      <4>1. num = bufsz - tail + head /\ n <= tail - head /\ num > 0
        BY <3>1, <3>3, <1>5 DEF CursorsAgree, AvailToPut, Wrapped
      <4> QED
        BY <3>1, <3>2, <4>1, <1>2 DEF CursorsAgree, HeadMoved
    <3>4. CASE ~Wrapped
      <4>1. head = tail + num /\ n <= bufsz - head
        BY <3>1, <3>4, <1>5 DEF CursorsAgree, AvailToPut, Wrapped
      <4>2. CursorsAgree'
        <5>1. /\ num' = 0 => head' = tail'
              /\ num' > 0 => ~(head' <= tail')
              /\ num' = head' - tail'
          BY <3>1, <3>2, <4>1
        <5> QED
          BY <5>1 DEF CursorsAgree
      <4>3. HeadMoved'
        BY <3>1, <3>2, <4>1 DEF HeadMoved
      <4> QED
        BY <4>2, <4>3
    <3> QED
      BY <3>3, <3>4
  <2>5. ASSUME NEW i \in 1 .. num
        PROVE  buf'[Slot(i)'] = buf[Slot(i)]
    <3>1. Slot(i) \in 0 .. (bufsz - 1) /\ Slot(i) \notin head .. (head + n - 1)
      BY <1>2, <1>5 DEF Slot, CursorsAgree, AvailToPut, Wrapped, TypeOK
    <3> QED
      BY <3>1, <2>2, <1>3 DEF TypeOK
  <2>6. ASSUME NEW j \in (num + 1) .. (num + n)
        PROVE  buf'[Slot(j)'] = arg[j - num]
    <3>1. /\ Slot(j) = head + j - num - 1
          /\ head + j - num - 1 \in 0 .. (bufsz - 1)
      BY <1>2, <1>5 DEF Slot, CursorsAgree, AvailToPut, Wrapped, TypeOK
    <3>2. /\ head + j - num - 1 \in head .. (head + n - 1)
          /\ (head + j - num - 1) - head + 1 = j - num
          /\ j \in Nat
      BY <1>2 DEF TypeOK
    <3> QED
      BY <3>1, <3>2, <2>2, <1>3
  <2> QED
    BY <2>3, <2>4, <2>5, <2>6
<1>6. ASSUME ~(k >= n) PROVE Done
  <2>1. /\ buf' = Memcpy(Memcpy(buf, head, arg, 0, k), 0, arg, k, n - k)
        /\ head' = n - k
    BY <1>6 DEF PutCopy
  <2>2. ~Wrapped /\ k = bufsz - head /\ head = tail + num
    BY <1>6, <1>2 DEF CursorsAgree, AvailToPut, Wrapped, TypeOK
  <2>3. ASSUME NEW i \in 0 .. (bufsz - 1)
        PROVE  buf'[i] = IF i < n - k THEN arg[i + k + 1]
                         ELSE IF i >= head THEN arg[i - head + 1] ELSE buf[i]
    BY <2>1, <2>2, <1>2, <1>4, <1>6 DEF Memcpy, TypeOK
  <2>4. TypeOK'
    <3>1. buf' = [i \in 0 .. (bufsz - 1) |-> buf'[i]]
      BY <2>1 DEF Memcpy, TypeOK
    <3>2. ASSUME NEW i \in 0 .. (bufsz - 1)
          PROVE  buf'[i] \in Byte \cup {Junk}
      <4>1. CASE i < n - k
        <5>1. i + k + 1 \in 1 .. n
          BY <4>1, <1>2, <1>4
        <5> QED
          BY <4>1, <5>1, <2>3, <1>2
      <4>2. CASE i >= n - k /\ i >= head
        <5>1. i - head + 1 \in 1 .. n
          BY <4>2, <1>2, <1>6, <2>2 DEF TypeOK
        <5> QED
          BY <4>2, <5>1, <2>3, <1>2, <1>4
      <4>3. CASE i >= n - k /\ i < head
        BY <4>3, <2>3, <1>2, <1>4 DEF TypeOK
      <4> QED
        BY <4>1, <4>2, <4>3, <1>2, <1>4 DEF TypeOK
    <3>3. head' \in 0 .. bufsz
      BY <2>1, <1>2, <1>4, <1>6 DEF TypeOK
    <3> QED
      BY <3>1, <3>2, <3>3, <1>1, <1>2, EmptySeq DEF TypeOK
  <2>5. CursorsAgree' /\ HeadMoved'
    BY <2>1, <2>2, <1>1, <1>2, <1>4, <1>6 DEF CursorsAgree, HeadMoved, TypeOK
  <2>6. ASSUME NEW i \in 1 .. num
        PROVE  buf'[Slot(i)'] = buf[Slot(i)]
    <3>1. Slot(i) \in (n - k) .. (head - 1)
      BY <2>2, <1>2, <1>6 DEF Slot, TypeOK
    <3> QED
      BY <3>1, <2>2, <2>3, <1>2, <1>4, <1>6, <1>3 DEF TypeOK
  <2>7. ASSUME NEW j \in (num + 1) .. (num + n)
        PROVE  buf'[Slot(j)'] = arg[j - num]
    <3> j \in Nat /\ j - num \in 1 .. n /\ Slot(j)' = Slot(j)
      BY <1>2, <1>3 DEF TypeOK
    <3>1. CASE j - num <= k
      <4>1. Slot(j) = head + (j - num) - 1
        BY <3>1, <2>2, <1>2, <1>6 DEF Slot, TypeOK
      <4>2. /\ Slot(j) \in 0 .. (bufsz - 1)
            /\ ~(Slot(j) < n - k) /\ Slot(j) >= head
            /\ Slot(j) - head + 1 = j - num
        BY <4>1, <3>1, <2>2, <1>2, <1>6 DEF TypeOK
      <4> QED
        BY <4>2, <2>3
    <3>2. CASE j - num > k
      <4>1. Slot(j) = (j - num) - k - 1
        BY <3>2, <2>2, <1>2, <1>6 DEF Slot, TypeOK
      <4>2. /\ Slot(j) \in 0 .. (bufsz - 1) /\ Slot(j) < n - k
            /\ Slot(j) + k + 1 = j - num
        BY <4>1, <3>2, <2>2, <1>2, <1>4, <1>6 DEF TypeOK
      <4> QED
        BY <4>2, <2>3
    <3> QED
      BY <3>1, <3>2, <1>2, <1>4
  <2> QED
    BY <2>4, <2>5, <2>6, <2>7
<1> HIDE DEF n, k
<1> Done
  BY <1>5, <1>6
<1>7. QueuedBytes'
  <2> SUFFICES ASSUME NEW i \in 1 .. num'
               PROVE  buf'[Slot(i)'] \in Byte
    BY DEF QueuedBytes
  <2>1. CASE i <= num
    <3>1. i \in 1 .. num
      BY <2>1, <1>1, <1>2 DEF TypeOK
    <3> QED
      BY <3>1 DEF QueuedBytes
  <2>2. CASE i > num
    <3>1. i - num \in 1 .. n /\ i \in (num + 1) .. (num + n)
      BY <2>2, <1>1, <1>2 DEF TypeOK
    <3> QED
      BY <3>1, <1>2
  <2> QED
    BY <2>1, <2>2, <1>1, <1>2 DEF TypeOK
<1>8. PutProgress'
  BY <1>1 DEF PutProgress
<1> QED
  BY <1>1, <1>7, <1>8 DEF n

\* The two pieces do_get() copies are the oldest bytes, in order.
LEMMA OldestContent ==
  ASSUME IInv, num > 0, NEW k \in 0 .. num
  PROVE  /\ Oldest(k) \in Seq(Byte)
         /\ Len(Oldest(k)) = k
         /\ \A i \in 1 .. k : Oldest(k)[i] = buf[Slot(i)]
<1> USE DEF IInv
<1>1. ASSUME NEW i \in 1 .. k
      PROVE  Oldest(k)[i] = buf[Slot(i)]
  BY DEF Oldest, Slot, AvailToGet, Wrapped, CursorsAgree, TypeOK
<1>2. \A i \in 1 .. k : Oldest(k)[i] \in Byte
  BY <1>1 DEF QueuedBytes, TypeOK
<1>3. Oldest(k) = [i \in 1 .. k |-> Oldest(k)[i]]
  BY DEF Oldest
<1>4. k \in Nat
  BY DEF TypeOK
<1>5. Oldest(k) \in [1 .. k -> Byte]
  BY <1>2, <1>3
<1>6. Oldest(k) \in Seq(Byte) /\ Len(Oldest(k)) = k
  BY <1>4, <1>5, SeqDef, LenProperties
<1> QED
  BY <1>1, <1>6

LEMMA DoGetIInv ==
  ASSUME IInv, NEW n \in Requests, NEW peek \in BOOLEAN, DoGet(n, peek)
  PROVE  LET k == Lesser(n, num)
         IN  /\ IInv'
             /\ k \in 0 .. num
             /\ out' \in Seq(Byte) /\ Len(out') = k
             /\ \A i \in 1 .. k : out'[i] = buf[Slot(i)]
             /\ UNCHANGED <<pc, arg>>
             /\ peek => /\ num' = num
                        /\ \A i \in 1 .. num : buf'[Slot(i)'] = buf[Slot(i)]
             /\ ~peek => /\ num' = num - k
                         /\ \A i \in 1 .. (num - k) :
                              buf'[Slot(i)'] = buf[Slot(i + k)]
<1> DEFINE k == Lesser(n, num)
<1> USE DEF IInv
<1>1. k \in 0 .. num /\ (num = 0 => k = 0)
  BY DEF Lesser, TypeOK
<1>2. out' \in Seq(Byte) /\ Len(out') = k /\ \A i \in 1 .. k : out'[i] = buf[Slot(i)]
  <2>1. CASE num = 0
    BY <2>1, <1>1, EmptySeq DEF DoGet
  <2>2. CASE num > 0
    <3>1. out' = Oldest(k)
      BY <2>2 DEF DoGet
    <3> HIDE DEF k
    <3> QED
      BY <3>1, <2>2, <1>1, OldestContent
  <2> QED
    BY <2>1, <2>2 DEF TypeOK
<1>3. UNCHANGED <<buf, bufsz, head, pc, nbufsz, arg>>
  BY DEF DoGet
<1>4. CASE num = 0 \/ peek
  <2>1. UNCHANGED <<tail, num>>
    BY <1>4 DEF DoGet
  <2>2. IInv'
    BY <2>1, <1>2, <1>3
       DEF TypeOK, CursorsAgree, QueuedBytes, PutProgress, HeadMoved, Slot
  <2>3. \A i \in 1 .. num : buf'[Slot(i)'] = buf[Slot(i)]
    BY <2>1, <1>3 DEF Slot
  <2> QED
    BY <2>1, <2>2, <2>3, <1>1, <1>2, <1>3, <1>4 DEF TypeOK
<1>5. CASE num > 0 /\ ~peek
  <2>1. /\ tail' = IF AvailToGet >= k THEN tail + k ELSE k - AvailToGet
        /\ num' = num - k
    BY <1>5 DEF DoGet, TypeOK
  <2> HIDE DEF k
  <2>2. TypeOK' /\ CursorsAgree'
    <3>1. tail' \in 0 .. bufsz
      BY <2>1, <1>1, <1>5 DEF AvailToGet, Wrapped, CursorsAgree, TypeOK
    <3>2. TypeOK'
      BY <3>1, <2>1, <1>1, <1>2, <1>3 DEF TypeOK
    <3>3. CursorsAgree'
      BY <2>1, <1>1, <1>3, <1>5
         DEF AvailToGet, Wrapped, CursorsAgree, HeadMoved, TypeOK
    <3> QED
      BY <3>2, <3>3
  <2>3. ASSUME NEW i \in 1 .. (num - k)
        PROVE  buf'[Slot(i)'] = buf[Slot(i + k)]
    <3>1. Slot(i)' = Slot(i + k)
      BY <2>1, <1>1, <1>3, <1>5
         DEF Slot, AvailToGet, Wrapped, CursorsAgree, HeadMoved, TypeOK
    <3> QED
      BY <3>1, <1>3
  <2>4. QueuedBytes'
    <3>1. ASSUME NEW i \in 1 .. (num - k)
          PROVE  buf'[Slot(i)'] \in Byte
      <4>1. i + k \in 1 .. num
        BY <1>1 DEF TypeOK
      <4>2. buf[Slot(i + k)] \in Byte
        BY <4>1 DEF QueuedBytes
      <4> QED
        BY <4>2, <2>3
    <3> QED
      BY <3>1, <2>1 DEF QueuedBytes
  <2>5. PutProgress' /\ HeadMoved'
    BY <2>1, <1>1, <1>3, <1>5 DEF PutProgress, HeadMoved, DoGet, TypeOK
  <2> QED
    BY <2>1, <2>2, <2>3, <2>4, <2>5, <1>1, <1>2, <1>3, <1>5 DEF k
<1> QED
  BY <1>4, <1>5 DEF TypeOK

LEMMA ClearIInv ==
  ASSUME IInv, Clear
  PROVE  IInv'
<1> USE DEF IInv
<1>1. TypeOK'
  BY EmptySeq DEF Clear, TypeOK
<1>2. CursorsAgree' /\ QueuedBytes' /\ PutProgress' /\ HeadMoved'
  BY DEF Clear, CursorsAgree, QueuedBytes, PutProgress, HeadMoved
<1> QED
  BY <1>1, <1>2

LEMMA NextIInv == IInv /\ [Next]_vars => IInv'
<1> SUFFICES ASSUME IInv, [Next]_vars PROVE IInv'
  OBVIOUS
<1>1. ASSUME NEW data \in Chunks, PutCall(data) PROVE IInv'
  BY <1>1, PutCallIInv
<1>2. CASE PutDouble
  BY <1>2, PutDoubleIInv
<1>3. CASE PutGrow
  BY <1>3, PutGrowIInv
<1>4. CASE PutCopy
  BY <1>4, PutCopyIInv
<1>5. ASSUME NEW n \in Requests, NEW peek \in BOOLEAN, DoGet(n, peek) PROVE IInv'
  BY <1>5, DoGetIInv
<1>6. CASE Clear
  BY <1>6, ClearIInv
<1>7. CASE UNCHANGED vars
  BY <1>7 DEF vars, IInv, TypeOK, CursorsAgree, QueuedBytes, PutProgress,
              HeadMoved, Slot
<1> QED
  BY <1>1, <1>2, <1>3, <1>4, <1>5, <1>6, <1>7 DEF Next, Running

\* The inductive invariant holds of every behaviour of ringbuf.c.
THEOREM Invariance == Spec => []IInv
<1>1. Init => IInv
  BY InitIInv
<1>2. IInv /\ [Next]_vars => IInv'
  BY NextIInv
<1> QED
  BY <1>1, <1>2, PTL DEF Spec

\* ringbuf.c keeps its fields in range and hands out nothing but bytes.
THEOREM TypeCorrect == Spec => []TypeOK
<1>1. IInv => TypeOK
  BY DEF IInv
<1> QED
  BY <1>1, Invariance, PTL

\* The cursors ringbuf.c derives "wrapped" from agree with its count.
THEOREM CursorsCorrect == Spec => []CursorsAgree
<1>1. IInv => CursorsAgree
  BY DEF IInv
<1> QED
  BY <1>1, Invariance, PTL

\* ringbuf_put() grows the buffer only when it must, and never to twice what
\* it then has to hold.
THEOREM GrowthCorrect == Spec => GrowthIsTight
<1>1. IInv /\ [Next]_vars =>
        [bufsz' # bufsz => /\ bufsz < num + Len(arg)
                           /\ num + Len(arg) <= bufsz'
                           /\ bufsz' < 2 * (num + Len(arg))]_vars
  <2> SUFFICES ASSUME IInv, Next, bufsz' # bufsz
               PROVE  /\ bufsz < num + Len(arg)
                      /\ num + Len(arg) <= bufsz'
                      /\ bufsz' < 2 * (num + Len(arg))
    BY DEF vars
  <2>1. PutGrow
    BY DEF Next, Running, PutCall, PutDouble, PutCopy, DoGet, Clear, ring
  <2>2. Len(arg) \in Nat
    BY LenProperties DEF IInv, TypeOK
  <2> QED
    BY <2>1, <2>2 DEF PutGrow, TooSmall, IInv, TypeOK, PutProgress
<1> QED
  BY <1>1, Invariance, PTL DEF Spec, GrowthIsTight

-----------------------------------------------------------------------------
(* The refinement: every step of ringbuf.c is a step of the queue or, for *)
(* the doubling and the move to a larger buffer, leaves it as it is.      *)

ContentFacts ==
  /\ Content \in Seq(Byte)
  /\ Len(Content) = num
  /\ \A i \in 1 .. num : Content[i] = buf[Slot(i)]

LEMMA ContentIsSeq == IInv => ContentFacts
<1> SUFFICES ASSUME IInv PROVE ContentFacts
  OBVIOUS
<1>1. num \in Nat
  BY DEF IInv, TypeOK
<1>2. \A i \in 1 .. num : Content[i] = buf[Slot(i)] /\ Content[i] \in Byte
  BY DEF IInv, QueuedBytes, Content
<1>3. Content = [i \in 1 .. num |-> Content[i]]
  BY DEF Content
<1>4. Content \in [1 .. num -> Byte]
  BY <1>2, <1>3
<1> QED
  BY <1>1, <1>2, <1>4, SeqDef, LenProperties DEF ContentFacts

\* A step that keeps the queued bytes and their places keeps the content.
LEMMA SameContent ==
  ASSUME ContentFacts, ContentFacts', num' = num, num \in Nat,
         \A i \in 1 .. num : buf'[Slot(i)'] = buf[Slot(i)]
  PROVE  Content' = Content
<1>1. \A i \in 1 .. Len(Content) : Content'[i] = Content[i]
  BY DEF ContentFacts
<1> QED
  BY <1>1, SeqEqual DEF ContentFacts

LEMMA PutCopyRefines ==
  ASSUME IInv, PutCopy, ContentFacts, ContentFacts'
  PROVE  Content' = Content \o arg
<1>1. /\ num \in Nat /\ arg \in Seq(Byte) /\ Len(arg) \in Nat
      /\ Content \in Seq(Byte) /\ Content' \in Seq(Byte)
  BY LenProperties DEF IInv, TypeOK, ContentFacts
<1>2. Len(Content \o arg) = num + Len(arg) /\ Len(Content') = num + Len(arg)
  BY <1>1, ConcatProperties, PutCopyIInv DEF ContentFacts
<1>3. ASSUME NEW i \in 1 .. (num + Len(arg))
      PROVE  Content'[i] = (Content \o arg)[i]
  <2>1. (Content \o arg)[i] = IF i <= num THEN Content[i] ELSE arg[i - num]
    BY <1>1, ConcatProperties DEF ContentFacts
  <2>2. Content'[i] = buf'[Slot(i)']
    BY <1>1, PutCopyIInv DEF ContentFacts
  <2>3. CASE i <= num
    <3>1. i \in 1 .. num
      BY <2>3, <1>1
    <3> QED
      BY <3>1, <2>1, <2>2, <2>3, PutCopyIInv DEF ContentFacts
  <2>4. CASE ~(i <= num)
    <3>1. i \in (num + 1) .. (num + Len(arg))
      BY <2>4, <1>1
    <3> QED
      BY <3>1, <2>1, <2>2, <2>4, PutCopyIInv
  <2> QED
    BY <2>3, <2>4
<1> QED
  BY <1>1, <1>2, <1>3, SeqEqual, ConcatProperties

\* A get or a peek is the one of the queue.
LEMMA DoGetRefines ==
  ASSUME IInv, NEW n \in Requests, NEW peek \in BOOLEAN, DoGet(n, peek),
         ContentFacts, ContentFacts'
  PROVE  /\ out' = SubSeq(Content, 1, Lesser(n, num))
         /\ Content' = IF peek THEN Content
                       ELSE SubSeq(Content, Lesser(n, num) + 1, num)
<1> DEFINE k == Lesser(n, num)
           S == SubSeq(Content, 1, k)
           R == SubSeq(Content, k + 1, num)
<1>1. /\ num \in Nat /\ k \in 0 .. num
      /\ out' \in Seq(Byte) /\ Len(out') = k
      /\ \A i \in 1 .. k : out'[i] = buf[Slot(i)]
      /\ IInv'
  BY DoGetIInv DEF IInv, TypeOK
<1>2. /\ peek => /\ num' = num
                 /\ \A i \in 1 .. num : buf'[Slot(i)'] = buf[Slot(i)]
      /\ ~peek => /\ num' = num - k
                  /\ \A i \in 1 .. (num - k) : buf'[Slot(i)'] = buf[Slot(i + k)]
  BY DoGetIInv
<1>3. \A i \in 1 .. num : Content[i] \in Byte
  BY ElementOfSeq DEF ContentFacts
<1> HIDE DEF k
<1>4. out' = S
  <2>1. S \in Seq(Byte) /\ Len(S) = k /\ \A i \in 1 .. k : S[i] = Content[i]
    <3>1. \A i \in 1 .. k : Content[i] \in Byte
      BY <1>1, <1>3
    <3> QED
      BY <3>1, <1>1, SubSeqProperties
  <2>2. \A i \in 1 .. k : out'[i] = S[i]
    BY <2>1, <1>1 DEF ContentFacts
  <2> QED
    BY <2>1, <2>2, <1>1, SeqEqual
<1>5. CASE peek
  BY <1>1, <1>2, <1>4, <1>5, SameContent DEF k
<1>6. CASE ~peek
  <2>1. /\ R \in Seq(Byte) /\ Len(R) = num - k
        /\ \A i \in 1 .. (num - k) : R[i] = Content[i + k]
    <3>1. \A i \in (k + 1) .. num : Content[i] \in Byte
      BY <1>1, <1>3
    <3>2. /\ R \in Seq(Byte)
          /\ Len(R) = IF k + 1 <= num THEN num - (k + 1) + 1 ELSE 0
          /\ \A i \in 1 .. (num - (k + 1) + 1) : R[i] = Content[(k + 1) + i - 1]
      BY <3>1, <1>1, SubSeqProperties
    <3> HIDE DEF R
    <3>3. ASSUME NEW i \in 1 .. (num - k)
          PROVE  R[i] = Content[i + k]
      <4>1. i \in 1 .. (num - (k + 1) + 1) /\ (k + 1) + i - 1 = i + k
        BY <1>1
      <4> QED
        BY <4>1, <3>2
    <3> QED
      BY <3>2, <3>3, <1>1
  <2>2. ASSUME NEW i \in 1 .. (num - k)
        PROVE  Content'[i] = R[i]
    <3>1. i + k \in 1 .. num
      BY <1>1
    <3> QED
      BY <3>1, <2>1, <1>2, <1>6 DEF ContentFacts
  <2>3. Content' = R
    BY <2>1, <2>2, <1>2, <1>6, SeqEqual DEF ContentFacts
  <2> QED
    BY <2>3, <1>4, <1>6 DEF k
<1> QED
  BY <1>5, <1>6

\* The circular buffer, with its wrapping and its growth, is a FIFO queue.
THEOREM Refinement == Spec => ImplementsByteQueue
<1>1. Init => Queue!QInit
  <2> SUFFICES ASSUME Init PROVE Queue!QInit
    OBVIOUS
  <2>1. ContentFacts /\ num = 0
    BY InitIInv, ContentIsSeq DEF Init
  <2>2. Content = <<>>
    BY <2>1, EmptySeq, SeqEqual DEF ContentFacts
  <2> QED
    BY <2>2 DEF Init, Queue!QInit
<1>2. IInv /\ IInv' /\ [Next]_vars => [Queue!QNext]_(Queue!qvars)
  <2> SUFFICES ASSUME IInv, IInv', [Next]_vars
               PROVE  [Queue!QNext]_(Queue!qvars)
    OBVIOUS
  <2>1. ContentFacts
    BY ContentIsSeq
  <2>2. ContentFacts'
    BY ContentIsSeq, PTL
  <2>3. num \in Nat
    BY DEF IInv, TypeOK
  <2>4. ASSUME NEW data \in Chunks, PutCall(data)
        PROVE  Queue!CallPut(data)
    <3>1. Content' = Content
      BY <2>4 DEF PutCall, ring, Content, Slot
    <3> QED
      BY <3>1, <2>4 DEF PutCall, Queue!CallPut
  <2>5. ASSUME PutDouble PROVE UNCHANGED Queue!qvars
    <3>1. Content' = Content
      BY <2>5 DEF PutDouble, ring, Content, Slot
    <3> QED
      BY <3>1, <2>5 DEF PutDouble, Queue!qvars
  <2>6. ASSUME PutGrow PROVE UNCHANGED Queue!qvars
    <3>1. Content' = Content
      BY <2>1, <2>2, <2>3, <2>6, PutGrowIInv, SameContent DEF PutGrow
    <3> QED
      BY <3>1, <2>6 DEF PutGrow, Queue!qvars
  <2>7. ASSUME PutCopy PROVE Queue!ReturnPut
    <3>1. Content' = Content \o arg
      BY <2>1, <2>2, <2>7, PutCopyRefines
    <3> QED
      BY <3>1, <2>7 DEF PutCopy, Queue!ReturnPut
  <2>8. ASSUME NEW n \in Requests, NEW peek \in BOOLEAN, DoGet(n, peek)
        PROVE  Queue!Get(n) \/ Queue!Peek(n)
    <3> DEFINE k == Lesser(n, num)
    <3>1. /\ out' = SubSeq(Content, 1, k)
          /\ Content' = IF peek THEN Content ELSE SubSeq(Content, k + 1, num)
      BY <2>1, <2>2, <2>8, DoGetRefines
    <3>2. k = IF n > Len(Content) THEN Len(Content) ELSE n
      BY <2>1, <2>3, RequestsAssumption DEF Lesser, ContentFacts
    <3>3. Queue!Obtained(n) = out'
      BY <3>1, <3>2 DEF Queue!Obtained
    <3>4. Len(out') = k
      BY <2>8, DoGetIInv
    <3>5. pc = "idle" /\ UNCHANGED <<pc, arg>>
      BY <2>8 DEF DoGet
    <3>6. Len(Content) = num
      BY <2>1 DEF ContentFacts
    <3> QED
      BY <3>1, <3>3, <3>4, <3>5, <3>6 DEF Queue!Get, Queue!Peek
  <2>9. ASSUME Clear PROVE Queue!Clear
    <3>1. Content' = <<>>
      <4>1. num' = 0
        BY <2>9 DEF Clear
      <4> QED
        BY <4>1, <2>2, EmptySeq, SeqEqual DEF ContentFacts
    <3> QED
      BY <3>1, <2>9 DEF Clear, Queue!Clear
  <2>10. CASE UNCHANGED vars
    <3>1. Content' = Content
      BY <2>10 DEF vars, Content, Slot
    <3> QED
      BY <3>1, <2>10 DEF vars, Queue!qvars
  <2> QED
    BY <2>4, <2>5, <2>6, <2>7, <2>8, <2>9, <2>10 DEF Next, Running, Queue!QNext
<1> QED
  BY <1>1, <1>2, Invariance, PTL DEF Spec, ImplementsByteQueue, Queue!QSpec

=============================================================================
