--------------------------------- MODULE Graph ---------------------------------
(***************************************************************************)
(* libsrsbsns/graph.c: nodes with lists of incoming and outgoing edges,    *)
(* and two traversals, which mark what they have met with a random tag.    *)
(* The marks stay until another traversal replaces them.  Dropped edges    *)
(* are not freed and not used again.  The functions that are called back   *)
(* for nodes and edges do not change the graph.                            *)
(***************************************************************************)
EXTENDS Naturals, FiniteSets, Sequences, SequencesExt

CONSTANTS
  Node,
  Edges,          \* bound: how many edges are ever made
  Tags,           \* bound: the random tags are 1 .. Tags
  FreshTags       \* whether rand() never returns a tag that is still in use

ASSUME NodeAssumption == Node # {}
ASSUME BoundsAssumption == Edges \in Nat /\ Tags \in Nat
ASSUME FreshAssumption == FreshTags \in BOOLEAN

VARIABLES
  from, to,       \* the ends of the edges made so far; edges are numbered
  out, in,        \* the lists of edges of each node
  ntag, etag,     \* the marks
  pc, tag, start, \* "idle", or the traversal that runs, its tag and its start
  stack,          \* of places [node, i] in a list of edges, or of nodes
  visit,          \* the place of the node whose edges trav_bfs() follows, if any
  nfs, efs        \* history: the calls back of the traversal, in order

links == <<from, to, out, in>>
marks == <<ntag, etag>>
vars == <<links, marks, pc, tag, start, stack, visit, nfs, efs>>

Made == DOMAIN from

NoStart == CHOOSE n \in Node : TRUE      \* the value of start that means nothing

Init ==
  /\ from = <<>> /\ to = <<>>
  /\ out = [n \in Node |-> <<>>] /\ in = [n \in Node |-> <<>>]
  /\ ntag = [n \in Node |-> 0] /\ etag = <<>>
  /\ pc = "idle" /\ tag = 0
  /\ start = NoStart
  /\ stack = <<>> /\ visit = <<>> /\ nfs = <<>> /\ efs = <<>>

-----------------------------------------------------------------------------
(* Changing the graph *)

Unvisited == UNCHANGED <<pc, tag, start, stack, visit, nfs, efs>>

Link(a, b) ==
  LET e == Len(from) + 1
  IN  /\ pc = "idle"
      /\ Len(from) < Edges
      /\ from' = Append(from, a) /\ to' = Append(to, b)
      /\ out' = [out EXCEPT ![a] = Append(@, e)]
      /\ in' = [in EXCEPT ![b] = Append(@, e)]
      /\ etag' = Append(etag, 0)
      /\ UNCHANGED ntag /\ Unvisited

\* del_edge(): the last edge of the list takes the place of edge e.
Without(list, e) ==
  IF ~Contains(list, e) THEN list
  ELSE Front([list EXCEPT ![SelectInSeq(list, LAMBDA x : x = e)] = Last(list)])

DropEdgeOut(e) ==                   \* mutant: forgets the list of its end
  /\ pc = "idle"
  /\ out' = [out EXCEPT ![from[e]] = Without(@, e)]
  /\ UNCHANGED <<from, to, in, marks>> /\ Unvisited

DropEdge(e) ==
  /\ pc = "idle"
  /\ out' = [out EXCEPT ![from[e]] = Without(@, e)]
  /\ in' = [in EXCEPT ![to[e]] = Without(@, e)]
  /\ UNCHANGED <<from, to, marks>> /\ Unvisited

\* find_edge() returns the first one; without one, unlink_node() would follow
\* a null pointer.
Unlink(a, b) ==
  LET i == SelectInSeq(out[a], LAMBDA e : to[e] = b)
  IN  i # 0 /\ DropEdge(out[a][i])

-----------------------------------------------------------------------------
(* Traversals *)

InUse == {ntag[n] : n \in Node} \cup {etag[e] : e \in Made}

\* rand() until the tag is not 0 and not the mark of the first node
Traverse(n, kind) ==
  /\ pc = "idle"
  /\ pc' = kind /\ start' = n
  /\ \E t \in 1 .. Tags : /\ t # ntag[n]
                          /\ FreshTags => t \notin InUse
                          /\ tag' = t
  /\ IF kind = "dfs" THEN stack' = <<[node |-> n, i |-> 1]>>
                          /\ ntag' = [ntag EXCEPT ![n] = tag']
                     ELSE stack' = <<n>> /\ UNCHANGED ntag
  /\ UNCHANGED <<links, etag, visit, nfs, efs>>

Top == stack[Len(stack)]

\* The start of trav_dfs_r().
Enter(n, frames) ==
  IF ntag[n] = tag THEN frames ELSE Append(frames, [node |-> n, i |-> 1])

\* One round of the loop of trav_dfs_r(): an edge and what it leads to.
DfsEdge ==
  LET n == Top.node
      e == out[n][Top.i]
  IN  /\ pc = "dfs" /\ stack # <<>>
      /\ Top.i <= Len(out[n])
      /\ etag' = [etag EXCEPT ![e] = tag]
      /\ efs' = IF etag[e] # tag THEN Append(efs, e) ELSE efs
      /\ nfs' = Append(nfs, n)
      /\ ntag' = [ntag EXCEPT ![to[e]] = tag]
      /\ stack' = Enter(to[e], [stack EXCEPT ![Len(stack)].i = @ + 1])
      /\ UNCHANGED <<links, pc, tag, start, visit>>

DfsReturn ==
  /\ pc = "dfs" /\ stack # <<>>
  /\ Top.i > Len(out[Top.node])
  /\ stack' = Front(stack)
  /\ UNCHANGED <<links, marks, pc, tag, start, visit, nfs, efs>>

Popping == pc = "bfs" /\ visit = <<>> /\ stack # <<>>

BfsSkipPeek ==                      \* mutant: the node stays on the stack
  Popping /\ ntag[Top] = tag /\ UNCHANGED vars

BfsSkip ==
  /\ Popping /\ ntag[Top] = tag
  /\ stack' = Front(stack)
  /\ UNCHANGED <<links, marks, pc, tag, start, visit, nfs, efs>>

\* The loop goes on with edge i of the node, or is over.
Following(n, i) == IF i <= Len(out[n]) THEN <<[node |-> n, i |-> i]>> ELSE <<>>

BfsVisitUnmarked ==                 \* mutant: does not mark the node
  /\ Popping /\ ntag[Top] # tag
  /\ nfs' = Append(nfs, Top)
  /\ stack' = Front(stack) /\ visit' = Following(Top, 1)
  /\ UNCHANGED <<links, marks, pc, tag, start, efs>>

BfsVisit ==
  /\ Popping /\ ntag[Top] # tag
  /\ ntag' = [ntag EXCEPT ![Top] = tag]
  /\ nfs' = Append(nfs, Top)
  /\ stack' = Front(stack) /\ visit' = Following(Top, 1)
  /\ UNCHANGED <<links, etag, pc, tag, start, efs>>

\* One round of the inner loop of trav_bfs().
BfsEdge ==
  LET n == visit[1].node
      e == out[n][visit[1].i]
  IN  /\ pc = "bfs" /\ visit # <<>>
      /\ etag' = [etag EXCEPT ![e] = tag]
      /\ efs' = IF etag[e] # tag THEN Append(efs, e) ELSE efs
      /\ stack' = IF etag[e] # tag /\ ntag[to[e]] # tag THEN Append(stack, to[e]) ELSE stack
      /\ visit' = Following(n, visit[1].i + 1)
      /\ UNCHANGED <<links, ntag, pc, tag, start, nfs>>

Done == pc # "idle" /\ stack = <<>> /\ visit = <<>>

Finish ==
  /\ Done
  /\ pc' = "idle"
  /\ tag' = 0 /\ start' = NoStart
  /\ nfs' = <<>> /\ efs' = <<>>
  /\ UNCHANGED <<links, marks, stack, visit>>

Running == DfsEdge \/ DfsReturn \/ BfsSkip \/ BfsVisit \/ BfsEdge \/ Finish

Next ==
  \/ \E a, b \in Node : Link(a, b) \/ Unlink(a, b)
  \/ \E e \in Made : DropEdge(e)
  \/ \E n \in Node, kind \in {"dfs", "bfs"} : Traverse(n, kind)
  \/ Running

Spec == Init /\ [][Next]_vars

\* A thread inside traverse() keeps executing it.
FairSpec == Spec /\ WF_vars(Running)

-----------------------------------------------------------------------------
(* Properties *)

\* Every variable keeps its type; only nodes and edges that exist are listed.
TypeOK ==
  /\ from \in Seq(Node) /\ to \in Seq(Node) /\ Len(to) = Len(from)
  /\ out \in [Node -> Seq(Made)] /\ in \in [Node -> Seq(Made)]
  /\ ntag \in [Node -> 0 .. Tags] /\ etag \in [Made -> 0 .. Tags]
  /\ pc \in {"idle", "dfs", "bfs"} /\ start \in Node /\ tag \in 0 .. Tags
  /\ nfs \in Seq(Node) /\ efs \in Seq(Made)

\* An edge that leaves its first node arrives at its second: the two lists of
\* edges agree whatever edges were dropped and in which order, and none is
\* listed twice.
ListsAgree ==
  TypeOK /\ \A n \in Node :
    /\ \A e \in Range(out[n]) : from[e] = n /\ e \in Range(in[to[e]])
    /\ \A e \in Range(in[n]) : to[e] = n /\ e \in Range(out[from[e]])
    /\ IsInjective(out[n]) /\ IsInjective(in[n])

\* The nodes there is a way to: they are in every set that holds the start and
\* where its edges lead.
Closed(nodes) == \A n \in nodes : \A e \in Range(out[n]) : to[e] \in nodes

Reachable == {n \in Node : \A nodes \in SUBSET Node :
                start \in nodes /\ Closed(nodes) => n \in nodes}
ReachableEdges == UNION {Range(out[n]) : n \in Reachable}

\* A finished traversal, of a graph with cycles, loops and several edges
\* between two nodes, has called back once for every edge there is a way to,
\* and for no other edge or node; trav_bfs() also once for every node.  Marks
\* of earlier traversals do not matter as long as the tags differ.
VisitsAll ==
  Done =>
    /\ Range(efs) = ReachableEdges /\ IsInjective(efs)
    /\ Range(nfs) \subseteq Reachable
    /\ pc = "bfs" => Range(nfs) = Reachable /\ IsInjective(nfs)

\* A traversal ends, in graphs with cycles, too.
TraversalEnds == (pc # "idle") ~> (pc = "idle")

=============================================================================
