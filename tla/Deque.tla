-------------------------------- MODULE Deque --------------------------------
(***************************************************************************)
(* libsrsbsns/deque.c: an array with the elements somewhere in the middle, *)
(* from back up to front - 1.  A push that meets an end of the array moves *)
(* them to a larger one, more to one side the more pushes there were on    *)
(* it.  stack.c is a deque used from its front only.  The fractions of     *)
(* deque_resize() are computed exactly; its doubles give the same results  *)
(* for the sizes of the instances.                                         *)
(***************************************************************************)
EXTENDS Integers, Sequences

CONSTANTS
  Elem,
  None,           \* NULL
  Junk,           \* the content of an unused place
  InitSizes,      \* the sizes deque_init() may be called with
  Factors,        \* the factors deque_shrink() may be called with
  MallocFails,    \* whether malloc() may fail
  MaxCount,       \* bound: no push is tried that would hold more
  MaxBias,        \* bound: the pushes on one side exceed those on the other
                  \* by no more than this
  MaxSize         \* bound: no push is tried on a larger array

ASSUME NoneAssumption == None \notin Elem /\ Junk \notin Elem /\ None # Junk
ASSUME SizesAssumption == InitSizes \subseteq Nat /\ Factors \subseteq Nat \ {0}
ASSUME FailsAssumption == MallocFails \in BOOLEAN
ASSUME BoundsAssumption == MaxCount \in Nat /\ MaxBias \in Nat /\ MaxSize \in Nat

VARIABLES
  data, nelem,       \* the array and its size
  back, front,       \* the first place in use and the one after the last
  lead,              \* pfcnt - pbcnt: pushes to the front less those to the back
  iter,              \* the iterator, Unset until the first deque_first()
  pc, arg,           \* "idle", or the end a push is under way at, and its element
  out,               \* what the last call that returns an element returned
  steady             \* history: nothing was changed since deque_first()

array == <<data, nelem, back, front>>
vars == <<data, nelem, back, front, lead, iter, pc, arg, out, steady>>

Side == {"front", "back"}
Count == front - back
Blank(n) == [i \in 0 .. n - 1 |-> Junk]

\* deque_init() leaves the iterator as malloc() returned it.
Unset == -1

Init ==
  /\ \E n \in InitSizes : nelem = IF n = 0 THEN 1 ELSE n
  /\ data = Blank(nelem)
  /\ back = nelem \div 2 /\ front = nelem \div 2
  /\ lead = 0 /\ iter = Unset
  /\ pc = "idle" /\ arg = None
  /\ out = None /\ steady = FALSE

-----------------------------------------------------------------------------
(* deque_resize() *)

\* Where the elements begin in an array of n places: in the middle, shifted by
\* bias = 2 (pfcnt - pbcnt) / nelem of the free half, at most nine tenths of it.
NewBack(n) ==
  LET half == (n - Count) \div 2
  IN  CASE 20 * lead > 9 * nelem -> (half * 19) \div 10
        [] 20 * lead < -9 * nelem -> half \div 10
        [] OTHER -> (half * (nelem + 2 * lead)) \div nelem

\* the elements moved to places from `to` on, in an array of n places
Moved(n, to) ==
  [i \in 0 .. n - 1 |->
     IF i \in to .. to + Count - 1 THEN data[back + i - to] ELSE Junk]

ResizeKeepsSize(n) ==               \* mutant: forgets to store the new size
  /\ n >= Count
  /\ data' = Moved(nelem, NewBack(nelem))
  /\ back' = NewBack(nelem) /\ front' = NewBack(nelem) + Count
  /\ UNCHANGED nelem

Resize(n) ==
  /\ n >= Count
  /\ data' = Moved(n, NewBack(n))
  /\ back' = NewBack(n)
  /\ front' = NewBack(n) + Count
  /\ nelem' = n

-----------------------------------------------------------------------------
(* Pushing.  The loop that makes room is taken a round at a time. *)

PushCall(side, x) ==
  /\ pc = "idle"
  /\ Count < MaxCount /\ nelem <= MaxSize
  /\ lead + (IF side = "front" THEN 1 ELSE -1) \in -MaxBias .. MaxBias
  /\ pc' = side /\ arg' = x
  /\ UNCHANGED <<array, lead, iter, out, steady>>

NoRoomAtFront(side) == IF side = "front" THEN front > nelem ELSE back = 0   \* mutant
NoRoom(side) == IF side = "front" THEN front >= nelem ELSE back = 0

Grow ==
  /\ pc \in Side /\ NoRoom(pc)
  /\ Resize(nelem * 2)
  /\ steady' = FALSE
  /\ UNCHANGED <<lead, iter, pc, arg, out>>

\* malloc() failed; the array may have grown in an earlier round.
GrowFails ==
  /\ MallocFails
  /\ pc \in Side /\ NoRoom(pc)
  /\ pc' = "idle" /\ arg' = None
  /\ UNCHANGED <<array, lead, iter, out, steady>>

Store ==
  /\ pc \in Side /\ ~NoRoom(pc)
  /\ IF pc = "front"
       THEN /\ data' = [data EXCEPT ![front] = arg]
            /\ front' = front + 1 /\ lead' = lead + 1
            /\ UNCHANGED back
       ELSE /\ data' = [data EXCEPT ![back - 1] = arg]
            /\ back' = back - 1 /\ lead' = lead - 1
            /\ UNCHANGED front
  /\ pc' = "idle" /\ arg' = None
  /\ steady' = FALSE
  /\ UNCHANGED <<nelem, iter, out>>

-----------------------------------------------------------------------------

\* deque_clear() moves both ends to the middle; what was in use is not any more.
Recentered == back' = nelem \div 2 /\ front' = nelem \div 2

EndPlace(side) == IF side = "front" THEN front - 1 ELSE back

\* what both pops do with the place i they take an element from
PopFrom(side, i) ==
  /\ pc = "idle"
  /\ IF Count = 0
       THEN out' = None /\ UNCHANGED array
       ELSE /\ out' = data[i]
            /\ data' = [data EXCEPT ![i] = Junk]
            /\ CASE Count = 1 -> Recentered
                 [] Count > 1 /\ side = "front" -> front' = front - 1 /\ UNCHANGED back
                 [] Count > 1 /\ side = "back" -> back' = back + 1 /\ UNCHANGED front
            /\ UNCHANGED nelem
  /\ steady' = FALSE
  /\ UNCHANGED <<lead, iter, pc, arg>>

PopIncrementsFirst(side) ==         \* mutant: reads data[++back] for data[back++]
  PopFrom(side, IF side = "back" /\ back + 1 < nelem THEN back + 1 ELSE EndPlace(side))

Pop(side) == PopFrom(side, EndPlace(side))

Clear ==
  /\ pc = "idle"
  /\ Recentered
  /\ data' = Blank(nelem)
  /\ steady' = FALSE
  /\ UNCHANGED <<nelem, lead, iter, pc, arg, out>>

\* deque_shrink(), which enlarges the array when the factor is large
Shrink(factor) ==
  /\ pc = "idle"
  /\ Resize(IF factor * Count = 0 THEN 1 ELSE factor * Count)
  /\ steady' = FALSE
  /\ UNCHANGED <<lead, iter, pc, arg, out>>

Peek(side) ==
  /\ pc = "idle"
  /\ out' = IF Count = 0 THEN None ELSE data[EndPlace(side)]
  /\ UNCHANGED <<array, lead, iter, pc, arg, steady>>

First(side) ==
  /\ pc = "idle"
  /\ IF Count = 0 THEN out' = None /\ UNCHANGED <<iter, steady>>
                  ELSE /\ out' = data[EndPlace(side)] /\ iter' = EndPlace(side)
                       /\ steady' = TRUE
  /\ UNCHANGED <<array, lead, pc, arg>>

\* Only one end is looked at: an iterator that was overtaken by a change may
\* read an unused place, and is not used once it would read outside the array,
\* nor before the first deque_first(), when deque_next() has nothing to go by.
AtEnd(step) == IF step = 1 THEN iter + 1 >= front ELSE iter <= back

NextElem(step) ==
  /\ pc = "idle" /\ iter # Unset
  /\ AtEnd(step) \/ iter + step \in DOMAIN data
  /\ IF AtEnd(step) THEN out' = None /\ UNCHANGED iter
                    ELSE out' = data[iter + step] /\ iter' = iter + step
  /\ UNCHANGED <<array, lead, pc, arg, steady>>

Running == Grow \/ Store

Next ==
  \/ \E side \in Side, x \in Elem : PushCall(side, x)
  \/ Running \/ GrowFails
  \/ \E side \in Side : Pop(side) \/ Peek(side) \/ First(side)
  \/ Clear
  \/ \E factor \in Factors : Shrink(factor)
  \/ \E step \in {1, -1} : NextElem(step)

Spec == Init /\ [][Next]_vars

\* A thread inside a push keeps executing it.
FairSpec == Spec /\ WF_vars(Running)

-----------------------------------------------------------------------------
(* Properties *)

\* Every variable keeps its type: the elements lie within the array, and what
\* is in use is never an unwritten place.
TypeOK ==
  /\ nelem \in Nat \ {0}
  /\ data \in [0 .. nelem - 1 -> Elem \cup {Junk}]
  /\ back \in 0 .. nelem /\ front \in back .. nelem
  /\ \A i \in back .. front - 1 : data[i] \in Elem
  /\ lead \in Int /\ iter \in Nat \cup {Unset}
  /\ pc \in Side \cup {"idle"}
  /\ arg \in Elem \cup {None}
  /\ out \in Elem \cup {None, Junk}
  /\ steady \in BOOLEAN

List == INSTANCE Sides WITH
          list <- [i \in 1 .. Count |-> data[back + i - 1]],
          pos <- IF steady THEN iter - back + 1 ELSE 0

\* The deque is a sequence used from both ends: growing, shrinking, recentering
\* and a push that fails for want of memory leave its content alone, and an
\* iteration in either direction stops at its ends.
ImplementsSides ==
  [][/\ Store => List!SPush(pc, arg)
     /\ \A side \in Side : /\ Pop(side) => List!SPop(side)
                           /\ Peek(side) => List!SPeek(side)
                           /\ First(side) => List!SFirst(side)
     /\ \A step \in {1, -1} : (NextElem(step) /\ steady) => List!SNext(step)
     /\ Clear => List!SClear
     /\ (pc # "idle" /\ ~Store) => List!SOther
     /\ \A factor \in Factors : Shrink(factor) => List!SOther]_vars

\* A push returns: the loops of lines 67 and 82 end, although growing gives the
\* back no room at first when there were more pushes there than at the front.
PushReturns == (pc # "idle") ~> (pc = "idle")

=============================================================================
