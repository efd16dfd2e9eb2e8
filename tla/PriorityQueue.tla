---------------------------- MODULE PriorityQueue ----------------------------
(***************************************************************************)
(* What heap.c promises: a bag of elements from which a least one is taken *)
(* at a time.                                                              *)
(***************************************************************************)
EXTENDS Naturals

CONSTANTS
  Elem,      \* the elements, numbers that stand for their rank
  None       \* NULL, returned when there is nothing to take

VARIABLES
  bag,       \* how often each element is in the queue
  taken      \* what the last removal returned

Holds(x) == bag[x] > 0

PInit == bag = [x \in Elem |-> 0] /\ taken = None

PInsert(x) == bag' = [bag EXCEPT ![x] = @ + 1] /\ UNCHANGED taken

PTake(x) ==
  /\ Holds(x)
  /\ \A y \in Elem : Holds(y) => x <= y
  /\ bag' = [bag EXCEPT ![x] = @ - 1]
  /\ taken' = x

PTakeNone ==
  /\ \A x \in Elem : ~Holds(x)
  /\ taken' = None
  /\ UNCHANGED bag

PClear == bag' = [x \in Elem |-> 0] /\ UNCHANGED taken

PNext ==
  \/ \E x \in Elem : PInsert(x) \/ PTake(x)
  \/ PTakeNone
  \/ PClear

PSpec == PInit /\ [][PNext]_<<bag, taken>>
=============================================================================
