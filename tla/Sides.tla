-------------------------------- MODULE Sides --------------------------------
(***************************************************************************)
(* What deque.c promises, and stack.c through it: a sequence to which      *)
(* elements are added and from which they are taken at both ends.  list[1] *)
(* is the back, the last element the front.                                *)
(***************************************************************************)
EXTENDS Integers, Sequences

CONSTANTS
  Elem,
  None          \* NULL: nothing to take, or nothing more to iterate over

VARIABLES
  list,
  pos,          \* the iterator's place in list, 0 when the list was changed
  out           \* what the last call that returns an element returned

EndOf(side) == IF side = "front" THEN Len(list) ELSE 1

SInit == list = <<>> /\ pos = 0 /\ out = None

SPush(side, x) ==
  /\ list' = IF side = "front" THEN Append(list, x) ELSE <<x>> \o list
  /\ pos' = 0
  /\ UNCHANGED out

SPop(side) ==
  /\ pos' = 0
  /\ IF list = <<>> THEN out' = None /\ UNCHANGED list
     ELSE /\ out' = list[EndOf(side)]
          /\ list' = IF side = "front" THEN SubSeq(list, 1, Len(list) - 1)
                                       ELSE Tail(list)

SClear == list' = <<>> /\ pos' = 0 /\ UNCHANGED out

SPeek(side) ==
  /\ out' = IF list = <<>> THEN None ELSE list[EndOf(side)]
  /\ UNCHANGED <<list, pos>>

SFirst(side) ==
  /\ UNCHANGED list
  /\ IF list = <<>> THEN out' = None /\ UNCHANGED pos
                    ELSE out' = list[EndOf(side)] /\ pos' = EndOf(side)

SNext(step) ==
  /\ pos # 0
  /\ UNCHANGED list
  /\ IF pos + step \in DOMAIN list THEN pos' = pos + step /\ out' = list[pos + step]
                                   ELSE out' = None /\ UNCHANGED pos

\* growing, shrinking, and the iteration over a list that was changed
SOther == UNCHANGED list
=============================================================================
