----------------------------- MODULE ElementList -----------------------------
(***************************************************************************)
(* What ptrlist.c promises its users, hashmap.c and strlist.c among them:  *)
(* a sequence of elements changed by position, with one iterator that      *)
(* stays on its element while others are inserted and removed around it.   *)
(***************************************************************************)
EXTENDS Integers, Sequences

CONSTANTS
  Elem,      \* what a list holds
  None       \* no element: NULL

VARIABLES
  list,      \* the elements
  pos,       \* the place of the iterator's element in list, 0 for none
  got        \* what ptrlist_first() or ptrlist_next() returned last

InsertedAt(s, i, x) == SubSeq(s, 1, i) \o <<x>> \o SubSeq(s, i + 1, Len(s))
RemovedAt(s, i) == SubSeq(s, 1, i) \o SubSeq(s, i + 2, Len(s))

\* Positions start at 0; one outside the list means the end.
PlaceFor(i) == IF i \in 0 .. Len(list) THEN i ELSE Len(list)

LInit == list = <<>> /\ pos = 0 /\ got = None

LInsert(i, x) ==
  /\ list' = InsertedAt(list, PlaceFor(i), x)
  /\ pos' = IF pos > PlaceFor(i) THEN pos + 1 ELSE pos
  /\ UNCHANGED got

LReplace(i, x) ==
  /\ i + 1 \in DOMAIN list
  /\ list' = [list EXCEPT ![i + 1] = x]
  /\ UNCHANGED <<pos, got>>

LRemove(i) ==
  /\ i + 1 \in DOMAIN list
  /\ list' = RemovedAt(list, i)
  /\ pos' = CASE pos > i + 1 -> pos - 1
              [] pos = i + 1 -> 0
              [] pos < i + 1 -> pos
  /\ UNCHANGED got

LClear == list' = <<>> /\ pos' = 0 /\ UNCHANGED got

LFirst ==
  /\ UNCHANGED list
  /\ IF list = <<>> THEN got' = None /\ UNCHANGED pos
                    ELSE got' = list[1] /\ pos' = 1

LNext ==
  /\ UNCHANGED list
  /\ IF pos \in 1 .. Len(list) - 1 THEN pos' = pos + 1 /\ got' = list[pos + 1]
                                   ELSE got' = None /\ UNCHANGED pos

=============================================================================
