------------------------------- MODULE Strlist --------------------------------
(***************************************************************************)
(* libsrsbsns/strlist.c: a pointer list that owns copies of strings.  Elem *)
(* are the memory blocks that hold them.  Memory does not run out: then    *)
(* slist_replace() would leave the string it freed in the list.            *)
(***************************************************************************)
EXTENDS Ptrlist

CONSTANTS
  Str,         \* the strings
  Freed        \* the content of a block that malloc() may give out

ASSUME FreedAssumption == Freed \notin Str

VARIABLE mem   \* what the blocks hold

svars == <<vars, mem>>

Alive == {d \in Elem : mem[d] # Freed}
Listed == {data[n] : n \in Range(Chain)}
Unlisted == Alive \ Listed

SInit == Init /\ mem = [d \in Elem |-> Freed]

-----------------------------------------------------------------------------

\* str_dup(), after the blocks of freed were freed: any free block will do.
Dup(freed, s, d) ==
  /\ d \notin Alive \ freed
  /\ mem' = [b \in Elem |-> IF b = d THEN s ELSE IF b \in freed THEN Freed ELSE mem[b]]

FreeStrings(freed) == mem' = [b \in Elem |-> IF b \in freed THEN Freed ELSE mem[b]]

SInsert(i, s) == \E d \in Elem : Dup({}, s, d) /\ Insert(i, d)

\* ptrlist_get()'s result, or nothing where it is NULL.
At(i) == IF Hit(i) THEN {data[Chain[i + 1]]} ELSE {}

SReplaceKeep(i, s) ==            \* mutant: the list keeps the string it freed
  \E d \in Elem : Dup(At(i), s, d) /\ Hit(i) /\ UNCHANGED vars

\* Beyond the end ptrlist_replace() refuses, and nobody has the copy.
SReplace(i, s) ==
  \E d \in Elem : /\ Dup(At(i), s, d)
                  /\ IF Hit(i) THEN Replace(i, d) ELSE UNCHANGED vars

SRemoveNext(i) ==                \* mutant: removes, and then looks for the string
  Unlink(i) /\ FreeStrings(At(i + 1))

SRemove(i) == Unlink(i) /\ FreeStrings(At(i))

\* slist_clear() walks the list with its iterator and leaves it at the last
\* node, which ptrlist_clear() then frees.  On an empty list slist_first() does
\* not reset it, so a slist_next(), or a second slist_clear(), would follow it
\* to that node; like every call that does, those are not made.
SClear ==
  /\ head = Null => iter # Gone
  /\ FreeStrings(Listed)
  /\ ClearFrom(IF head = Null THEN iter ELSE Last(Chain))

SNext ==
  \/ \E i \in Index, s \in Str : SInsert(i, s) \/ SReplace(i, s)
  \/ \E i \in Index : SRemove(i)
  \/ SClear
  \/ (First \/ NextElem) /\ UNCHANGED mem

SSpec == SInit /\ [][SNext]_svars

-----------------------------------------------------------------------------
(* Properties *)

\* The blocks keep their type.
STypeOK == TypeOK /\ mem \in [Elem -> Str \cup {Freed}]

\* Inserting and removing at any position neither leaks a node nor leaves a
\* freed one linked, and each place of the list has a string of its own, one
\* that was not freed, so that no call frees one twice; a freed block may be
\* used again at once.  A list that was cleared is used on from its next insertion.
OwnsStrings ==
  /\ STypeOK
  /\ NodesAreLinked
  /\ Listed \subseteq Alive
  /\ \A i, j \in DOMAIN Chain : data[Chain[i]] = data[Chain[j]] => i = j

\* A string that leaves the list is freed, whichever call takes it out;
\* only replacing beyond the end loses one, the copy it made.
FreedWithPlace ==
  [][\/ Unlisted' \subseteq Unlisted
     \/ UNCHANGED vars /\ \E i \in Index, s \in Str : ~Hit(i) /\ SReplace(i, s)]_svars

=============================================================================
