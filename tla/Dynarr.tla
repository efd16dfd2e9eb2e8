-------------------------------- MODULE Dynarr --------------------------------
(***************************************************************************)
(* libsrsbsns/dynarr.c: an array that grows to the index it is used at.    *)
(* Places nobody wrote hold NULL when the array was made with nulling, and *)
(* whatever malloc() returned otherwise.                                   *)
(*                                                                         *)
(* A program is modelled that has one array.  Truncating at an index       *)
(* beyond the array makes it claim memory it does not have, and iterating  *)
(* before dynarr_first() reads a field nobody set: calls that lead there   *)
(* are left out.                                                           *)
(***************************************************************************)
EXTENDS Naturals

CONSTANTS
  Pointer,            \* what a caller stores
  NULL, Unwritten,    \* NULL, and the content of memory nobody wrote
  FirstSizes,         \* the sizes dynarr_init() may be called with
  Index,              \* bound: the indices a caller uses
  CountFactors        \* the factors dynarr_shrink() may be called with

ASSUME PointerAssumption == NULL \notin Pointer /\ Unwritten \notin Pointer
ASSUME IndexAssumption == /\ FirstSizes \subseteq Nat /\ Index \subseteq Nat
                          /\ CountFactors \subseteq Nat \ {0}

VARIABLES
  d,           \* the array: data, nelem, nused, nulling; NoArray before it is made
  diter,       \* its iterator; NoIter before dynarr_first()
  written      \* history: the places written since the array was cut there

dynarr == <<d, diter, written>>

NoArray == [nelem |-> 0, nused |-> 0, nulling |-> FALSE, data |-> NULL]
NoIter == [set |-> FALSE, at |-> 0]

DynarrInit == d = NoArray /\ diter = NoIter /\ written = {}

-----------------------------------------------------------------------------
(* Growing *)

Smaller(a, b) == IF a < b THEN a ELSE b

Fresh(nulling) == IF nulling THEN NULL ELSE Unwritten

\* 1 << (log2(index) + 1): the least power of two beyond index.  The 1 is an int,
\* and the shift overflows for an index of 2^30 or more; no such index is used.
NextPower(index) == CHOOSE n \in {2 ^ k : k \in 0 .. index} :
                      n > index /\ (n = 1 \/ n \div 2 <= index)

\* dynarr_resize() copies what is in use and nulls the rest, when it is to.
ResizedRaw(a, n) ==                  \* mutant: never nulls
  [a EXCEPT !.nelem = n, !.nused = Smaller(n, a.nused),
     !.data = [i \in 0 .. n - 1 |-> IF i < Smaller(n, a.nused) THEN a.data[i] ELSE Unwritten]]

Resized(a, n) ==
  [a EXCEPT !.nelem = n, !.nused = Smaller(n, a.nused),
     !.data = [i \in 0 .. n - 1 |-> IF i < Smaller(n, a.nused) THEN a.data[i]
                                                              ELSE Fresh(a.nulling)]]

\* provide_index(): the array when index is to be used
Provided(a, index) == IF index < a.nelem THEN a ELSE Resized(a, NextPower(index))

-----------------------------------------------------------------------------
(* The calls *)

dynarr_init(n, nulling) ==
  /\ d = NoArray
  /\ d' = [nelem |-> n, nused |-> n, nulling |-> nulling,
           data |-> [i \in 0 .. n - 1 |-> Fresh(nulling)]]
  /\ UNCHANGED <<diter, written>>

Made == d # NoArray

dynarr_get(index) ==
  /\ Made
  /\ d' = Provided(d, index)
  /\ UNCHANGED <<diter, written>>

Stored(index, x) == [Provided(d, index) EXCEPT !.data[index] = x]

PutResizing(index, x) ==             \* mutant: always moves the end
  /\ Made
  /\ d' = [Stored(index, x) EXCEPT !.nused = index + 1]
  /\ written' = written \cup {index}
  /\ UNCHANGED diter

dynarr_put(index, x) ==
  /\ Made
  /\ d' = [Stored(index, x) EXCEPT !.nused = IF index >= @ THEN index + 1 ELSE @]
  /\ written' = written \cup {index}
  /\ UNCHANGED diter

dynarr_push(x) ==
  /\ Made /\ d.nused \in Index
  /\ d' = [Stored(d.nused, x) EXCEPT !.nused = @ + 1]
  /\ written' = written \cup {d.nused}
  /\ UNCHANGED diter

\* The elements stay where they are.
dynarr_clear ==
  /\ Made
  /\ d' = [d EXCEPT !.nused = 0]
  /\ UNCHANGED <<diter, written>>

\* Everything from fromindex on is nulled, up to the end of the memory.
dynarr_truncate(fromindex) ==
  /\ Made /\ fromindex <= d.nelem
  /\ d' = [d EXCEPT !.nused = fromindex,
             !.data = [i \in DOMAIN d.data |->
                         IF d.nulling /\ i >= fromindex THEN NULL ELSE d.data[i]]]
  /\ written' = {i \in written : i < fromindex}
  /\ UNCHANGED diter

dynarr_shrink(countfac) ==
  /\ Made
  /\ d' = Resized(d, countfac * d.nused)
  /\ UNCHANGED <<diter, written>>

\* dynarr_first() is dynarr_next() with the iterator at the first place.
Iterate(from) ==
  /\ Made
  /\ diter' = [set |-> TRUE, at |-> IF from < d.nused THEN from + 1 ELSE from]
  /\ UNCHANGED <<d, written>>

dynarr_first == Iterate(0)
dynarr_next == diter.set /\ Iterate(diter.at)

DynarrNext ==
  \/ \E n \in FirstSizes, nulling \in BOOLEAN : dynarr_init(n, nulling)
  \/ \E index \in Index : dynarr_get(index) \/ dynarr_truncate(index)
  \/ \E index \in Index, x \in Pointer : dynarr_put(index, x)
  \/ \E x \in Pointer : dynarr_push(x)
  \/ dynarr_clear
  \/ \E countfac \in CountFactors : dynarr_shrink(countfac)
  \/ dynarr_first \/ dynarr_next

DynarrSpec == DynarrInit /\ [][DynarrNext]_dynarr

-----------------------------------------------------------------------------
(* Properties *)

\* Every variable keeps its type, and the size the caller sees never exceeds
\* the memory, as the comment of the field nused says: "apparent size to the
\* outside world (<= nelem)".
SizeFits ==
  /\ d.nelem \in Nat /\ d.nused \in 0 .. d.nelem /\ d.nulling \in BOOLEAN
  /\ Made => d.data \in [0 .. d.nelem - 1 -> Pointer \cup {NULL, Unwritten}]
  /\ diter \in [set : BOOLEAN, at : Nat]
  /\ written \subseteq Nat

\* With nulling, a place that was never written, or was cut off since, reads
\* NULL, wherever the array grew or shrank in between.
UnwrittenIsNull ==
  /\ SizeFits
  /\ (Made /\ d.nulling) =>
        \A i \in 0 .. d.nelem - 1 : i \notin written => d.data[i] = NULL

Kept(places) == \A i \in places : i < d.nused => i < d'.nused /\ d'.data[i] = d.data[i]

\* Reading, growing and shrinking change no element in use, nor how many there
\* are; writing one place, also one far beyond the end, changes no other one,
\* and cutting the array none before the cut.
OthersStay ==
  [][/\ \A index \in Index :
          /\ dynarr_get(index) => Kept(DOMAIN d.data) /\ d'.nused = d.nused
          /\ dynarr_truncate(index) => Kept(0 .. index - 1)
     /\ \A countfac \in CountFactors :
          dynarr_shrink(countfac) => Kept(DOMAIN d.data) /\ d'.nused = d.nused
     /\ \A x \in Pointer :
          /\ dynarr_push(x) => Kept(DOMAIN d.data)
          /\ \A index \in Index :
               dynarr_put(index, x) => Kept(DOMAIN d.data \ {index})]_dynarr

=============================================================================
