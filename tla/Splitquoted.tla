------------------------------ MODULE Splitquoted ------------------------------
(***************************************************************************)
(* libsrsbsns/misc.c: splitquoted(), which cuts a line into words in place *)
(* by writing NULs over the characters that end them.                      *)
(***************************************************************************)
EXTENDS Naturals, Sequences, SequencesExt

CONSTANTS
  Quote, Blank,      \* the characters with a meaning
  EndOfString,       \* the NUL
  Input,             \* the strings
  DestNelem          \* the sizes of the array dest

ASSUME CharAssumption ==
  Quote \cap Blank = {} /\ EndOfString \notin Quote \cup Blank
ASSUME DestNelemAssumption == DestNelem \subseteq Nat

VARIABLE splitted    \* the last call: its arguments and what it left in the
                     \* string and in the array

NoQuote == EndOfString        \* quotetype 0

\* A word starts at place p; with no room in dest it is only counted.
StartWord(s, p) ==
  [s EXCEPT !.dest = IF s.n < s.nelem THEN Append(@, p) ELSE @, !.n = @ + 1]

Cut(s, i) == [s EXCEPT !.mem[i] = EndOfString]

\* case '\'', case '"'
AtQuote(s, i) ==
  LET q == s.mem[i]
  IN  CASE s.inws ->
             StartWord([s EXCEPT !.quotetype = q, !.inws = FALSE], i + 1)
        [] ~s.inws /\ s.quotetype = q ->
             Cut([s EXCEPT !.quotetype = NoQuote, !.inws = TRUE], i)
        [] ~s.inws /\ s.quotetype = NoQuote ->
             StartWord(Cut([s EXCEPT !.quotetype = q], i), i + 1)
        [] OTHER -> s

AtBlankQuoted(s, i) ==        \* mutant: cuts inside quotes, too
  IF ~s.inws THEN Cut([s EXCEPT !.inws = TRUE], i) ELSE s

AtBlank(s, i) ==
  IF ~s.inws /\ s.quotetype = NoQuote THEN Cut([s EXCEPT !.inws = TRUE], i) ELSE s

AtOther(s, i) ==
  IF s.inws THEN StartWord([s EXCEPT !.quotetype = NoQuote, !.inws = FALSE], i) ELSE s

\* One round of the loop.
Round(s, i) ==
  CASE s.mem[i] \in Quote -> AtQuote(s, i)
    [] s.mem[i] \in Blank -> AtBlank(s, i)
    [] OTHER              -> AtOther(s, i)

\* The whole call, up to the NUL of the string.
Split(string, nelem) ==
  FoldLeft(Round,
           [mem |-> string, nelem |-> nelem, n |-> 0, dest |-> <<>>,
            quotetype |-> NoQuote, inws |-> TRUE],
           [i \in 1 .. Len(string) |-> i])

NoLine == [called |-> FALSE]

splitquoted(string, nelem) ==
  splitted' = [called |-> TRUE, input |-> string, nelem |-> nelem,
               result |-> Split(string, nelem)]

SplitNext == \E string \in Input, nelem \in DestNelem : splitquoted(string, nelem)

-----------------------------------------------------------------------------
(* Properties *)

\* The C string at place p.
StringAt(mem, p) ==
  LET rest == SubSeq(mem, p, Len(mem))
      end == SelectInSeq(rest, LAMBDA ch : ch = EndOfString)
  IN  IF end = 0 THEN rest ELSE SubSeq(rest, 1, end - 1)

\* A string up to the first character that passes the test, and what is after.
Before(s, test(_)) ==
  LET k == SelectInSeq(s, test) IN IF k = 0 THEN s ELSE SubSeq(s, 1, k - 1)
From(s, test(_)) ==
  LET k == SelectInSeq(s, test) IN IF k = 0 THEN <<>> ELSE SubSeq(s, k, Len(s))

\* The words of a line: in quotes, everything up to the same quote or the end;
\* without, everything up to a blank or a quote, which starts the next word.
RECURSIVE Words(_)
Words(s) ==
  CASE s = <<>> -> <<>>
    [] s # <<>> /\ Head(s) \in Blank -> Words(Tail(s))
    [] s # <<>> /\ Head(s) \in Quote ->
         LET closes(ch) == ch = Head(s)
             rest == From(Tail(s), closes)
         IN  <<Before(Tail(s), closes)>> \o Words(IF rest = <<>> THEN <<>> ELSE Tail(rest))
    [] OTHER ->
         LET ends(ch) == ch \in Blank \cup Quote
         IN  <<Before(s, ends)>> \o Words(From(s, ends))

\* splitquoted() finds the words of the line, in their order, also where quotes
\* touch words or other quotes or are not closed; those beyond the array are
\* counted and nothing is stored for them.  A call that only counts, with an
\* array of no elements as misc.h suggests, cuts the string as well: what is
\* left of it for a second call is one word at most.
FindsWords ==
  splitted.called =>
    LET result == splitted.result
        words == Words(splitted.input)
    IN  /\ result.n = Len(words)
        /\ Len(result.dest) = Min({result.n, splitted.nelem})
        /\ \A i \in DOMAIN result.dest : StringAt(result.mem, result.dest[i]) = words[i]
        /\ Len(Words(StringAt(result.mem, 1))) = Min({result.n, 1})

=============================================================================
