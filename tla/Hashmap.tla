------------------------------- MODULE Hashmap -------------------------------
(***************************************************************************)
(* libsrsbsns/hashmap.c, and strmap.c, which is a hash map with string     *)
(* keys: buckets of two lists each, the keys and their values, which       *)
(* belong together by position.  The lists are the sequences of            *)
(* ElementList; a bucket whose lists were not made yet is an empty one.    *)
(***************************************************************************)
EXTENDS Naturals, Sequences, SequencesExt

CONSTANTS
  Key, Value,
  None,           \* NULL
  Buckets,        \* bucketsz
  Hash,           \* the hash function
  MallocFails,    \* whether ptrlist_insert() or the duplication of a key may
                  \* fail for want of memory
  MaxList         \* bound: no list gets longer than this

ASSUME NoneAssumption == None \notin Key \cup Value
ASSUME BucketsAssumption == Buckets \in Nat \ {0}
ASSUME HashAssumption == Hash \in [Key -> Nat]
ASSUME FailsAssumption == MallocFails \in BOOLEAN
ASSUME MaxAssumption == MaxList \in Nat

VARIABLES
  keys, vals,               \* the lists of each bucket
  count,
  iterating, buckiter, listiter,    \* the iterator
  out,                      \* the pair hmap_first() or hmap_next() stored
  seen,                     \* history: the keys the iteration has returned, of
                            \* each bucket
  touched,                  \* history: the buckets that gained or lost a key
                            \* since hmap_first()
  latest                    \* history: the value put last for each key that
                            \* was not deleted since

table == <<keys, vals, count>>
iterator == <<iterating, buckiter, listiter, out, seen>>
vars == <<table, iterator, touched, latest>>

Bucket == 0 .. Buckets - 1
Ind(k) == Hash[k] % Buckets

\* ptrlist_get(), with positions from 1
At(list, i) == IF i \in DOMAIN list THEN list[i] ELSE None

\* ptrlist_findeqfn(): the position of key k in its bucket, or 0
Find(k) == SelectInSeq(keys[Ind(k)], LAMBDA x : x = k)

Get(k) == IF Find(k) = 0 THEN None ELSE At(vals[Ind(k)], Find(k))

NothingSeen == [b \in Bucket |-> <<>>]

Init ==
  /\ keys = [b \in Bucket |-> <<>>]
  /\ vals = [b \in Bucket |-> <<>>]
  /\ count = 0
  /\ iterating = FALSE /\ buckiter = 0 /\ listiter = 0
  /\ out = <<None, None>>
  /\ seen = NothingSeen /\ touched = Bucket /\ latest = [k \in Key |-> None]

-----------------------------------------------------------------------------

\* hmap_put() does not look at what ptrlist_insert() returns: keyok and valok
\* say which of the two insertions worked.
PutNew(k, v, keyok, valok) ==
  LET b == Ind(k)
  IN  /\ keys' = IF keyok THEN [keys EXCEPT ![b] = <<k>> \o @] ELSE keys
      /\ vals' = IF valok THEN [vals EXCEPT ![b] = <<v>> \o @] ELSE vals
      /\ count' = count + 1
      /\ touched' = touched \cup {b}

PutAppending(k, v, keyok, valok) ==   \* mutant: the value goes to the end
  LET b == Ind(k)
  IN  /\ Find(k) = 0 /\ Len(vals[b]) < MaxList
      /\ keys' = [keys EXCEPT ![b] = <<k>> \o @]
      /\ vals' = [vals EXCEPT ![b] = Append(@, v)]
      /\ count' = count + 1
      /\ touched' = touched \cup {b}
      /\ latest' = [latest EXCEPT ![k] = v]
      /\ UNCHANGED iterator

Put(k, v, keyok, valok) ==
  LET b == Ind(k)
      i == Find(k)
  IN  /\ Len(keys[b]) < MaxList /\ Len(vals[b]) < MaxList
      /\ IF i = 0
           THEN PutNew(k, v, keyok, valok)
           ELSE /\ vals' = IF i \in DOMAIN vals[b] THEN [vals EXCEPT ![b][i] = v]
                                                   ELSE vals
                /\ UNCHANGED <<keys, count, touched>>
      /\ latest' = [latest EXCEPT ![k] = v]
      /\ UNCHANGED iterator

\* ptrlist_remove()
Dropped(list, i) == IF i \in DOMAIN list THEN RemoveAt(list, i) ELSE list

DelKeyOnly(k) ==                   \* mutant: the value stays in its list
  /\ Find(k) # 0
  /\ keys' = [keys EXCEPT ![Ind(k)] = Dropped(@, Find(k))]
  /\ count' = count - 1
  /\ touched' = touched \cup {Ind(k)}
  /\ latest' = [latest EXCEPT ![k] = None]
  /\ UNCHANGED <<vals, iterator>>

Del(k) ==
  LET b == Ind(k)
      i == Find(k)
  IN  /\ i # 0
      /\ keys' = [keys EXCEPT ![b] = Dropped(@, i)]
      /\ vals' = [vals EXCEPT ![b] = Dropped(@, i)]
      /\ count' = count - 1
      /\ touched' = touched \cup {b}
      /\ latest' = [latest EXCEPT ![k] = None]
      /\ UNCHANGED iterator

\* The iterator is left as it is.
Clear ==
  /\ keys' = [b \in Bucket |-> <<>>]
  /\ vals' = [b \in Bucket |-> <<>>]
  /\ count' = 0
  /\ touched' = touched \cup {b \in Bucket : keys[b] # <<>>}
  /\ latest' = [k \in Key |-> None]
  /\ UNCHANGED iterator

-----------------------------------------------------------------------------
(* Iteration *)

\* the first bucket from `from` on with a key, Buckets when there is none
NonEmptyFrom(from) ==
  CHOOSE b \in from .. Buckets :
    /\ b = Buckets \/ keys[b] # <<>>
    /\ \A c \in from .. b - 1 : keys[c] = <<>>

\* Returning the i-th pair of bucket b, or nothing when there is no bucket b.
Return(b, i, before) ==
  LET k == At(keys[b], i)
  IN  /\ buckiter' = b
      /\ iterating' = (b # Buckets)
      /\ IF b = Buckets
           THEN /\ out' = <<None, None>>
                /\ seen' = before
           ELSE /\ out' = <<k, At(vals[b], i)>>
                /\ seen' = [before EXCEPT ![Ind(k)] = Append(@, k)]

First ==
  LET b == NonEmptyFrom(0)
  IN  /\ Return(b, 1, NothingSeen)
      /\ listiter' = IF b = Buckets THEN listiter ELSE 1
      /\ touched' = {}
      /\ UNCHANGED <<table, latest>>

ListDoneEarly == listiter + 2 \notin DOMAIN keys[buckiter]   \* mutant
ListDone == listiter + 1 \notin DOMAIN keys[buckiter]

NextElem ==
  LET b == IF ListDone THEN NonEmptyFrom(buckiter + 1) ELSE buckiter
      i == IF ListDone THEN 0 ELSE listiter
  IN  /\ iterating
      /\ Return(b, i + 1, seen)
      /\ listiter' = IF b = Buckets THEN i ELSE i + 1
      /\ UNCHANGED <<table, touched, latest>>

Next ==
  \/ \E k \in Key, v \in Value, keyok, valok \in {TRUE, ~MallocFails} :
       Put(k, v, keyok, valok)
  \/ \E k \in Key : Del(k)
  \/ Clear
  \/ First
  \/ NextElem

Spec == Init /\ [][Next]_vars

-----------------------------------------------------------------------------
(* Properties *)

\* Every variable keeps its type.
TypeOK ==
  /\ keys \in [Bucket -> Seq(Key)]
  /\ vals \in [Bucket -> Seq(Value)]
  /\ count \in Nat
  /\ iterating \in BOOLEAN
  /\ buckiter \in 0 .. Buckets
  /\ iterating => buckiter \in Bucket
  /\ listiter \in Nat
  /\ out \in (Key \cup {None}) \X (Value \cup {None})
  /\ seen \in [Bucket -> Seq(Key)]
  /\ touched \subseteq Bucket
  /\ latest \in [Key -> Value \cup {None}]

Contents == [k \in Key |-> Get(k)]

Map == INSTANCE KeyValue WITH map <- Contents, size <- count

\* The buckets of paired lists are a function from keys to values: each call
\* changes the value of its own key only, whatever shares its bucket, and
\* hmap_count() is the number of keys that have a value.
ImplementsMap ==
  [][/\ \A k \in Key, v \in Value : Put(k, v, TRUE, TRUE) => Map!KPut(k, v)
     /\ \A k \in Key : Del(k) => Map!KDel(k)
     /\ Clear => Map!KClear
     /\ First \/ NextElem => Map!KRead]_vars

\* An iteration returns each key of a bucket once, in the order of its list, if
\* no key came to or left that bucket since hmap_first(): changes elsewhere in
\* the map, and new values for its keys, do not disturb it.
IterationVisitsUntouched ==
  /\ TypeOK
  /\ \A b \in Bucket \ touched :
       seen[b] =
         CASE b < buckiter -> keys[b]
           [] b = buckiter -> SubSeq(keys[b], 1, listiter)
           [] b > buckiter -> <<>>

\* A pair the iterator returns belongs together: even after keys were put and
\* deleted in the middle of the iteration, the key is one that is in the map
\* and the value the one that was put for it last, although keys and values
\* are matched by their places in two lists.
IterationPairs ==
  [][(First \/ NextElem) /\ iterating' => out'[2] = latest[out'[1]]]_vars

=============================================================================
