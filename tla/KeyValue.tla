------------------------------- MODULE KeyValue -------------------------------
(***************************************************************************)
(* What hashmap.c and strmap.c promise: a partial function from keys to    *)
(* values, the number of its keys, and nothing about any order.            *)
(***************************************************************************)
EXTENDS Naturals, FiniteSets

CONSTANTS Key, Value, None

VARIABLES
  map,       \* the value of each key, None for a key that is not there
  size       \* what hmap_count() returns

Present(m) == {k \in Key : m[k] # None}

KChange(m) == map' = m /\ size' = Cardinality(Present(m))

KInit == map = [k \in Key |-> None] /\ size = 0
KPut(k, v) == KChange([map EXCEPT ![k] = v])
KDel(k) == KChange([map EXCEPT ![k] = None])
KClear == KChange([k \in Key |-> None])
KRead == UNCHANGED <<map, size>>

KNext ==
  \/ \E k \in Key, v \in Value : KPut(k, v)
  \/ \E k \in Key : KDel(k)
  \/ KClear
  \/ KRead

KSpec == KInit /\ [][KNext]_<<map, size>>
=============================================================================
