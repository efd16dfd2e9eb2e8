-------------------------------- MODULE Strmap --------------------------------
(***************************************************************************)
(* libsrsbsns/strmap.c: a hash map whose keys are strings, sequences of    *)
(* bytes here.  smap_init() picks the hash function by the number of       *)
(* buckets; the other calls are those of hashmap.c.                        *)
(***************************************************************************)
EXTENDS Hashmap, Integers, Bitwise

Byte == 0 .. 255

\* Every other byte, from the first one on, loses its upper three bits.
strhash_small(s) ==
  FoldLeft(LAMBDA res, i : res ^^ (IF i % 2 = 1 THEN (s[i] * 8) % 256 ELSE s[i]),
           170, [i \in 1 .. Len(s) |-> i])

\* Two bytes at a time, the lower one first; the last one may be alone.
strhash_mid(s) ==
  FoldLeft(LAMBDA res, i : res ^^ (s[i] * (IF i % 2 = 1 THEN 1 ELSE 256)),
           43690, [i \in 1 .. Len(s) |-> i])

\* strhash_large() is for more buckets than 65536.
smap_hash(s) == IF Buckets <= 256 THEN strhash_small(s) ELSE strhash_mid(s)

=============================================================================
