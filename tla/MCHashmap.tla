------------------------------ MODULE MCHashmap ------------------------------
(* A small instance of Hashmap: four keys in three buckets, of which the       *)
(* second stays empty and the first gets all keys but the empty string.  Their *)
(* hashes are those of strmap.c, written down. *)
EXTENDS Strmap, TLC

MCKey == {<<97>>, <<97, 98>>, <<100>>, <<>>}
MCHash == <<97>> :> 162 @@ <<97, 98>> :> 192 @@ <<100>> :> 138 @@ <<>> :> 170

ASSUME HashesAreStrmaps == \A k \in MCKey : Hash[k] = smap_hash(k)

Renamings == Permutations(Value)
=============================================================================
