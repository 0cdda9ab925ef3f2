------------------------------- MODULE MCHashTable ------------------------------
(***************************************************************************)
(* A hash table of few keys for TLC.  All keys but k1 share a bucket until *)
(* there are eight buckets, and two buckets until there are sixteen; ex    *)
(* and fx are two data with one key, which the ignore list alone would set *)
(* one after the other.                                                    *)
(***************************************************************************)
EXTENDS HashTable

CONSTANTS d0, d1, d4, d8, ex, fx, k0, k1, k4, k8, kx

KeyOfDatum == [d \in Data |-> CASE d = d0 -> k0 [] d = d1 -> k1 [] d = d4 -> k4
                                [] d = d8 -> k8 [] OTHER -> kx]

\* A 4-bit hash function.
HashOfKey == [k \in Keys |-> CASE k = k0 -> 0 [] k = k1 -> 1 [] k = k4 -> 4
                               [] k = k8 -> 8 [] OTHER -> 12]
================================================================================
