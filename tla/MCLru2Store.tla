---------------------------- MODULE MCLru2Store ----------------------------
(* Lru2Store with the smallest levels that can evict: two keys that share the
   only bucket.                                                              *)
EXTENDS Lru2Store, TLC

CONSTANTS k1, k2, g1, g2

OneBucket == [k \in Keys |-> 1]
=============================================================================
