---------------------------- MODULE MCLru2Level ----------------------------
(* Lru2Level with three nodes and four keys: a node in the middle of the list,
   and a key that has no node.                                               *)
EXTENDS Lru2Level
=============================================================================
