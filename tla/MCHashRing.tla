----------------------------- MODULE MCHashRing -----------------------------
(* HashRing with three nodes whose virtual nodes alternate on the ring, a key
   before the first of them, two between, and one after the last.            *)
EXTENDS HashRing, TLC

CONSTANTS a, b, c, x, y, z, w

Placement == (a :> <<1, 6, 9>>) @@ (b :> <<4, 2, 8>>) @@ (c :> <<7, 3, 5>>)
HashTable == [n \in Nodes |-> [i \in 0 .. MaxReplicas - 1 |-> Placement[n][i + 1]]]
KeyTable == (x :> 0) @@ (y :> 3) @@ (z :> 5) @@ (w :> 10)
=============================================================================
