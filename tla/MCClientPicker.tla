--------------------------- MODULE MCClientPicker ---------------------------
(* ClientPicker with three nodes whose virtual nodes alternate on the ring and a
   key between them and one after the last.                                       *)
EXTENDS ClientPicker, TLC

CONSTANTS a, b, c, y, z

Placement == (a :> <<1, 6, 9>>) @@ (b :> <<4, 2, 8>>) @@ (c :> <<7, 3, 5>>)
HashTable == [n \in Nodes |-> [i \in 0 .. MaxReplicas - 1 |-> Placement[n][i + 1]]]
KeyTable == (y :> 5) @@ (z :> 10)
=============================================================================
