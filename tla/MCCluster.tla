------------------------------ MODULE MCCluster ------------------------------
(* Cluster with two nodes, a user who may be on either and two handlers: the nodes
   can wait for each other, and the goroutines of calls that were given up can meet
   in one group, so that two lead and a third waits for the call that the Delete of
   the other has taken off the map.                                            *)
EXTENDS Cluster, TLC

CONSTANTS A, B, u1, h1, h2
=============================================================================
