------------------------------ MODULE MCGroup ------------------------------
(* Group with two goroutines, which is enough for a load to race with a Set,
   a Delete, another load or a close, and two orders that can overtake each
   other.                                                                    *)
EXTENDS Group, TLC

CONSTANTS g1, g2

Symmetry == Permutations(Procs)
=============================================================================
