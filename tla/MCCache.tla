------------------------------ MODULE MCCache ------------------------------
(* Cache with two goroutines, which is enough for two first writers to race,
   for a first writer or a reader to race with Close, and for a second Close. *)
EXTENDS Cache
=============================================================================
