--------------------------- MODULE MCSingleFlight ---------------------------
(* SingleFlight with three goroutines: two that race between Load and Store
   and one that joins either call.                                           *)
EXTENDS SingleFlight
=============================================================================
