-------------------------- MODULE MCRealtimeService --------------------------
(* Finite values for RealtimeService; attempts are interchangeable.           *)
EXTENDS RealtimeService, TLC

Symmetry == Permutations(Attempts)
=============================================================================
