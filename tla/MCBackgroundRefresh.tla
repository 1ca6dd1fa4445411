------------------------ MODULE MCBackgroundRefresh ------------------------
(* Finite values for BackgroundRefresh; users are interchangeable.            *)
EXTENDS BackgroundRefresh, TLC

Symmetry == Permutations(Users)
=============================================================================
