--------------------------- MODULE MCMobileSession ---------------------------
(* Finite values for MobileSession are in session.cfg: two people on one      *)
(* phone, two requests at once.                                              *)
EXTENDS MobileSession, TLC

Interchangeable == Permutations(Users) \cup Permutations(Slots)
=============================================================================
