--------------------------- MODULE MCChatMessages ---------------------------
(* Finite values for ChatMessages; messages of one author are interchangeable. *)
EXTENDS ChatMessages, TLC

Symmetry == Permutations(Mine) \cup Permutations(Theirs)
=============================================================================
