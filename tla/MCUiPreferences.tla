--------------------------- MODULE MCUiPreferences ---------------------------
(* Finite values for UiPreferences.                                          *)
EXTENDS UiPreferences
=============================================================================
