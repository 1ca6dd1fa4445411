--------------------------- MODULE MCRealtimeServer ---------------------------
(* Finite values for RealtimeServer are in server.cfg.                       *)
EXTENDS RealtimeServer
=============================================================================
