--------------------------- MODULE MCUpdateDaemon ---------------------------
(* Instances of UpdateDaemon for TLC. *)
EXTENDS UpdateDaemon
=============================================================================
