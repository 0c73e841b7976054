--------------------------- MODULE MCSessionRepo ---------------------------
(* SessionRepo on two sessions: enough for a sweep to meet one that waits  *)
(* and one that does not, and for two callers to race for one row.         *)
EXTENDS SessionRepo
=============================================================================
