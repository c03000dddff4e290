--------------------------- MODULE MCStatsHistory ---------------------------
(* Model-checking instances of StatsHistory.                               *)
EXTENDS StatsHistory
=============================================================================
