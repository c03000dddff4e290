------------------------------- MODULE MCMain -------------------------------
(* Model-checking instances of Main.                                       *)
EXTENDS Main
=============================================================================
