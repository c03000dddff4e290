--------------------------- MODULE MCLogRotation ----------------------------
(* Model-checking instances of LogRotation.                                *)
EXTENDS LogRotation
=============================================================================
