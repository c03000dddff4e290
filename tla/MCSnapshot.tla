----------------------------- MODULE MCSnapshot -----------------------------
(* Model-checking instances of Snapshot.                                   *)
EXTENDS Snapshot
=============================================================================
