---------------------------- MODULE MCInstances -----------------------------
(***************************************************************************)
(* Model-checking instances of Instances.  The processes with raw output   *)
(* are interchangeable.                                                    *)
(***************************************************************************)
EXTENDS Instances, TLC

Symmetry == Permutations(RawOutput)
=============================================================================
