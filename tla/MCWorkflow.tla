----------------------------- MODULE MCWorkflow -----------------------------
(***************************************************************************)
(* Instances of ChatWorkflow for TLC.                                      *)
(***************************************************************************)
EXTENDS ChatWorkflow, TLC

Symmetry == Permutations(Callers)
============================================================================
