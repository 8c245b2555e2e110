------------------------------ MODULE MCRuntime ------------------------------
(* Small instances of TaskRuntime for TLC. *)
EXTENDS TaskRuntime, TLC

Symmetry == Permutations(Requests)
=============================================================================
