----------------------------- MODULE MCExecutor -----------------------------
(* Executor for TLC. *)
EXTENDS Executor, TLC

CONSTANTS o1, o2, o3, d1, k1, k2

Symmetry == Permutations(Ops) \cup Permutations(Workers)
=============================================================================
