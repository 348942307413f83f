-------------------------- MODULE MCCircuitBreaker --------------------------
(* CircuitBreaker for TLC. *)
EXTENDS CircuitBreaker, TLC

CONSTANTS t1, t2, t3

Symmetry == Permutations(Callers)
=============================================================================
