------------------------- MODULE MCConnectionPool -------------------------
(* Instances of ConnectionPool for TLC. *)
EXTENDS ConnectionPool, TLC

\* Clients with the same timeout, and requests, are interchangeable.
Symmetry == Permutations(Clients \ ZeroWait) \cup Permutations(Requests)
=============================================================================
