------------------------------ MODULE MCReads ------------------------------
\* Constants for model checking Reads.
EXTENDS Reads

CONSTANTS t1, t2, k1, k2

\* One request reads and writes in its contexts; beside it another reads.
OneWriter ==
  [t \in Threads |-> IF t = t1 THEN {"read", "stream", "cursor", "write", "session"}
                     ELSE {"read", "cursor"}]
OneScope == [t \in Threads |-> IF t = t1 THEN 1 ELSE 0]
GrowingBytes == [v \in 0..MaxWrites |-> v + 1]
TwoScopes == [t \in Threads |-> IF t = t1 THEN 2 ELSE 0]

Symmetry == Permutations(Keys)
=============================================================================
