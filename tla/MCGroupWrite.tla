---------------------------- MODULE MCGroupWrite ----------------------------
(* GroupWrite for TLC: the candidates in order. *)
EXTENDS GroupWrite

CONSTANTS w1, w2, w3, n1, n2, n3

TwoCandidates == <<n1, n2>>
OneCandidate == <<n1>>

\* What the steps depend on: no step reads the status of a caller or sent.
View == <<bufferVars, link, circuit, writer, targets, attempt, replayTry>>

Symmetry == Permutations(ShadowWrites) \cup Permutations(Writes \ ShadowWrites)
=============================================================================
