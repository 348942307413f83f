SPECIFICATION Spec
CONSTANTS
  w1 = w1
  w2 = w2
  w3 = w3
  n1 = n1
  n2 = n2
  n3 = n3
  Writes = {w1, w2}
  Candidates <- TwoCandidates
  HasFailover = TRUE
  MaxQueue = 1
  TtlEnabled = FALSE
  MaxAttempts = 1
  RequireHealthy = TRUE
  Shadow = n3
  ShadowWrites = {w2}
INVARIANTS
  NoBlindReplay
  StatusTruthful
  ShadowIsolated
