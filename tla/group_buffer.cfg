SPECIFICATION FairSpec
CONSTANTS
  w1 = w1
  w2 = w2
  w3 = w3
  n1 = n1
  n2 = n2
  n3 = n3
  Writes = {w1, w2, w3}
  Candidates <- OneCandidate
  HasFailover = FALSE
  MaxQueue = 2
  TtlEnabled = TRUE
  MaxAttempts = 2
  RequireHealthy = FALSE
  Shadow = n3
  ShadowWrites = {}
VIEW View
INVARIANTS
  PendingInOrder
  NothingStranded
PROPERTIES
  Settles
