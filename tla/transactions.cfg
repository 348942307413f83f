SPECIFICATION Spec
CONSTANTS
  SwallowedFail = FALSE
  Keys = {k1, k2}
  Limit = 1
  Used <- AllKinds
  Modes = {"transaction"}
  Ops <- TxPreparedOps
  MaxSessions = 2
  MaxCalls = 2
  Careful = TRUE
INVARIANTS
  PreparedInStep
PROPERTIES
  Implements
CHECK_DEADLOCK FALSE
