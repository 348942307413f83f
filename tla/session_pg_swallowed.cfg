SPECIFICATION Spec
CONSTANTS
  SwallowedFail = TRUE
  Keys = {k1, k2}
  Limit = 1
  Used = {"postgres"}
  Modes = {"transaction"}
  Ops <- TxPreparedOps
  MaxSessions = 1
  MaxCalls = 2
  Careful = TRUE
INVARIANTS
  PreparedInStep
PROPERTIES
  Implements
CHECK_DEADLOCK FALSE
