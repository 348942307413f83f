SPECIFICATION Spec
CONSTANTS
  SwallowedFail = FALSE
  Keys = {}
  Limit = 0
  Used = {"mysql"}
  Modes = {"transaction"}
  Ops = {"read"}
  MaxSessions = 1
  MaxCalls = 1
  Careful = TRUE
INVARIANTS
  NoLeakedTx
CHECK_DEADLOCK FALSE
