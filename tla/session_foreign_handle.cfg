SPECIFICATION Spec
CONSTANTS
  SwallowedFail = FALSE
  Keys = {k1, k2}
  Limit = 0
  Used = {"postgres"}
  Modes = {"session"}
  Ops = {"prepare"}
  MaxSessions = 2
  MaxCalls = 1
  Careful = FALSE
INVARIANTS
  NoForeignHandle
CHECK_DEADLOCK FALSE
