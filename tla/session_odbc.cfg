SPECIFICATION Spec
CONSTANTS
  SwallowedFail = FALSE
  Keys = {}
  Limit = 0
  Used = {"odbc"}
  Modes = {"session", "transaction"}
  Ops = {"batch", "execute"}
  MaxSessions = 1
  MaxCalls = 1
  Careful = TRUE
INVARIANTS
  BatchAtomicEverywhere
  NoFreedHandle
PROPERTIES
  ImplementsEverywhere
CHECK_DEADLOCK FALSE
