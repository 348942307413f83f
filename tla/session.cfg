SPECIFICATION Spec
CONSTANTS
  SwallowedFail = TRUE
  Keys = {}
  Limit = 0
  Used <- AllKinds
  Modes = {"session", "transaction", "cursor"}
  Ops <- TxOps
  MaxSessions = 2
  MaxCalls = 2
  Careful = FALSE
INVARIANTS
  CleanWhenPooled
  NoHiddenTx
  DepthCounts
  WatcherInside
  BatchAtomic
CHECK_DEADLOCK FALSE
