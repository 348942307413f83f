SPECIFICATION Spec
CONSTANTS
  c1 = c1
  c2 = c2
  Beat = Beat
  Reaper = Reaper
  Clients = {c1, c2}
  Requests = {}
  MinConn = 1
  MaxConn = 2
  Pooled = TRUE
  Heartbeat = TRUE
  ZeroWait = {}
  NoDeadline = {}
  Graces = {TRUE, FALSE}
INVARIANTS
  ForceCloseOnTimeout
  FailedBorrowReleasesSlot
  EstablishedWithinMax
PROPERTIES
  RetireKeepsMin
