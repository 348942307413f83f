SPECIFICATION Spec
CONSTANTS
  c1 = c1
  c2 = c2
  r1 = r1
  r2 = r2
  Beat = Beat
  Reaper = Reaper
  Clients = {c1, c2}
  Requests = {r1, r2}
  MinConn = 1
  MaxConn = 2
  Pooled = TRUE
  Heartbeat = TRUE
  ZeroWait = {}
  NoDeadline = {}
  Graces = {TRUE, FALSE}
SYMMETRY Symmetry
INVARIANTS
  TypeOK
  SlotsConserved
  CapRespected
  BorrowedExact
  MetricsConserved
  DrainedStaysEmpty
  NobodyWaitsOnClosedPool
PROPERTIES
  NoGrantAfterClose
