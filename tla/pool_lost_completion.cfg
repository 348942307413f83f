SPECIFICATION Spec
CONSTANTS
  c1 = c1
  r1 = r1
  r2 = r2
  Beat = Beat
  Reaper = Reaper
  Clients = {c1}
  Requests = {r1, r2}
  MinConn = 0
  MaxConn = 1
  Pooled = TRUE
  Heartbeat = FALSE
  ZeroWait = {}
  NoDeadline = {}
  Graces = {TRUE, FALSE}
INVARIANTS
  NoLostCompletion
