SPECIFICATION Spec
CONSTANTS
  c1 = c1
  c2 = c2
  r1 = r1
  r2 = r2
  Beat = Beat
  Reaper = Reaper
  Clients = {c1, c2}
  Requests = {r1, r2}
  MinConn = 0
  MaxConn = 1
  Pooled = FALSE
  Heartbeat = TRUE
  ZeroWait = {c1}
  NoDeadline = {}
  Graces = {TRUE, FALSE}
INVARIANTS
  SlotsConserved
