SPECIFICATION Spec
CONSTANTS
  c1 = c1
  c2 = c2
  c3 = c3
  c4 = c4
  Beat = Beat
  Reaper = Reaper
  Clients = {c1, c2, c3, c4}
  Requests = {}
  MinConn = 1
  MaxConn = 2
  Pooled = TRUE
  Heartbeat = FALSE
  ZeroWait = {c1}
  NoDeadline = {c2, c3, c4}
  Graces = {TRUE, FALSE}
SYMMETRY Symmetry
INVARIANTS
  NoLostWakeup
