SPECIFICATION Spec
CONSTANTS
  o1 = o1
  o2 = o2
  o3 = o3
  d1 = d1
  k1 = k1
  k2 = k2
  Timer = Timer
  Ops = {o1}
  Delays = {}
  Workers = {k1}
  QueueLimit = 1
INVARIANTS
  NoThreadLeft
