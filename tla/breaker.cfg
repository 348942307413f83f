SPECIFICATION FairSpec
CONSTANTS
  t1 = t1
  t2 = t2
  t3 = t3
  Callers = {t1, t2}
  Kinds = {"call", "tx"}
  Threshold = 2
  BenignWhileDown = FALSE
INVARIANTS
  ProbeOutstanding
PROPERTIES
  Recovers
  Trips
