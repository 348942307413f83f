SPECIFICATION FairSpec
CONSTANTS
  t1 = t1
  t2 = t2
  t3 = t3
  Callers = {t1, t2}
  Kinds = {"call", "cursor"}
  Threshold = 1
  BenignWhileDown = FALSE
PROPERTIES
  Recovers
