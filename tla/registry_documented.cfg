SPECIFICATION Spec
CONSTANTS
  Leaves = {"a", "s"}
  Groups = {"g"}
  Gens = {1, 2}
  Ids <- MCIds
  GroupDef <- Shadowed
  Configs <- BothDefaults
  Admins = {t1}
  Beats = {h1, h2}
  NoName = NoName
  Reporting = FALSE
INVARIANTS
  ClosedHasNoPools
  BuffersFlush
  VisibleIsResolved
  DefaultRegistered
CHECK_DEADLOCK FALSE
