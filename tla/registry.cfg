CONSTANTS
  Leaves = {"a", "s"}
  Groups = {"g"}
  Gens = {1, 2}
  Ids <- MCIds
  GroupDef <- Shadowed
  Configs <- SameDefault
  Admins = {t1}
  Beats = {h1, h2}
  NoName = NoName
  Reporting = TRUE
SPECIFICATION FairSpec
CHECK_DEADLOCK FALSE
INVARIANTS RefsRegistered NothingLeaked HeartbeatCovers
PROPERTY LifecycleReturns
