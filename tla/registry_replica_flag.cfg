CONSTANTS
  Leaves = {"a", "b", "s"}
  Groups = {"g"}
  Gens = {1, 2}
  Ids <- MCIds
  GroupDef <- Replicated
  Configs <- Plain
  Admins = {t1}
  Beats = {h1, h2}
  NoName = NoName
  Reporting = FALSE
SPECIFICATION Spec
CHECK_DEADLOCK FALSE
INVARIANT ReplicaFlagsExact
