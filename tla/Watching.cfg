SPECIFICATION MCSpec
CONSTANTS
  Clusters = {c1, c2}
  MaxStarts = 2
  MaxOutages = 1
  Replicas = {r1}
  Names = {n1, n2}
  MaxAdds = 2
  MaxFaults = 2
  MaxCrashes = 1
  MaxClusterOutages = 2
  Hooks = {1}
  Editors = {ea, eb}
  HookRows <- MCRows
  Kinds <- MCKinds
  MaxEvents = 2
  MaxEdits = 3
  Slots = 1
INVARIANTS RunsIffCurrent WrongFlagNeedsReplacement ConnectedAsSaved
PROPERTIES CurrentGetsSynced RemovedIsForgotten GreenWithoutFaults EveryEventIsDispatched
CHECK_DEADLOCK FALSE
