SPECIFICATION Spec
CONSTANTS
  Clients = {a}
  Deployments = {"web"}
  Pods = {"pod"}
  Cached = {"web"}
  Values = {2}
  MaxVersion = 4
  MaxRevision = 2
  MaxClock = 1
CONSTANT Batches <- MCBatches
CHECK_DEADLOCK FALSE
INVARIANT RollbackRestores
