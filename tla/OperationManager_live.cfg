SPECIFICATION FairSpec
CONSTANTS
  m1 = m1
  m2 = m2
  NoManager = NoManager
  Managers = {m1}
  Workers = {1, 2}
  MaxOps = 2
  QueueSize = 1
  Registered <- EqualReplicas
  Timely = TRUE
  MaxFaults = 1
  MaxDepartures = 1
PROPERTY EveryOperationEnds
PROPERTY StopReturns
