SPECIFICATION Spec
CONSTANTS
  m1 = m1
  m2 = m2
  NoManager = NoManager
  Managers = {m1, m2}
  Workers = {1}
  MaxOps = 2
  QueueSize = 1
  Registered <- EqualReplicas
  Timely = TRUE
  MaxFaults = 0
  MaxDepartures = 1
INVARIANT AIChangeIsNeverRetried
