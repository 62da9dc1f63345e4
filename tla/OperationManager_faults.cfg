SPECIFICATION Spec
CONSTANTS
  m1 = m1
  m2 = m2
  NoManager = NoManager
  Managers = {m1, m2}
  Workers = {1}
  MaxOps = 2
  QueueSize = 1
  Registered <- EqualReplicas
  Timely = FALSE
  MaxFaults = 1
  MaxDepartures = 1
SYMMETRY ReplicaSymmetry
INVARIANT AppliedAtMostOnce
INVARIANT RetryIsSafe
INVARIANT SuccessIsReal
PROPERTY VerdictIsFinal
