SPECIFICATION MCSpec
CONSTANTS
  Users = {u1, u2}
  Admins = {u1}
  Turns = {t1}
  Changes = {scale, expose}
  Risky = {expose}
  MaxPending = 2
  MaxPerUser = 1
  MaxIterations = 2
  MaxEmpty = 2
  MaxCalls = 2
  MaxChats = 2
  MaxRetries = 2
  MaxEvents = 1
  Requests = {r1, r2}
  Operations = {o1, o2}
  Checks = {c1}
  ChannelSize = 2
  BatchSize = 2
  Edits <- MCEdits
  Clients = {a}
  Deployments = {"web"}
  Pods = {"pod"}
  Cached = {"web"}
  Values = {2}
  Batches <- MCBatches
  MaxVersion = 3
  MaxRevision = 2
  MaxClock = 2
INVARIANTS AppliedAsApproved EveryCallIsAnswered StoppedMeansStored WritesWithinOwnPrivileges
PROPERTIES ShutdownEnds NoUnseenOverwrite
CHECK_DEADLOCK FALSE
