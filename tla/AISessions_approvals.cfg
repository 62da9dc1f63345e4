SPECIFICATION Spec
CONSTANTS
  Users = {u1, u2}
  Admins = {u1}
  Turns = {t1}
  Changes = {scale, expose}
  Risky = {expose}
  MaxPending = 2
  MaxPerUser = 1
  MaxIterations = 2
  MaxEmpty = 2
  MaxCalls = 2
  MaxChats = 3
  MaxRetries = 0
  MaxEvents = 1
INVARIANTS TypeOK
PROPERTIES RefusedOnlyWhenFull EveryTurnEnds
CHECK_DEADLOCK FALSE
