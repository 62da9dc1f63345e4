SPECIFICATION FairSpec
CONSTANTS
  Clients = {b1, b2}
  BroadcastCap = 1
  SendCap = 2
  MaxEvents = 3
INVARIANT TypeOK
INVARIANT NoPanic
INVARIANT BatchIsPending
INVARIANT NoGap
PROPERTY StopEndsAll
PROPERTY LeaversAreForgotten
PROPERTY ClientsKeepUp
