SPECIFICATION FairSpec
CONSTANTS
  Requests = {r1, r2}
  Operations = {o1, o2}
  Checks = {c1}
  ChannelSize = 2
  BatchSize = 2
INVARIANTS TypeOK FlushesWhileOpen
CHECK_DEADLOCK FALSE
