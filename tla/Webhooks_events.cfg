SPECIFICATION FairSpec
CONSTANTS
  Hooks = {1, 2}
  Editors = {ed}
  HookRows <- MCRows
  Kinds <- MCKinds
  MaxEvents = 2
  MaxEdits = 2
  Slots = 1
INVARIANTS TypeOK OnlyInScope
PROPERTY EveryEventIsDispatched
CHECK_DEADLOCK FALSE
