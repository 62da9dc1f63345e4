SPECIFICATION Spec
CONSTANTS
  Users = {ann}
  OtherMethod = {ann}
  Keys = {k1}
  Ceremonies = {1, 2, 3}
  Attempts = {r1, r2}
  CounterPolicy = "deny"
  MaxSigns = 2
  MaxHandles = 1
  MaxSaves = 1
PROPERTY CounterGrows
CHECK_DEADLOCK FALSE
