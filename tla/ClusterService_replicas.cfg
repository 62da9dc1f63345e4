SPECIFICATION Spec
CONSTANTS
  r1 = r1
  r2 = r2
  c1 = c1
  c2 = c2
  Replicas = {r1, r2}
  Names = {c1}
  MaxAdds = 2
  MaxFaults = 1
  MaxCrashes = 1
  MaxOutages = 1
INVARIANT NothingUnsavedIsUsed
