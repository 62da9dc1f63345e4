SPECIFICATION Spec
CONSTANTS
  Clusters = {c1}
  MaxStarts = 2
  MaxOutages = 0
INVARIANT FreshIsComplete
