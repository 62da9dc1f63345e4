SPECIFICATION FairSpec
CONSTANTS
  Clusters = {c1, c2}
  MaxStarts = 3
  MaxOutages = 1
INVARIANT TypeOK
INVARIANT RunsIffCurrent
INVARIANT WrongFlagNeedsReplacement
PROPERTY CurrentGetsSynced
PROPERTY StoppedWaiterEnds
