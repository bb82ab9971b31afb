SPECIFICATION FairSpec
CONSTANTS
  QueSize = 2
  IdMax = 3
  RollMax = 2
  Overlaps = {TRUE}
  NoFile = NoFile
  MaxBatches = 2
  MaxRemovals = 0
  MaxRestarts = 0
PROPERTY WritesCanBeRead
CHECK_DEADLOCK FALSE
