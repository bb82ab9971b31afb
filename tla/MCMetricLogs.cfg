SPECIFICATION FairSpec
CONSTANTS
  QueSize = 2
  IdMax = 2
  RollMax = 2
  Overlaps = {TRUE, FALSE}
  NoFile = NoFile
  MaxBatches = 4
  MaxRemovals = 2
  MaxRestarts = 1
INVARIANTS TypeOK HandedOutOnce WriterSurvives ServedOnce ServedInOrder LogsToCurrent
PROPERTY ServedWhenApart
CHECK_DEADLOCK FALSE
