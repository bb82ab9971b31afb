SPECIFICATION Spec
CONSTANTS
  a = a
  b = b
  Tables = {a, b}
  Keys = {k1, k2, k3}
  LineLen <- MCLineLen
  LineCounts = {0, 2}
  RecCap = 2
  Period = 1
  Timeout = 2
  Buffers = {5, 13}
  U32 = 16
  CharMod = 2
  FilesMayFail = TRUE
SYMMETRY Symmetry
INVARIANTS TypeOK NeverOverrun TableInv RoomyNeverEnds
PROPERTIES AddLosesNothing FirstGivesWay ExpiresOnlyBlocked
CHECK_DEADLOCK FALSE
