SPECIFICATION FairSpec
CONSTANTS
  Size = 2
  IndexMod = 8
  Elements = {e1, e2, e3}
  NoElem = NoElem
INVARIANTS TypeOK NoSlotConflict RingInv
PROPERTIES ImplementsQueue DrainProgress
CHECK_DEADLOCK TRUE
