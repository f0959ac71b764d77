SPECIFICATION Spec
CONSTANTS
  BlockCount = 12
  LogSize = 8
  Modulus = 3
  Bad = {5}
  Slot <- MCSlot
  FileSlot <- MCFileSlot
  DirSlot <- MCDirSlot
  Scripts <- MCScripts
  StaleSyncs = FALSE
  HarmsWhenFull = FALSE
  Starts <- MCStarts
  MaxLosses = 1
INVARIANTS
  ListAddsUp
  HandlesFollow
  ListingComplete
PROPERTIES
  ImplementsFileTree
CHECK_DEADLOCK FALSE
