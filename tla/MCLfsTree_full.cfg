SPECIFICATION Spec
CONSTANTS
  BlockCount = 11
  LogSize = 8
  Modulus = 7
  Bad = {}
  Slot <- MCSlot
  FileSlot <- MCFileSlot
  DirSlot <- MCDirSlot
  Scripts <- MCFullScripts
  StaleSyncs = FALSE
  HarmsWhenFull = TRUE
  Starts <- MCStarts
  MaxLosses = 0
PROPERTIES
  ImplementsFileTree
CHECK_DEADLOCK FALSE
