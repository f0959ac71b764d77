SPECIFICATION Spec
CONSTANTS
  BlockCount = 8
  BlockSize = 6
  CacheSize = 2
  ReadSize = 2
  LookSize = 4
  InlineMax = 1
  Path = {"a"}
  Handle = {"h1", "h2"}
  Seeks = {0, 4, 9}
  Lengths = {1, 7, 14}
  Reads = {3, 6}
  WriteSizes = {1, 7}
  Openings <- MCOpenings
  First = {0, 12}
  BadWords <- MCBadWords
  Starts = {2, 5}
  Excluding = {"stray", "lagging"}
  NoContent = NoContent
  Closed = Closed
  Stale = Stale
  MaxCalls = 4
INVARIANTS
  NoFault
PROPERTIES
  ImplementsFileStore
  NeverTouchesLive
  NoSpaceIsReal
CHECK_DEADLOCK FALSE
