SPECIFICATION Spec
CONSTANTS
  BlockCount = 8
  BlockSize = 6
  CacheSize = 2
  ReadSize = 2
  LookSize = 4
  InlineMax = 1
  Path = {"a"}
  Handle = {"h1", "h2"}
  Seeks = {9}
  Lengths = {7}
  Reads = {3}
  WriteSizes = {1}
  Openings <- MCOpenings
  First = {12}
  BadWords = {{}}
  Starts = {2}
  Excluding = {"lagging"}
  NoContent = NoContent
  Closed = Closed
  Stale = Stale
  MaxCalls = 5
PROPERTIES
  ImplementsFileStore
CHECK_DEADLOCK FALSE
