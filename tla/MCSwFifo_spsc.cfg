CONSTANTS
  Writers = {w}
  Readers = {r}
  Flushers = {r}
  Askers = {w, r}
  Depth = 2
  ItemSize = 1
  Byte = {b0, b1}
  MaxRequest = 2
  Modulus = 256
  ThreadSafe = TRUE
  NoTask = NoTask
  NoByte = NoByte
  NoResult = NoResult
SPECIFICATION FairSpec
INVARIANTS
  TypeOK
  AckWithinCount
PROPERTIES
  ImplementsFifo
  PromisesKept
  CallsReturn
