SPECIFICATION MCSpec
CONSTANTS
  MaxCode = 4
  Depth = 6
  MaxOut = 8
  Messages <- MCMessages
  MaxEncLen = 20
  MaxSent = 4
  Window = 3
  Alphabet = {0, 1, 2, 3, 4}
  MaxLength = 7
  NoTask = NoTask
  NoByte = NoByte
  NoResult = NoResult
  a = a
  b = b
  NoClient = NoClient
INVARIANTS
  CodecIsExact
  WireTypeOK
  DeliveredWasSent
  NothingLost
  ReplyToItsSender
PROPERTIES
  FrameRecovers
  FifoAlone
  ListingEnds
  AnsweredBeforeClose
  RequestsAnswered
  ServerReturns
CHECK_DEADLOCK FALSE
