SPECIFICATION MCSpec
CONSTANTS
  Callsets = {1, 2}
  FrameByte = 4
  Clients = {"c"}
  Kinds <- MCKinds
  OtherKinds <- MCOtherKinds
  Mailbox = 1
  Shared = TRUE
  MaxCalls = 2
  MaxCopies = 2
  MaxOthers = 1
  MaxFails = 1
  s1 = s1
  s2 = s2
  Anchor = Anchor
  Unset = Unset
  c1 = c1
  c2 = c2
  NoScript = NoScript
INVARIANTS
  ReplyTellsOfCall
  PackedAsWritten
  RunsPerDatagram
  RingIsList
  LastCallStands
  CounterReturns
  FrameThenReset
  AcceptedRunInOrder
  ReportIsTrue
  ArithmeticHolds
PROPERTIES
  MailboxDrained
  AddReturns
CHECK_DEADLOCK FALSE
