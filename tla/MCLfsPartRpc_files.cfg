SPECIFICATION Spec
CONSTANTS
  Clients = {a, b}
  NumDescriptors = 2
  FdByte = 4
  CallFds = {0, 1, 4}
SYMMETRY Symmetric
INVARIANTS
  HandlesLive
  NoFault
  NoLeak
  TypeOK
CHECK_DEADLOCK FALSE
