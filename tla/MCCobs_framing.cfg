SPECIFICATION Spec
CONSTANTS
  MaxCode = 4
  Alphabet = {0, 1}
  MaxLength = 6
INVARIANTS
  NoFramingByte
CHECK_DEADLOCK FALSE
