SPECIFICATION Spec
CONSTANTS
  Byte = {0, 1, 2, 3, 4, 5, 6, 8}
  NUL = 0
  Dollar = 1
  Talkers = {2, 3}
  Digits = {8}
  Comma = 4
  Star = 5
  LF = 6
  MaxRaw = 6
  MaxField = 2
  HeaderLen = 1
  Xor <- MCXor
  Hex <- MCHex
  Kind <- MCKind
INVARIANTS
  AcceptedIsComplete
CHECK_DEADLOCK FALSE
