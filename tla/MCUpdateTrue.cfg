SPECIFICATION Spec
CONSTANTS
  Size = 5
  PacketSizes = {0, 1, 2, 3, 4, 5}
  MaxPayload = 2
  LengthWrap = 4
  Attempts = 2
  Props = 2
INVARIANT
  SuccessIsTrue
CHECK_DEADLOCK FALSE
