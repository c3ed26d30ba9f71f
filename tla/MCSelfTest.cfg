SPECIFICATION TestSpec
CONSTANTS
  Total = 12
  Angles <- MCAngles
  Limit = 2
  Motors = 3
  NoCommand = NoCommand
INVARIANTS
  TestTypeOK
  MovesToZero
  GainsAsAsked
PROPERTIES
  NeverJumps
CHECK_DEADLOCK FALSE
