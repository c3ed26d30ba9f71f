SPECIFICATION Spec
CONSTANTS
  Addresses = {0, 1, 2}
  Bases = {0, 3}
  Lengths = {0, 1, 2}
  Initial = 3
  MaxLines = 5
INVARIANTS
  ImageIsFile
  GapsAreFilled
  ImageIffData
CHECK_DEADLOCK FALSE
