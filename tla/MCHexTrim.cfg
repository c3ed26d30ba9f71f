SPECIFICATION Spec
CONSTANTS
  Addresses = {1, 2}
  Bases = {0, 3}
  Lengths = {1, 2}
  Initial = 3
  MaxLines = 4
INVARIANTS
  NothingUnusedIsLeft
CHECK_DEADLOCK FALSE
