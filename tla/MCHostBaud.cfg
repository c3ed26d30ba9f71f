SPECIFICATION Spec
CONSTANTS
  Last = 4
  Supported = {1, 3}
  MaxAttempts = 2
  Lines = 2
INVARIANTS
  EveryRateIsTested
