SPECIFICATION Spec
CONSTANTS
  Byte = {0, 1, 2}
  MaxRaw = 7
  Sync1 = 1
  Sync2 = 2
  Crc <- MCCrc
  MaxStream = 13
INVARIANTS
  TypeOK
  DeliversIntactFrames
  MissesNothingElse
CHECK_DEADLOCK FALSE
