SPECIFICATION LineSpec
CONSTANTS
  Byte = {0, 1, 5, 9}
  MaxRaw = 7
  Noise = {5, 9}
  MaxFaults = 4
  Sync1 = 5
  Sync2 = 9
  Crc <- MCCrc
  Frames <- MCFrames
PROPERTIES
  StaysInStep
  Resynchronises
