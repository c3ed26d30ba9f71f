SPECIFICATION Spec
CONSTANTS
  Groups = {"acc", "eul"}
  Fields = {"acc", "rpy", "zyx"}
  GroupOf <- MCGroupOf
  InPlace = {"zyx"}
  Kinds <- MCKinds
  Items <- MCItems
  Size <- MCSize
  At <- MCAt
  TagOf <- MCTagOf
  MaxLen = 6
  MaxChunk = 2
  MaxFrame = 3
INVARIANTS
  QuietCopyIsWhole
  ReplacesWhatIsCarried
PROPERTIES
  NeverGoesBack
  SamplesArrive
