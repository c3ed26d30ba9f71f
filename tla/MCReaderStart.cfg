SPECIFICATION Spec
CONSTANTS
  Groups = {"acc", "eul"}
  Fields = {"acc", "rpy", "zyx"}
  GroupOf <- MCGroupOf
  InPlace = {"zyx"}
  Kinds <- MCKinds
  Items <- MCItems
  Size <- MCSize
  At <- MCAt
  TagOf <- MCTagOf
  MaxLen = 6
  MaxChunk = 1
  MaxFrame = 1
INVARIANT
  StartTellsFailure
