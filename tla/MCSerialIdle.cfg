SPECIFICATION Spec
CONSTANTS
  Size = 3
  MaxLine = 2
  Timeout = 1
  Wrap = 6
PROPERTY
  IdleEndsRead
