SPECIFICATION Spec
CONSTANTS
  ZeroTicks = 3
  ZeroPose = 1
  Decimation = 2
  HistoryLen = 2
  Window = 1
  ActionScale = 2
  DefaultPose = 3
  DofPosScale = 1
  Poses <- MCPoses
  Outputs = {0, 1}
  Requests = {"ZERO", "RL_walk", "SIMPLE_EXAMPLE"}
INVARIANTS
  NoNullDispatch
  ZeroArmedOutside
  WalkForgets
  HomingWithinBounds
PROPERTIES
  HomingSettles
  WalkingInfers
  HomingApproaches
  ImplementsController
