SPECIFICATION Spec
CONSTANTS
  ZeroTicks = 2
  ZeroPose = 1
  Decimation = 2
  HistoryLen = 1
  Window = 1
  ActionScale = 2
  DefaultPose = 3
  DofPosScale = 1
  Poses <- MCPoses
  Outputs = {1}
  Requests = {"IDLE", "ZERO", "RL_walk", "SIMPLE_EXAMPLE"}
PROPERTIES
  UnhandledIsFatal
  UnhandledIsFinal
CHECK_DEADLOCK FALSE
