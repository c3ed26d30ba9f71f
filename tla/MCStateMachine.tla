--------------------------- MODULE MCStateMachine ---------------------------
(* Small instances of the control loop for TLC.                            *)
EXTENDS StateMachineManager

MCPoses == {-1, 2}
=============================================================================
