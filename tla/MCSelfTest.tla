----------------------------- MODULE MCSelfTest -----------------------------
(* Poses on both sides of the limits, three motors, a move of twelve steps. *)
EXTENDS SelfTest

MCAngles == -3 .. 3
=============================================================================
