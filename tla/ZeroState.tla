----------------------------- MODULE ZeroState -----------------------------
(***************************************************************************)
(* The homing action of the control loop (class ZeroState).  It captures   *)
(* the measured joint position on the first tick of a visit and moves the  *)
(* position command along a cubic to zero_pose in zero_totalTime.          *)
(*                                                                         *)
(* One joint stands for the 21 (the code treats them alike).  Time is      *)
(* counted in control periods: dt_Zero = control_period is one tick, so    *)
(* t_Zero is a natural number, and zero_totalTime is ZeroTicks of them.    *)
(* Positions are integers in an arbitrary unit and commands are in units   *)
(* of 1/Scale of it, which makes the cubic's division exact.               *)
(***************************************************************************)
EXTENDS Integers

CONSTANTS
  ZeroTicks,   (* zero_totalTime / control_period (250 in ZERO.yaml)  *)
  ZeroPose     (* zero_joint_position                                 *)

ASSUME ZeroAssumption == ZeroTicks \in Nat \ {0} /\ ZeroPose \in Int

Scale == ZeroTicks * ZeroTicks * ZeroTicks

(* Faults the runs must notice: a sign slip in the cubic; no clamp past T. *)
ThirdpolyVectorSlip(p0, v0, p1, v1, c) ==
  [pd |-> (p1 - p0) * (3 * ZeroTicks * c * c + 2 * c * c * c) + p0 * Scale,
   pd_dot |-> 0]

ThirdpolyVectorUnclamped(p0, v0, p1, v1, c) ==
  [pd |-> (p1 - p0) * (3 * ZeroTicks * c * c - 2 * c * c * c) + p0 * Scale,
   pd_dot |-> 6 * (p1 - p0) * (ZeroTicks * c - c * c)]

(* Position and velocity at time c of the cubic from (p0, v0) to (p1, v1)  *)
(* that lasts ZeroTicks, both in units of 1/Scale.                         *)
ThirdpolyVector(p0, v0, p1, v1, c) ==
  LET T  == ZeroTicks
      m  == p1 - p0 - v0 * T
      n  == v1 - v0
      a2 == T * (3 * m - n * T)
      a3 == n * T - 2 * m
  IN IF c < 0
       THEN [pd |-> p0 * Scale, pd_dot |-> 0]
     ELSE IF c <= T
       THEN [pd     |-> a3 * c * c * c + a2 * c * c + v0 * c * Scale + p0 * Scale,
             pd_dot |-> 3 * a3 * c * c + 2 * a2 * c + v0 * Scale]
     ELSE [pd |-> p1 * Scale, pd_dot |-> 0]

(* t_Zero only matters up to the first value past zero_totalTime: the      *)
(* counter stops at ClockTop instead of growing for ever.                  *)
ClockTop == ZeroTicks + 1

ZeroCtor == [If_first_Zero |-> TRUE, t_Zero |-> 0, init_pose |-> 0, motor_pos |-> 0]

(* A fault the runs must notice: the handshake flag is not read back.      *)
ZeroGetDataFromPackageDeaf(z, d) == [z EXCEPT !.motor_pos = d.motor_pos]

ZeroGetDataFromPackage(z, d) ==
  [z EXCEPT !.If_first_Zero = d.If_first_Zero, !.motor_pos = d.motor_pos]

(* A fault the runs must notice: If_first_Zero is never cleared.           *)
ZeroAdvanceAlwaysFirst(z) == [z EXCEPT !.t_Zero = 1, !.init_pose = z.motor_pos]

(* The object after SetDataToPackage: a first tick restarts the clock and  *)
(* captures the pose; every tick advances the clock.                       *)
ZeroAdvance(z) ==
  LET t == IF z.If_first_Zero THEN 0 ELSE z.t_Zero
  IN [z EXCEPT !.If_first_Zero = FALSE,
               !.t_Zero        = IF t < ClockTop THEN t + 1 ELSE t,
               !.init_pose     = IF z.If_first_Zero THEN z.motor_pos ELSE @]

(* What SetDataToPackage, having advanced the object to z, writes.         *)
ZeroSetDataToPackage(z, d) ==
  LET traj == ThirdpolyVector(z.init_pose, 0, ZeroPose, 0, z.t_Zero)
  IN [d EXCEPT !.If_first_Zero    = z.If_first_Zero,
               !.motor_Pos_desire = traj.pd,
               !.motor_Vel_desire = traj.pd_dot,
               !.sim_PD           = "zero",
               !.generalized_q_desired = traj.pd]
=============================================================================
