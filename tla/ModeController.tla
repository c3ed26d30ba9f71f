--------------------------- MODULE ModeController ---------------------------
(***************************************************************************)
(* What the control loop promises, without its package, its adapters and   *)
(* its reset handshakes: every tick runs the requested mode, and whatever  *)
(* a mode remembers starts from scratch on the tick that enters it.        *)
(*   - Homing commands the k-th point of the cubic from the position       *)
(*     measured on the first tick of this visit.                           *)
(*   - Walking commands the default pose until the first inference of this *)
(*     visit, then its latest action; the network's memory holds samples   *)
(*     of this visit only.                                                 *)
(*   - The example mode commands nothing: the last command stays.          *)
(***************************************************************************)
EXTENDS ZeroState, RlDeploy

CONSTANTS Poses, Outputs, Modes

VARIABLES
  want,       (* the mode asked for                                       *)
  measured,   (* the joint position last measured                         *)
  mode,       (* the mode the last tick ran                               *)
  clock,      (* ticks of this visit: saturated (homing), modulo Decimation
                 (walking), 0 where no time is kept                       *)
  anchor,     (* where this homing visit started from; 0 elsewhere        *)
  memory,     (* walking: [last action, history]; both blank elsewhere    *)
  seen,       (* what the network was last shown                          *)
  command     (* the command                                              *)

vars == <<want, measured, mode, clock, anchor, memory, seen, command>>

Blank == [last |-> 0, hist |-> NoHistory]

Init ==
  /\ want = "ZERO"
  /\ measured = 0
  /\ mode = "ZERO"
  /\ clock = 0
  /\ anchor = 0
  /\ memory = Blank
  /\ seen = RlCtor.inputdata
  /\ command = [pos |-> 0, vel |-> 0, PD |-> "none"]

Ask ==
  /\ \E m \in Modes : want' = m
  /\ UNCHANGED <<measured, mode, clock, anchor, memory, seen, command>>

Measure ==
  /\ \E p \in Poses : measured' = p
  /\ UNCHANGED <<want, mode, clock, anchor, memory, seen, command>>

(* The first tick of a visit (of the program's very first one, too).       *)
Entering == mode # want

Home ==
  LET fresh == Entering \/ clock = 0
      traj  == ThirdpolyVector(anchor', 0, ZeroPose, 0, clock')
  IN /\ want = "ZERO"
     /\ clock' = IF fresh THEN 1 ELSE IF clock < ClockTop THEN clock + 1 ELSE clock
     /\ anchor' = IF fresh THEN measured ELSE anchor
     /\ memory' = Blank
     /\ command' = [pos |-> traj.pd, vel |-> traj.pd_dot, PD |-> "zero"]
     /\ UNCHANGED seen

Walk ==
  LET m == IF Entering THEN Blank ELSE memory
      c == IF Entering THEN 0 ELSE clock
  IN /\ want = "RL_walk"
     /\ clock' = (c + 1) % Decimation
     /\ anchor' = 0
     /\ \/ /\ clock' # 0
           /\ memory' = m
           /\ UNCHANGED seen
        \/ /\ clock' = 0
           /\ seen' = [pos  |-> (measured - DefaultPose) * DofPosScale,
                       last |-> m.last,
                       hist |-> HistoryTail(m.hist)]
           /\ \E out \in Outputs :
                memory' = [last |-> out, hist |-> Shift(m.hist, measured * DofPosScale)]
     /\ command' = [pos |-> RlTarget(memory'.last) * Scale, vel |-> 0, PD |-> "rl"]

Hold ==
  /\ want = "SIMPLE_EXAMPLE"
  /\ clock' = 0
  /\ anchor' = 0
  /\ memory' = Blank
  /\ UNCHANGED <<seen, command>>

Tick ==
  /\ mode' = want
  /\ Home \/ Walk \/ Hold
  /\ UNCHANGED <<want, measured>>

Next == Ask \/ Measure \/ Tick

Spec == Init /\ [][Next]_vars
=============================================================================
