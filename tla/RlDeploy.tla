------------------------------ MODULE RlDeploy ------------------------------
(***************************************************************************)
(* The walking action of the control loop (class rl_deploy_cpg).  It runs  *)
(* the policy network on every Decimation-th tick and feeds it the last    *)
(* action and a sliding window of past joint positions.  One joint stands  *)
(* for the 21, and the position history for the two histories (position    *)
(* and velocity), which are shifted, read and reset together.  The IMU and *)
(* joystick inputs are read afresh on each tick and carry no memory; they  *)
(* are left out.  The network itself is external: any output is possible.  *)
(***************************************************************************)
EXTENDS Integers, Sequences

CONSTANTS
  Decimation,    (* rl_params.yaml: decimation                           *)
  HistoryLen,    (* history_len                                          *)
  Window,        (* the tail of the history the network sees (5)         *)
  ActionScale,   (* action_scale                                         *)
  DefaultPose,   (* default_dof_pos                                      *)
  DofPosScale    (* dof_pos_scale                                        *)

ASSUME RlAssumption ==
  /\ Decimation \in Nat \ {0}
  /\ HistoryLen \in Nat \ {0}
  /\ Window \in 1 .. HistoryLen
  /\ ActionScale \in Int
  /\ DefaultPose \in Int
  /\ DofPosScale \in Int

NoHistory == [i \in 1 .. HistoryLen |-> 0]

(* The slice of the history that is copied to the network's input.         *)
HistoryTail(h) == [i \in 1 .. Window |-> h[HistoryLen - Window + i]]

(* head(n - dofs) = tail(n - dofs); tail(dofs) = x                         *)
Shift(h, x) == [i \in 1 .. HistoryLen |-> IF i < HistoryLen THEN h[i + 1] ELSE x]

RlCtor ==
  [step_num |-> 0, last_actions |-> 0, outputdata |-> 0,
   pos_hist_buf |-> NoHistory, q_origin |-> 0,
   inputdata |-> [pos |-> 0, last |-> 0, hist |-> HistoryTail(NoHistory)]]

RlGetDataFromPackage(r, d) == [r EXCEPT !.q_origin = d.motor_pos]

(* A fault the runs must notice: the decimation counter sticks at its end. *)
RlNextStepStuck(r) ==
  IF r.step_num + 1 < Decimation THEN r.step_num + 1 ELSE r.step_num

(* step_num is only ever tested modulo Decimation and is kept that way.    *)
RlNextStep(r) == (r.step_num + 1) % Decimation

(* Step on a tick that returns early.                                      *)
RlSkip(r) == [r EXCEPT !.step_num = RlNextStep(r)]

(* Step on a tick that runs the network, which answers out.                *)
RlInfer(r, out) ==
  [r EXCEPT !.step_num     = RlNextStep(r),
            !.inputdata    = [pos  |-> (r.q_origin - DefaultPose) * DofPosScale,
                              last |-> r.last_actions,
                              hist |-> HistoryTail(r.pos_hist_buf)],
            !.outputdata   = out,
            !.last_actions = out,
            !.pos_hist_buf = Shift(@, r.q_origin * DofPosScale)]

RlTarget(out) == out * ActionScale + DefaultPose

(* What SetDataToPackage writes; unit converts to the command's unit.      *)
RlSetDataToPackage(r, d, unit) ==
  [d EXCEPT !.motor_Pos_desire = RlTarget(r.outputdata) * unit,
            !.motor_Vel_desire = 0,
            !.sim_PD           = "rl"]

(* A fault the runs must notice: the decimation phase survives the exit.   *)
RlExitKeepsPhase(r) ==
  [r EXCEPT !.last_actions = 0, !.outputdata = 0, !.pos_hist_buf = NoHistory]

RlExit(r) ==
  [r EXCEPT !.step_num = 0, !.last_actions = 0, !.outputdata = 0,
            !.pos_hist_buf = NoHistory]
=============================================================================
