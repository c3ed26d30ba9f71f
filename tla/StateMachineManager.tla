------------------------ MODULE StateMachineManager ------------------------
(***************************************************************************)
(* The control loop of the robot: the manager that switches between the    *)
(* registered states, the GenericState adapters, the three actions and     *)
(* the DataPackage they share.  Everything runs on one thread, 500 times a *)
(* second; the order of the calls is that of main() in the delivered       *)
(* object prebuilt/objects/realrobot_mini.o.                               *)
(***************************************************************************)
EXTENDS ZeroState, RlDeploy

CONSTANTS
  Poses,      (* joint positions the motors may report                    *)
  Outputs,    (* actions the policy network may answer                    *)
  Requests    (* states the joystick may ask for                          *)

State == {"IDLE", "ZERO", "RL_walk", "SIMPLE_EXAMPLE"}

(* The states of PHYBOT_FOR_EACH_STATE.  A fault the runs must notice: one *)
(* of them is missing from the list.                                       *)
RegisteredTwo == {"ZERO", "RL_walk"}

Registered == {"ZERO", "RL_walk", "SIMPLE_EXAMPLE"}

ASSUME ManagerAssumption ==
  Poses \subseteq Int /\ Outputs \subseteq Int /\ Requests \subseteq State

VARIABLES
  pc,             (* which call of the control loop comes next            *)
  data,           (* the DataPackage                                      *)
  CurrentState,   (* StateMachineManager::CurrentState                    *)
  NextState,      (* StateMachineManager::NextState                       *)
  handlers,       (* what the map holds for each state; see Entry         *)
  zero,           (* the ZeroState object                                 *)
  rl,             (* the rl_deploy_cpg object                             *)
  simple,         (* SimpleStateExample::current_state_                   *)
  motors          (* the command the motors were last sent                *)

vars == <<pc, data, CurrentState, NextState, handlers, zero, rl, simple, motors>>

(* A map entry is missing, holds a null pointer (operator[] on a missing   *)
(* key inserts one), or holds a handler without or with an action object.  *)
Entry == {"absent", "null", "created", "started"}

CommandOf(d) ==
  [pos |-> d.motor_Pos_desire, vel |-> d.motor_Vel_desire, PD |-> d.sim_PD]

NewPackage ==
  [CurrentState |-> "ZERO", NextState |-> "ZERO", If_first_Zero |-> TRUE,
   motor_pos |-> 0, motor_Pos_desire |-> 0, motor_Vel_desire |-> 0,
   sim_PD |-> "none", generalized_q_desired |-> 0]

Init ==
  /\ pc = "init"
  /\ data = NewPackage
  /\ CurrentState = "ZERO"
  /\ NextState = "ZERO"
  /\ handlers = [s \in State |-> IF s \in Registered THEN "created" ELSE "absent"]
  /\ zero = ZeroCtor
  /\ rl = RlCtor
  /\ simple = "IDLE"
  /\ motors = CommandOf(NewPackage)

(***************************************************************************)
(* Start-up: init() sends START to every registered state, whose adapter   *)
(* makes the action object if there is none yet.                           *)
(***************************************************************************)
init ==
  /\ pc = "init"
  /\ pc' = "joystick"
  /\ handlers' = [s \in State |-> IF s \in Registered THEN "started" ELSE handlers[s]]
  /\ UNCHANGED <<data, CurrentState, NextState, zero, rl, simple, motors>>

(***************************************************************************)
(* The parts of a tick around the manager.  The operator may ask for any   *)
(* state of Requests on any tick, and the joints may be found anywhere.    *)
(***************************************************************************)
JoystickSetDataToPackage ==
  /\ pc = "joystick"
  /\ pc' = "sense"
  /\ \E s \in Requests : data' = [data EXCEPT !.NextState = s]
  /\ UNCHANGED <<CurrentState, NextState, handlers, zero, rl, simple, motors>>

GetStatesToPackage ==
  /\ pc = "sense"
  /\ pc' = "get"
  /\ \E p \in Poses : data' = [data EXCEPT !.motor_pos = p]
  /\ UNCHANGED <<CurrentState, NextState, handlers, zero, rl, simple, motors>>

SetCommandsFromPackage ==
  /\ pc = "send"
  /\ pc' = "joystick"
  /\ motors' = CommandOf(data)
  /\ UNCHANGED <<data, CurrentState, NextState, handlers, zero, rl, simple>>

(***************************************************************************)
(* The manager.                                                            *)
(***************************************************************************)
GetDataFromPackage ==
  /\ pc = "get"
  /\ pc' = "run"
  /\ NextState' = data.NextState
  /\ UNCHANGED <<data, CurrentState, handlers, zero, rl, simple, motors>>

SetDataToPackage ==
  /\ pc = "set"
  /\ pc' = "send"
  /\ data' = [data EXCEPT !.CurrentState = CurrentState]
  /\ UNCHANGED <<CurrentState, NextState, handlers, zero, rl, simple, motors>>

(* A fault the runs must notice: the null test is dropped.                 *)
CanLeaveAlways == TRUE

(* currentHandler && currentHandler->CanExit(...): every CanExit is true.  *)
CanLeave == handlers[CurrentState] \notin {"absent", "null"}

(* The state run() dispatches RUN to, after the transition if any.         *)
Target == IF CanLeave THEN NextState ELSE CurrentState

Exits(s) == CurrentState = s /\ Target # s

(* A fault the runs must notice: the homing state's EXIT does not re-arm.  *)
DataAfterExitIdle == data

(* The EXIT event, handled before the target's RUN of the same tick.       *)
DataAfterExit == IF Exits("ZERO") THEN [data EXCEPT !.If_first_Zero = TRUE] ELSE data
RlAfterExit   == IF Exits("RL_walk") THEN RlExit(rl) ELSE rl

(* A fault the runs must notice: the lookup behaves like find().           *)
HandlersAfterFind == handlers

(* handlers[CurrentState] on the first line of run().                      *)
HandlersAfterLookup ==
  [handlers EXCEPT ![CurrentState] = IF @ = "absent" THEN "null" ELSE @]

(* run() reaches handleEvent(s, RUN) and finds the entry e in the map.     *)
Dispatch(s, e) ==
  /\ pc = "run"
  /\ s = Target
  /\ HandlersAfterLookup[s] = e
  /\ CurrentState' = s
  /\ handlers' = HandlersAfterLookup
  /\ UNCHANGED <<NextState, motors>>

RunZero ==
  /\ Dispatch("ZERO", "started")
  /\ pc' = "set"
  /\ zero' = ZeroAdvance(ZeroGetDataFromPackage(zero, DataAfterExit))
  /\ data' = ZeroSetDataToPackage(zero', DataAfterExit)
  /\ rl' = RlAfterExit
  /\ UNCHANGED simple

RunRlWalk ==
  LET r == RlGetDataFromPackage(rl, data)
  IN /\ Dispatch("RL_walk", "started")
     /\ pc' = "set"
     /\ \/ /\ RlNextStep(r) # 0
           /\ rl' = RlSkip(r)
        \/ /\ RlNextStep(r) = 0
           /\ \E out \in Outputs : rl' = RlInfer(r, out)
     /\ data' = RlSetDataToPackage(rl', DataAfterExit, Scale)
     /\ UNCHANGED <<zero, simple>>

(* The example copies the package's CurrentState, which is still the one   *)
(* published on the last tick, and writes no command.                      *)
RunSimpleExample ==
  /\ Dispatch("SIMPLE_EXAMPLE", "started")
  /\ pc' = "set"
  /\ simple' = data.CurrentState
  /\ data' = [DataAfterExit EXCEPT !.CurrentState = simple']
  /\ rl' = RlAfterExit
  /\ UNCHANGED zero

(* handleEvent finds no entry and prints "No handler for state".           *)
RunUnhandled ==
  /\ \E s \in State : Dispatch(s, "absent")
  /\ pc' = "set"
  /\ data' = DataAfterExit
  /\ rl' = RlAfterExit
  /\ UNCHANGED <<zero, simple>>

(* handleEvent finds the null pointer and calls run() through it.          *)
RunNull ==
  /\ \E s \in State : Dispatch(s, "null")
  /\ pc' = "crashed"
  /\ UNCHANGED <<data, zero, rl, simple>>

run == RunZero \/ RunRlWalk \/ RunSimpleExample \/ RunUnhandled \/ RunNull

Next ==
  \/ init
  \/ JoystickSetDataToPackage
  \/ GetStatesToPackage
  \/ GetDataFromPackage
  \/ run
  \/ SetDataToPackage
  \/ SetCommandsFromPackage

(* The loop is one real-time thread: it always takes its next call.        *)
Spec == Init /\ [][Next]_vars /\ WF_vars(Next)

-----------------------------------------------------------------------------
(***************************************************************************)
(* Properties.                                                             *)
(***************************************************************************)
Loop == {"joystick", "sense", "get", "run", "set", "send"}

Package ==
  [CurrentState : State, NextState : State, If_first_Zero : BOOLEAN,
   motor_pos : Int, motor_Pos_desire : Int, motor_Vel_desire : Int,
   sim_PD : {"none", "zero", "rl"}, generalized_q_desired : Int]

ZeroObject ==
  [If_first_Zero : BOOLEAN, t_Zero : 0 .. ClockTop, init_pose : Int, motor_pos : Int]

RlObject ==
  [step_num : 0 .. Decimation - 1, last_actions : Int, outputdata : Int,
   pos_hist_buf : [1 .. HistoryLen -> Int], q_origin : Int,
   inputdata : [pos : Int, last : Int, hist : [1 .. Window -> Int]]]

Command == [pos : Int, vel : Int, PD : {"none", "zero", "rl"}]

(* Every variable holds a value of its C++ type's range.                   *)
TypeOK ==
  /\ pc \in Loop \cup {"init", "crashed"}
  /\ data \in Package
  /\ CurrentState \in State
  /\ NextState \in State
  /\ handlers \in [State -> Entry]
  /\ zero \in ZeroObject
  /\ rl \in RlObject
  /\ simple \in State
  /\ motors \in Command

(* As long as only registered states are asked for, no RUN is ever         *)
(* dispatched through a null handler (statemachinemanager.cpp:26,46).      *)
NoNullDispatch == pc # "crashed"

(* The request read at the start of a tick governs that very tick, and the *)
(* package never shows another state than the manager's once published.    *)
RequestGovernsTick ==
  /\ pc \in {"set", "send"} => CurrentState = data.NextState
  /\ pc \in {"send", "joystick", "sense", "get", "run"} => data.CurrentState = CurrentState

(* The If_first_Zero handshake: outside the homing state the package asks  *)
(* for a fresh capture, so that homing never resumes an old trajectory.    *)
ZeroArmedOutside ==
  pc \in {"set", "send"} => (data.If_first_Zero <=> CurrentState # "ZERO")

(* Outside the walking state the policy's memory is blank: nothing an      *)
(* earlier visit saw or did reaches the first inference of the next one.   *)
WalkForgets ==
  CurrentState # "RL_walk" =>
    /\ rl.step_num = 0
    /\ rl.last_actions = 0
    /\ rl.outputdata = 0
    /\ rl.pos_hist_buf = NoHistory

(* While homing, the position command lies between the captured and the    *)
(* target position: the cubic never overshoots and never backs up past the *)
(* start, whenever the state was entered.                                  *)
HomingWithinBounds ==
  (pc \in {"set", "send"} /\ CurrentState = "ZERO") =>
    LET from == zero.init_pose * Scale
        to   == ZeroPose * Scale
    IN \/ from <= data.motor_Pos_desire /\ data.motor_Pos_desire <= to
       \/ to <= data.motor_Pos_desire /\ data.motor_Pos_desire <= from

(* Within one visit homing never moves the command away from the target,   *)
(* and it never re-captures the start.                                     *)
Distance(d) ==
  LET x == d.motor_Pos_desire - ZeroPose * Scale IN IF x < 0 THEN -x ELSE x

HomingApproaches ==
  [][(pc = "run" /\ CurrentState = "ZERO" /\ CurrentState' = "ZERO" /\ zero.t_Zero > 0)
       => Distance(data') <= Distance(data) /\ UNCHANGED zero.init_pose]_vars

(* The motors are never sent a mixture: position, velocity and gains come  *)
(* from the state that runs, and the example state, which commands         *)
(* nothing, leaves the motors with the command of the state before it.     *)
ExampleHoldsCommand ==
  [][(pc = "send" /\ CurrentState = "SIMPLE_EXAMPLE") => motors' = motors]_vars

GainsMatchState ==
  pc \in {"set", "send"} =>
    /\ CurrentState = "ZERO" => data.sim_PD = "zero" /\ data.generalized_q_desired = data.motor_Pos_desire
    /\ CurrentState = "RL_walk" => data.sim_PD = "rl" /\ data.motor_Vel_desire = 0

(* If the operator settles on ZERO, the motors settle on the zero pose at  *)
(* rest with the homing gains, wherever the joints were.                   *)
HomingSettles ==
  <>[](data.NextState = "ZERO") =>
    <>[](motors = [pos |-> ZeroPose * Scale, vel |-> 0, PD |-> "zero"])

(* If the operator stays with walking, the network keeps being consulted:  *)
(* the decimation counter comes round again and again.                     *)
WalkingInfers ==
  <>[](data.NextState = "RL_walk") => []<>(CurrentState = "RL_walk" /\ rl.step_num = 0)

(* A state without a handler is fatal: however the manager came into it,   *)
(* operator[] plants a null entry for it and the next RUN goes through it. *)
UnhandledIsFatal == (CurrentState \notin Registered) ~> (pc = "crashed")

(* There is no way back from such a state, whatever is asked for next, and *)
(* until the crash the motors keep the last command of the state before.   *)
UnhandledIsFinal ==
  [][CurrentState \notin Registered => UNCHANGED <<CurrentState, motors>>]_vars

(***************************************************************************)
(* The inductive invariant behind the safety properties and the            *)
(* refinement below, when only registered states are asked for.            *)
(***************************************************************************)
OnlyRegistered ==
  /\ CurrentState \in Registered
  /\ NextState \in Registered
  /\ data.NextState \in Registered
  /\ \A s \in Registered :
       handlers[s] = IF pc = "init" THEN "created" ELSE "started"

RequestTravels ==
  /\ pc \in {"run", "set", "send"} => NextState = data.NextState
  /\ pc \in {"set", "send"} => CurrentState = data.NextState
  /\ pc # "set" => data.CurrentState = CurrentState

HomingArmed ==
  /\ CurrentState # "ZERO" => data.If_first_Zero
  /\ CurrentState = "ZERO" => (data.If_first_Zero <=> zero.t_Zero = 0)
  /\ pc \in {"set", "send"} /\ CurrentState = "ZERO" => zero.t_Zero # 0

WalkActs == rl.outputdata = rl.last_actions

Inductive ==
  /\ TypeOK
  /\ NoNullDispatch
  /\ OnlyRegistered
  /\ RequestTravels
  /\ HomingArmed
  /\ WalkForgets
  /\ WalkActs
  /\ GainsMatchState

(***************************************************************************)
(* The control loop implements ModeController.                             *)
(***************************************************************************)
Clock ==
  CASE CurrentState = "ZERO" -> zero.t_Zero
    [] CurrentState = "RL_walk" -> rl.step_num
    [] OTHER -> 0

Anchor == IF CurrentState = "ZERO" THEN zero.init_pose ELSE 0

Memory == [last |-> rl.last_actions, hist |-> rl.pos_hist_buf]

Controller == INSTANCE ModeController WITH
  Modes    <- Requests,
  want     <- data.NextState,
  measured <- data.motor_pos,
  mode     <- CurrentState,
  clock    <- Clock,
  anchor   <- Anchor,
  memory   <- Memory,
  seen     <- rl.inputdata,
  command  <- CommandOf(data)

ImplementsController == Controller!Spec
=============================================================================
