------------------------- MODULE StateMachineProofs -------------------------
(***************************************************************************)
(* Proofs about the control loop, for every value of the constants; at the *)
(* end, about the programs that try out the motors it drives (SelfTest).   *)
(***************************************************************************)
EXTENDS StateMachineManager, SelfTest, TLAPS

(***************************************************************************)
(* The operators the actions are built from keep the objects well typed.   *)
(***************************************************************************)

(* The cubic's positions and velocities are integers in the chosen unit.   *)
LEMMA ThirdpolyType ==
  ASSUME NEW p0 \in Int, NEW v0 \in Int, NEW p1 \in Int, NEW v1 \in Int, NEW c \in Int
  PROVE  /\ ThirdpolyVector(p0, v0, p1, v1, c).pd \in Int
         /\ ThirdpolyVector(p0, v0, p1, v1, c).pd_dot \in Int
<1> DEFINE T  == ZeroTicks
           m  == p1 - p0 - v0 * T
           n  == v1 - v0
           a2 == T * (3 * m - n * T)
           a3 == n * T - 2 * m
<1>1. T \in Int /\ Scale \in Int
  BY ZeroAssumption DEF Scale
<1>2. m \in Int /\ n \in Int
  BY <1>1
<1>3. a2 \in Int /\ a3 \in Int
  <2> HIDE DEF m, n
  <2> QED BY <1>1, <1>2
<1>4. /\ a3 * c * c * c + a2 * c * c + v0 * c * Scale + p0 * Scale \in Int
      /\ 3 * a3 * c * c + 2 * a2 * c + v0 * Scale \in Int
      /\ p0 * Scale \in Int
      /\ p1 * Scale \in Int
  <2> HIDE DEF a2, a3
  <2> QED BY <1>1, <1>3
<1> HIDE DEF m, n, a2, a3
<1>5. ThirdpolyVector(p0, v0, p1, v1, c) =
        IF c < 0 THEN [pd |-> p0 * Scale, pd_dot |-> 0]
        ELSE IF c <= T
          THEN [pd     |-> a3 * c * c * c + a2 * c * c + v0 * c * Scale + p0 * Scale,
                pd_dot |-> 3 * a3 * c * c + 2 * a2 * c + v0 * Scale]
        ELSE [pd |-> p1 * Scale, pd_dot |-> 0]
  BY DEF ThirdpolyVector, m, n, a2, a3
<1> HIDE DEF T
<1> QED BY <1>4, <1>5

(* One tick of the homing object.                                          *)
LEMMA ZeroAdvanceType ==
  ASSUME NEW z \in ZeroObject
  PROVE  /\ ZeroAdvance(z) \in ZeroObject
         /\ ZeroAdvance(z).t_Zero \in 1 .. ClockTop
         /\ ZeroAdvance(z).If_first_Zero = FALSE
<1> DEFINE t    == IF z.If_first_Zero THEN 0 ELSE z.t_Zero
           tick == IF t < ClockTop THEN t + 1 ELSE t
           from == IF z.If_first_Zero THEN z.motor_pos ELSE z.init_pose
<1>1. /\ z = [If_first_Zero |-> z.If_first_Zero, t_Zero |-> z.t_Zero,
              init_pose |-> z.init_pose, motor_pos |-> z.motor_pos]
      /\ z.t_Zero \in 0 .. ClockTop /\ z.init_pose \in Int /\ z.motor_pos \in Int
  BY DEF ZeroObject
<1>2. tick \in 1 .. ClockTop
  BY <1>1, ZeroAssumption DEF ClockTop
<1>3. from \in Int
  BY <1>1
<1> HIDE DEF tick, from
<1>4. ZeroAdvance(z) = [If_first_Zero |-> FALSE, t_Zero |-> tick,
                        init_pose |-> from, motor_pos |-> z.motor_pos]
  <2>1. ZeroAdvance(z) = [z EXCEPT !.If_first_Zero = FALSE, !.t_Zero = tick,
                                   !.init_pose = from]
    BY DEF ZeroAdvance, tick, from
  <2> QED BY <1>1, <2>1
<1>5. tick \in 0 .. ClockTop
  BY <1>2, ZeroAssumption DEF ClockTop
<1> QED BY <1>1, <1>2, <1>3, <1>4, <1>5 DEF ZeroObject

LEMMA ZeroWrites ==
  ASSUME NEW z \in ZeroObject, NEW d \in Package
  PROVE  ZeroSetDataToPackage(z, d) \in Package
<1>1. z.init_pose \in Int /\ z.t_Zero \in Int /\ ZeroPose \in Int /\ 0 \in Int
  BY ZeroAssumption DEF ZeroObject, ClockTop
<1>2. /\ ThirdpolyVector(z.init_pose, 0, ZeroPose, 0, z.t_Zero).pd \in Int
      /\ ThirdpolyVector(z.init_pose, 0, ZeroPose, 0, z.t_Zero).pd_dot \in Int
  BY <1>1, ThirdpolyType, Zenon
<1> QED BY <1>2 DEF ZeroSetDataToPackage, ZeroObject, Package

(* A tick of the walking object, skipped or inferring, and its reset.      *)
LEMMA RlObjectSteps ==
  ASSUME NEW r \in RlObject
  PROVE  /\ RlSkip(r) \in RlObject
         /\ \A out \in Int : RlInfer(r, out) \in RlObject
         /\ RlExit(r) \in RlObject
         /\ \A d \in Package : RlGetDataFromPackage(r, d) \in RlObject
<1>1. RlNextStep(r) \in 0 .. Decimation - 1
  BY RlAssumption DEF RlNextStep, RlObject
<1>2. ASSUME NEW h \in [1 .. HistoryLen -> Int], NEW x \in Int
      PROVE  Shift(h, x) \in [1 .. HistoryLen -> Int] /\ HistoryTail(h) \in [1 .. Window -> Int]
  BY RlAssumption DEF Shift, HistoryTail
<1>3. RlSkip(r) \in RlObject
  BY <1>1 DEF RlSkip, RlObject
<1>4. ASSUME NEW out \in Int
      PROVE  RlInfer(r, out) \in RlObject
  <2>1. /\ (r.q_origin - DefaultPose) * DofPosScale \in Int
        /\ r.q_origin * DofPosScale \in Int
    <3>1. r.q_origin \in Int
      BY DEF RlObject
    <3>2. DefaultPose \in Int /\ DofPosScale \in Int
      BY RlAssumption
    <3> QED BY <3>1, <3>2
  <2>2. r.pos_hist_buf \in [1 .. HistoryLen -> Int]
    BY DEF RlObject
  <2>3. /\ Shift(r.pos_hist_buf, r.q_origin * DofPosScale) \in [1 .. HistoryLen -> Int]
        /\ HistoryTail(r.pos_hist_buf) \in [1 .. Window -> Int]
    BY <1>2, <2>1, <2>2
  <2> QED BY <1>1, <2>1, <2>3 DEF RlInfer, RlObject
<1>5. RlExit(r) \in RlObject
  <2>1. NoHistory \in [1 .. HistoryLen -> Int] /\ 0 \in 0 .. Decimation - 1 /\ 0 \in Int
    BY RlAssumption DEF NoHistory
  <2>2. \A n \in 0 .. Decimation - 1, a, o \in Int, h \in [1 .. HistoryLen -> Int] :
          [r EXCEPT !.step_num = n, !.last_actions = a, !.outputdata = o,
                    !.pos_hist_buf = h] \in RlObject
    BY DEF RlObject
  <2> QED BY <2>1, <2>2, Zenon DEF RlExit
<1>6. \A d \in Package : RlGetDataFromPackage(r, d) \in RlObject
  BY DEF RlGetDataFromPackage, RlObject, Package
<1> QED BY <1>3, <1>4, <1>5, <1>6

LEMMA RlWrites ==
  ASSUME NEW r \in RlObject, NEW d \in Package
  PROVE  RlSetDataToPackage(r, d, Scale) \in Package
<1>1. Scale \in Int /\ RlTarget(r.outputdata) \in Int
  BY ZeroAssumption, RlAssumption DEF Scale, RlTarget, RlObject
<1> DEFINE pos == RlTarget(r.outputdata) * Scale
<1>2. pos \in Int
  BY <1>1
<1>3. RlSetDataToPackage(r, d, Scale) =
        [d EXCEPT !.motor_Pos_desire = pos, !.motor_Vel_desire = 0, !.sim_PD = "rl"]
  BY DEF RlSetDataToPackage
<1> HIDE DEF pos
<1>4. \A p, v \in Int :
        [d EXCEPT !.motor_Pos_desire = p, !.motor_Vel_desire = v, !.sim_PD = "rl"] \in Package
  BY DEF Package
<1>5. 0 \in Int
  OBVIOUS
<1> QED BY <1>2, <1>3, <1>4, <1>5, ZenonT(30)

LEMMA ExitTypes ==
  ASSUME TypeOK
  PROVE  /\ DataAfterExit \in Package
         /\ RlAfterExit \in RlObject
         /\ HandlersAfterLookup \in [State -> Entry]
<1>1. DataAfterExit \in Package
  BY DEF TypeOK, DataAfterExit, Package
<1>2. RlAfterExit \in RlObject
  BY RlObjectSteps DEF TypeOK, RlAfterExit
<1>3. HandlersAfterLookup \in [State -> Entry]
  BY DEF TypeOK, HandlersAfterLookup, Entry
<1> QED BY <1>1, <1>2, <1>3

(***************************************************************************)
(* Type correctness.                                                       *)
(***************************************************************************)
LEMMA InitTyped == Init => TypeOK
<1> SUFFICES ASSUME Init PROVE TypeOK
  OBVIOUS
<1>1. data \in Package /\ motors \in Command
  BY DEF Init, NewPackage, Package, CommandOf, Command, State
<1>2. zero \in ZeroObject
  BY ZeroAssumption DEF Init, ZeroCtor, ZeroObject, ClockTop
<1>3. rl \in RlObject
  <2>1. NoHistory \in [1 .. HistoryLen -> Int]
    BY DEF NoHistory
  <2>2. HistoryTail(NoHistory) \in [1 .. Window -> Int]
    BY RlAssumption DEF NoHistory, HistoryTail
  <2>3. 0 \in 0 .. Decimation - 1
    BY RlAssumption
  <2> QED BY <2>1, <2>2, <2>3 DEF Init, RlCtor, RlObject
<1>4. handlers \in [State -> Entry]
  BY DEF Init, Entry
<1> QED BY <1>1, <1>2, <1>3, <1>4 DEF Init, TypeOK, State, Loop

LEMMA StepTyped == TypeOK /\ [Next]_vars => TypeOK'
<1> SUFFICES ASSUME TypeOK, [Next]_vars PROVE TypeOK'
  OBVIOUS
<1> USE DEF Loop
<1>1. CASE init
  BY <1>1 DEF TypeOK, init, Entry
<1>2. CASE JoystickSetDataToPackage
  <2>1. data' \in Package
    BY <1>2, ManagerAssumption DEF TypeOK, JoystickSetDataToPackage, Package
  <2> QED BY <1>2, <2>1 DEF TypeOK, JoystickSetDataToPackage
<1>3. CASE GetStatesToPackage
  <2>1. data' \in Package
    BY <1>3, ManagerAssumption DEF TypeOK, GetStatesToPackage, Package
  <2> QED BY <1>3, <2>1 DEF TypeOK, GetStatesToPackage
<1>4. CASE GetDataFromPackage
  BY <1>4 DEF TypeOK, GetDataFromPackage, Package
<1>5. CASE run
  <2>1. /\ DataAfterExit \in Package
        /\ RlAfterExit \in RlObject
        /\ HandlersAfterLookup \in [State -> Entry]
    BY ExitTypes
  <2>2. CASE RunZero
    <3> DEFINE z == ZeroGetDataFromPackage(zero, DataAfterExit)
    <3>1. z \in ZeroObject
      BY <2>1 DEF TypeOK, ZeroGetDataFromPackage, ZeroObject, Package
    <3>2. zero' \in ZeroObject
      BY <2>2, <3>1, ZeroAdvanceType DEF RunZero
    <3>3. data' \in Package
      BY <2>1, <2>2, <3>2, ZeroWrites DEF RunZero
    <3> QED BY <2>1, <2>2, <3>2, <3>3 DEF TypeOK, RunZero, Dispatch, State
  <2>3. CASE RunRlWalk
    <3> DEFINE r == RlGetDataFromPackage(rl, data)
    <3>1. r \in RlObject
      BY RlObjectSteps DEF TypeOK
    <3>2. rl' \in RlObject
      BY <2>3, <3>1, RlObjectSteps, ManagerAssumption DEF RunRlWalk
    <3>3. data' \in Package
      BY <2>1, <2>3, <3>2, RlWrites DEF RunRlWalk
    <3> QED BY <2>1, <2>3, <3>2, <3>3 DEF TypeOK, RunRlWalk, Dispatch, State
  <2>4. CASE RunSimpleExample
    <3>1. simple' \in State
      BY <2>4 DEF TypeOK, RunSimpleExample, Package
    <3>2. data' \in Package
      BY <2>1, <2>4, <3>1 DEF RunSimpleExample, Package
    <3> QED BY <2>1, <2>4, <3>1, <3>2 DEF TypeOK, RunSimpleExample, Dispatch, State
  <2>5. CASE RunUnhandled
    BY <2>1, <2>5 DEF TypeOK, RunUnhandled, Dispatch
  <2>6. CASE RunNull
    BY <2>1, <2>6 DEF TypeOK, RunNull, Dispatch
  <2> QED BY <1>5, <2>2, <2>3, <2>4, <2>5, <2>6 DEF run
<1>6. CASE SetDataToPackage
  <2>1. data' \in Package
    BY <1>6 DEF TypeOK, SetDataToPackage, Package
  <2> QED BY <1>6, <2>1 DEF TypeOK, SetDataToPackage
<1>7. CASE SetCommandsFromPackage
  <2>1. motors' \in Command
    BY <1>7 DEF TypeOK, SetCommandsFromPackage, CommandOf, Command, Package
  <2> QED BY <1>7, <2>1 DEF TypeOK, SetCommandsFromPackage
<1>8. CASE UNCHANGED vars
  BY <1>8 DEF TypeOK, vars
<1> QED BY <1>1, <1>2, <1>3, <1>4, <1>5, <1>6, <1>7, <1>8 DEF Next

(* Every variable keeps the range of its C++ type.                         *)
THEOREM TypeCorrect == Spec => []TypeOK
BY InitTyped, StepTyped, PTL DEF Spec


(***************************************************************************)
(* The safety properties.  What only the manager's own code can guarantee  *)
(* holds when the joystick asks for registered states only.                *)
(***************************************************************************)

(* The five ways run() can end leave the package's request, the joints and *)
(* the manager's copies as the invariant needs them.                       *)
LEMMA DispatchFacts ==
  ASSUME Inductive, NEW s \in State, NEW e \in Entry, Dispatch(s, e)
  PROVE  /\ Target = NextState /\ s = NextState /\ NextState = data.NextState
         /\ e = "started"
         /\ HandlersAfterLookup = handlers
         /\ CurrentState' = NextState
         /\ NextState' = NextState
         /\ handlers' = handlers
<1>1. CurrentState \in State /\ handlers[CurrentState] = "started"
  BY DEF Inductive, OnlyRegistered, Dispatch, Registered, State
<1>2. Target = NextState
  BY <1>1 DEF Target, CanLeave
<1>3. HandlersAfterLookup = handlers
  BY <1>1 DEF HandlersAfterLookup, Inductive, TypeOK
<1>4. handlers[NextState] = "started"
  BY DEF Inductive, OnlyRegistered, Dispatch
<1>5. NextState = data.NextState
  BY DEF Inductive, RequestTravels, Dispatch
<1> QED BY <1>2, <1>3, <1>4, <1>5 DEF Dispatch

(* Hence run() always ends in one of the three actions.                    *)
LEMMA RunIsAnAction ==
  ASSUME Inductive, run
  PROVE  RunZero \/ RunRlWalk \/ RunSimpleExample
<1>1. ~ RunUnhandled
  <2> SUFFICES ASSUME NEW s \in State, Dispatch(s, "absent") PROVE FALSE
    BY DEF RunUnhandled
  <2> QED BY DispatchFacts DEF Entry
<1>2. ~ RunNull
  <2> SUFFICES ASSUME NEW s \in State, Dispatch(s, "null") PROVE FALSE
    BY DEF RunNull
  <2> QED BY DispatchFacts DEF Entry
<1> QED BY <1>1, <1>2 DEF run

(* What the switch leaves behind: homing re-armed, the walk forgotten.     *)
LEMMA AfterExit ==
  ASSUME Inductive, Target = NextState
  PROVE  /\ DataAfterExit = IF CurrentState = "ZERO" /\ NextState # "ZERO"
                              THEN [data EXCEPT !.If_first_Zero = TRUE] ELSE data
         /\ NextState # "RL_walk" =>
               /\ RlAfterExit.step_num = 0
               /\ RlAfterExit.last_actions = 0
               /\ RlAfterExit.outputdata = 0
               /\ RlAfterExit.pos_hist_buf = NoHistory
               /\ RlAfterExit.inputdata = rl.inputdata
<1>1. DataAfterExit = IF CurrentState = "ZERO" /\ NextState # "ZERO"
                       THEN [data EXCEPT !.If_first_Zero = TRUE] ELSE data
  BY DEF DataAfterExit, Exits
<1>2. ASSUME NextState # "RL_walk"
      PROVE  /\ RlAfterExit.step_num = 0
             /\ RlAfterExit.last_actions = 0
             /\ RlAfterExit.outputdata = 0
             /\ RlAfterExit.pos_hist_buf = NoHistory
             /\ RlAfterExit.inputdata = rl.inputdata
  <2>1. CASE CurrentState = "RL_walk"
    <3>1. RlAfterExit = RlExit(rl)
      BY <1>2, <2>1 DEF RlAfterExit, Exits
    <3>2. rl \in RlObject
      BY DEF Inductive, TypeOK
    <3> QED BY <3>1, <3>2 DEF RlExit, RlObject
  <2>2. CASE CurrentState # "RL_walk"
    BY <2>2 DEF RlAfterExit, Exits, Inductive, WalkForgets
  <2> QED BY <2>1, <2>2
<1> QED BY <1>1, <1>2

(* One tick of each action from a state of the invariant.                  *)
LEMMA HomingTick ==
  ASSUME Inductive, TypeOK', RunZero
  PROVE  Inductive'
<1>1. Dispatch("ZERO", "started") /\ pc = "run" /\ pc' = "set"
  BY DEF RunZero, Dispatch
<1>2. /\ NextState = "ZERO" /\ data.NextState = "ZERO" /\ Target = NextState
      /\ CurrentState' = "ZERO" /\ NextState' = "ZERO" /\ handlers' = handlers
  BY <1>1, DispatchFacts DEF State, Entry
<1> DEFINE z == ZeroGetDataFromPackage(zero, DataAfterExit)
<1>3. DataAfterExit \in Package /\ z \in ZeroObject
  BY ExitTypes DEF Inductive, TypeOK, ZeroGetDataFromPackage, ZeroObject, Package
<1>4. /\ DataAfterExit.NextState = "ZERO"
      /\ rl' = RlAfterExit
      /\ zero' = ZeroAdvance(z)
      /\ data' = ZeroSetDataToPackage(zero', DataAfterExit)
  BY <1>2, AfterExit DEF RunZero, Inductive, TypeOK, Package
<1>5. /\ zero'.t_Zero # 0
      /\ zero'.If_first_Zero = FALSE
  <2> HIDE DEF z
  <2>1. zero'.t_Zero \in 1 .. ClockTop /\ zero'.If_first_Zero = FALSE
    BY <1>3, <1>4, ZeroAdvanceType, Zenon
  <2> QED BY <2>1, ZeroAssumption DEF ClockTop
<1>6. /\ data'.If_first_Zero = FALSE
      /\ data'.NextState = "ZERO"
      /\ data'.sim_PD = "zero"
      /\ data'.generalized_q_desired = data'.motor_Pos_desire
  BY <1>3, <1>4, <1>5 DEF ZeroSetDataToPackage, Package
<1>7. NoNullDispatch'
  BY <1>1 DEF NoNullDispatch
<1>8. OnlyRegistered'
  BY <1>1, <1>2, <1>6 DEF OnlyRegistered, Inductive, Registered
<1>9. RequestTravels'
  BY <1>1, <1>2, <1>6 DEF RequestTravels
<1>10. HomingArmed'
  BY <1>1, <1>2, <1>5, <1>6 DEF HomingArmed
<1>11. WalkForgets'
  BY <1>2, <1>4, AfterExit DEF WalkForgets
<1>12. GainsMatchState'
  BY <1>1, <1>2, <1>6 DEF GainsMatchState
<1>13. WalkActs'
  BY <1>2, <1>4, AfterExit DEF WalkActs
<1> QED BY <1>7, <1>8, <1>9, <1>10, <1>11, <1>12, <1>13 DEF Inductive

LEMMA WalkingTick ==
  ASSUME Inductive, TypeOK', RunRlWalk
  PROVE  Inductive'
<1>1. Dispatch("RL_walk", "started") /\ pc = "run" /\ pc' = "set"
  BY DEF RunRlWalk, Dispatch
<1>2. /\ NextState = "RL_walk" /\ data.NextState = "RL_walk" /\ Target = NextState
      /\ CurrentState' = "RL_walk" /\ NextState' = "RL_walk" /\ handlers' = handlers
  BY <1>1, DispatchFacts DEF State, Entry
<1>3. DataAfterExit \in Package /\ data \in Package
  BY ExitTypes DEF Inductive, TypeOK
<1>4. /\ DataAfterExit.NextState = "RL_walk"
      /\ DataAfterExit.If_first_Zero
  BY <1>2, <1>3, AfterExit DEF Inductive, HomingArmed, Package
<1>5. /\ data' = RlSetDataToPackage(rl', DataAfterExit, Scale)
      /\ zero' = zero
  BY DEF RunRlWalk
<1>6. /\ data'.If_first_Zero
      /\ data'.NextState = "RL_walk"
      /\ data'.sim_PD = "rl"
      /\ data'.motor_Vel_desire = 0
  BY <1>3, <1>4, <1>5 DEF RlSetDataToPackage, Package
<1>7. NoNullDispatch'
  BY <1>1 DEF NoNullDispatch
<1>8. OnlyRegistered'
  BY <1>1, <1>2, <1>6 DEF OnlyRegistered, Inductive, Registered
<1>9. RequestTravels'
  BY <1>1, <1>2, <1>6 DEF RequestTravels
<1>10. HomingArmed'
  BY <1>1, <1>2, <1>6 DEF HomingArmed
<1>11. WalkForgets'
  BY <1>2 DEF WalkForgets
<1>12. GainsMatchState'
  BY <1>1, <1>2, <1>6 DEF GainsMatchState
<1>13. WalkActs'
  <2> DEFINE r == RlGetDataFromPackage(rl, data)
  <2>1. r \in RlObject /\ r.outputdata = r.last_actions
    BY <1>3 DEF Inductive, TypeOK, WalkActs, RlGetDataFromPackage, RlObject, Package
  <2>2. rl' = RlSkip(r) \/ \E out \in Outputs : rl' = RlInfer(r, out)
    BY DEF RunRlWalk
  <2> HIDE DEF r
  <2>3. CASE rl' = RlSkip(r)
    BY <2>1, <2>3 DEF RlSkip, RlObject, WalkActs
  <2>4. CASE \E out \in Outputs : rl' = RlInfer(r, out)
    BY <2>1, <2>4 DEF RlInfer, RlObject, WalkActs
  <2> QED BY <2>2, <2>3, <2>4
<1> QED BY <1>7, <1>8, <1>9, <1>10, <1>11, <1>12, <1>13 DEF Inductive

LEMMA ExampleTick ==
  ASSUME Inductive, TypeOK', RunSimpleExample
  PROVE  Inductive'
<1>1. Dispatch("SIMPLE_EXAMPLE", "started") /\ pc = "run" /\ pc' = "set"
  BY DEF RunSimpleExample, Dispatch
<1>2. /\ NextState = "SIMPLE_EXAMPLE" /\ data.NextState = "SIMPLE_EXAMPLE" /\ Target = NextState
      /\ CurrentState' = "SIMPLE_EXAMPLE" /\ NextState' = "SIMPLE_EXAMPLE" /\ handlers' = handlers
  BY <1>1, DispatchFacts DEF State, Entry
<1>3. DataAfterExit \in Package /\ data \in Package
  BY ExitTypes DEF Inductive, TypeOK
<1>4. /\ DataAfterExit.NextState = "SIMPLE_EXAMPLE"
      /\ DataAfterExit.If_first_Zero
  BY <1>2, <1>3, AfterExit DEF Inductive, HomingArmed, Package
<1>5. /\ data' = [DataAfterExit EXCEPT !.CurrentState = simple']
      /\ rl' = RlAfterExit
      /\ zero' = zero
  BY DEF RunSimpleExample
<1>6. /\ data'.If_first_Zero
      /\ data'.NextState = "SIMPLE_EXAMPLE"
  BY <1>3, <1>4, <1>5 DEF Package
<1>7. NoNullDispatch'
  BY <1>1 DEF NoNullDispatch
<1>8. OnlyRegistered'
  BY <1>1, <1>2, <1>6 DEF OnlyRegistered, Inductive, Registered
<1>9. RequestTravels'
  BY <1>1, <1>2, <1>6 DEF RequestTravels
<1>10. HomingArmed'
  BY <1>1, <1>2, <1>6 DEF HomingArmed
<1>11. WalkForgets'
  BY <1>2, <1>5, AfterExit DEF WalkForgets
<1>12. GainsMatchState'
  BY <1>2 DEF GainsMatchState
<1>13. WalkActs'
  BY <1>2, <1>5, AfterExit DEF WalkActs
<1> QED BY <1>7, <1>8, <1>9, <1>10, <1>11, <1>12, <1>13 DEF Inductive

(* The invariant is inductive.                                             *)
THEOREM InductiveHolds ==
  ASSUME Requests \subseteq Registered
  PROVE  Spec => []Inductive
<1>1. Init => Inductive
  <2> SUFFICES ASSUME Init, TypeOK PROVE Inductive
    BY InitTyped
  <2> QED BY DEF Init, Inductive, NoNullDispatch, OnlyRegistered, RequestTravels,
                 HomingArmed, WalkForgets, WalkActs, GainsMatchState, NewPackage, ZeroCtor,
                 RlCtor, Registered, State
<1>2. Inductive /\ [Next]_vars => Inductive'
  <2> SUFFICES ASSUME Inductive, [Next]_vars PROVE Inductive'
    OBVIOUS
  <2>0. TypeOK' /\ data \in Package
    BY StepTyped DEF Inductive, TypeOK
  <2> USE <2>0 DEF Inductive
  <2>1. CASE init
    <3>1. /\ pc = "init" /\ pc' = "joystick"
          /\ \A s \in Registered : handlers'[s] = "started"
      BY <2>1 DEF init, Registered, State
    <3>2. UNCHANGED <<data, CurrentState, NextState, zero, rl>>
      BY <2>1 DEF init
    <3> QED BY <3>1, <3>2 DEF NoNullDispatch, OnlyRegistered, RequestTravels,
                              HomingArmed, WalkForgets, WalkActs, GainsMatchState
  <2>2. CASE JoystickSetDataToPackage
    <3>1. PICK s \in Requests : data' = [data EXCEPT !.NextState = s]
      BY <2>2 DEF JoystickSetDataToPackage
    <3>2. /\ data'.NextState \in Registered
          /\ data'.CurrentState = data.CurrentState
          /\ data'.If_first_Zero = data.If_first_Zero
      BY <3>1 DEF Package
    <3>3. /\ pc = "joystick" /\ pc' = "sense"
          /\ UNCHANGED <<CurrentState, NextState, handlers, zero, rl>>
      BY <2>2 DEF JoystickSetDataToPackage
    <3> QED BY <3>2, <3>3 DEF NoNullDispatch, OnlyRegistered, RequestTravels,
                              HomingArmed, WalkForgets, WalkActs, GainsMatchState
  <2>3. CASE GetStatesToPackage
    <3>1. PICK p \in Poses : data' = [data EXCEPT !.motor_pos = p]
      BY <2>3 DEF GetStatesToPackage
    <3>2. /\ data'.NextState = data.NextState
          /\ data'.CurrentState = data.CurrentState
          /\ data'.If_first_Zero = data.If_first_Zero
      BY <3>1 DEF Package
    <3>3. /\ pc = "sense" /\ pc' = "get"
          /\ UNCHANGED <<CurrentState, NextState, handlers, zero, rl>>
      BY <2>3 DEF GetStatesToPackage
    <3> QED BY <3>2, <3>3 DEF NoNullDispatch, OnlyRegistered, RequestTravels,
                              HomingArmed, WalkForgets, WalkActs, GainsMatchState
  <2>4. CASE GetDataFromPackage
    BY <2>4 DEF GetDataFromPackage, NoNullDispatch, OnlyRegistered, RequestTravels,
                HomingArmed, WalkForgets, WalkActs, GainsMatchState
  <2>5. CASE run
    BY <2>5, RunIsAnAction, HomingTick, WalkingTick, ExampleTick
  <2>6. CASE SetDataToPackage
    <3>1. /\ data' = [data EXCEPT !.CurrentState = CurrentState]
          /\ pc = "set" /\ pc' = "send"
          /\ UNCHANGED <<CurrentState, NextState, handlers, zero, rl>>
      BY <2>6 DEF SetDataToPackage
    <3>2. /\ data'.NextState = data.NextState
          /\ data'.CurrentState = CurrentState
          /\ data'.If_first_Zero = data.If_first_Zero
          /\ data'.sim_PD = data.sim_PD
          /\ data'.motor_Vel_desire = data.motor_Vel_desire
          /\ data'.motor_Pos_desire = data.motor_Pos_desire
          /\ data'.generalized_q_desired = data.generalized_q_desired
      BY <3>1 DEF Package
    <3> QED BY <3>1, <3>2 DEF NoNullDispatch, OnlyRegistered, RequestTravels,
                              HomingArmed, WalkForgets, WalkActs, GainsMatchState
  <2>7. CASE SetCommandsFromPackage
    BY <2>7 DEF SetCommandsFromPackage, NoNullDispatch, OnlyRegistered, RequestTravels,
                HomingArmed, WalkForgets, WalkActs, GainsMatchState
  <2>8. CASE UNCHANGED vars
    BY <2>8 DEF vars, NoNullDispatch, OnlyRegistered, RequestTravels,
                HomingArmed, WalkForgets, WalkActs, GainsMatchState
  <2> QED BY <2>1, <2>2, <2>3, <2>4, <2>5, <2>6, <2>7, <2>8 DEF Next
<1> QED BY <1>1, <1>2, PTL DEF Spec

(* The properties the runs check follow from it.                           *)
LEMMA SafetyFromInductive ==
  ASSUME Inductive
  PROVE  /\ NoNullDispatch
         /\ RequestGovernsTick
         /\ ZeroArmedOutside
         /\ WalkForgets
         /\ GainsMatchState
BY DEF Inductive, RequestTravels, RequestGovernsTick, HomingArmed, ZeroArmedOutside,
       TypeOK, Package

(* With requests for registered states only, no RUN goes through a null    *)
(* handler (statemachinemanager.cpp:26,46).                                *)
THEOREM NeverNull ==
  ASSUME Requests \subseteq Registered
  PROVE  Spec => []NoNullDispatch
BY SafetyFromInductive, InductiveHolds, PTL

(* The request read at the start of a tick governs that tick               *)
(* (statemachinemanager.cpp:3-48).                                         *)
THEOREM RequestsGovern ==
  ASSUME Requests \subseteq Registered
  PROVE  Spec => []RequestGovernsTick
BY SafetyFromInductive, InductiveHolds, PTL

(* Homing is armed whenever another state runs (GenericState.h:38-45,      *)
(* ZeroState.cpp:44-98).                                                   *)
THEOREM HomingRearmed ==
  ASSUME Requests \subseteq Registered
  PROVE  Spec => []ZeroArmedOutside
BY SafetyFromInductive, InductiveHolds, PTL

(* Nothing a visit of the walking state saw or did outlives it             *)
(* (rl_deploy.cpp:76-83).                                                  *)
THEOREM WalkingForgets ==
  ASSUME Requests \subseteq Registered
  PROVE  Spec => []WalkForgets
BY SafetyFromInductive, InductiveHolds, PTL

(* Position, velocity and gains come from the state that runs              *)
(* (ZeroState.cpp:61-98, rl_deploy.cpp:61-74).                             *)
THEOREM GainsMatch ==
  ASSUME Requests \subseteq Registered
  PROVE  Spec => []GainsMatchState
BY SafetyFromInductive, InductiveHolds, PTL

(***************************************************************************)
(* Homing never overshoots, whatever the duration and the two poses.       *)
(***************************************************************************)

(* The blend 3(c/T)^2 - 2(c/T)^3, in units of 1/T^3, stays within 0 .. T^3. *)
LEMMA BlendBounded ==
  ASSUME NEW T \in Nat, NEW c \in 0 .. T
  PROVE  /\ c * c * (3 * T - 2 * c) \in Int
         /\ 0 <= c * c * (3 * T - 2 * c)
         /\ c * c * (3 * T - 2 * c) <= T * T * T
<1> DEFINE r == T - c
<1>1. c \in Nat /\ r \in Nat /\ T = c + r
  OBVIOUS
<1> HIDE DEF r
<1>2. 3 * T - 2 * c = c + 3 * r /\ c + 3 * r \in Nat
  BY <1>1
<1>3. c * c \in Nat /\ c * c * (c + 3 * r) \in Nat
  BY <1>1, <1>2
<1>4. T * T * T = c * c * (c + 3 * r) + r * r * (3 * c + r)
  BY <1>1
<1>5. r * r * (3 * c + r) \in Nat
  <2>1. r * r \in Nat /\ 3 * c + r \in Nat
    BY <1>1
  <2> QED BY <2>1
<1> QED BY <1>2, <1>3, <1>4, <1>5

(* A fraction w / s of the way from p0 to p1 lies between them.            *)
LEMMA Between ==
  ASSUME NEW p0 \in Int, NEW p1 \in Int, NEW s \in Nat, NEW w \in 0 .. s
  PROVE  \/ p0 * s <= (p1 - p0) * w + p0 * s /\ (p1 - p0) * w + p0 * s <= p1 * s
         \/ p1 * s <= (p1 - p0) * w + p0 * s /\ (p1 - p0) * w + p0 * s <= p0 * s
<1> DEFINE m == p1 - p0
<1>1. m \in Int /\ p1 * s = m * s + p0 * s /\ p0 * s \in Int
  OBVIOUS
<1>2. CASE m >= 0
  <2>1. 0 <= m * w /\ m * w <= m * s
    BY <1>2
  <2> QED BY <1>1, <2>1
<1>3. CASE m < 0
  <2>1. m * w <= 0 /\ m * s <= m * w
    BY <1>3
  <2> QED BY <1>1, <2>1
<1> QED BY <1>1, <1>2, <1>3

LEMMA CubicBounded ==
  ASSUME NEW p0 \in Int, NEW c \in Nat
  PROVE  LET pd == ThirdpolyVector(p0, 0, ZeroPose, 0, c).pd
         IN \/ p0 * Scale <= pd /\ pd <= ZeroPose * Scale
            \/ ZeroPose * Scale <= pd /\ pd <= p0 * Scale
<1> DEFINE pd == ThirdpolyVector(p0, 0, ZeroPose, 0, c).pd
           w  == c * c * (3 * ZeroTicks - 2 * c)
<1>1. ZeroTicks \in Nat /\ ZeroPose \in Int /\ Scale \in Nat
  BY ZeroAssumption DEF Scale
<1>2. CASE c <= ZeroTicks
  <2>1. c \in 0 .. ZeroTicks /\ ~ (c < 0)
    BY <1>1, <1>2
  <2>2. w \in 0 .. Scale
    BY <1>1, <2>1, BlendBounded DEF Scale
  <2>3. pd = (ZeroPose - p0) * w + p0 * Scale
    <3> DEFINE T == ZeroTicks
               m == ZeroPose - p0 - 0 * T
    <3>1. pd = ((0 - 0) * T - 2 * m) * c * c * c + (T * (3 * m - (0 - 0) * T)) * c * c
                 + 0 * c * Scale + p0 * Scale
      BY <1>2, <2>1 DEF ThirdpolyVector
    <3>2. m = ZeroPose - p0 /\ m \in Int /\ T \in Int
      BY <1>1
    <3> HIDE DEF m, T
    <3>3. pd = (0 - 2 * m) * c * c * c + (T * (3 * m)) * c * c + p0 * Scale
      BY <1>1, <3>1, <3>2
    <3>4. (0 - 2 * m) * c * c * c + (T * (3 * m)) * c * c = m * (c * c * (3 * T - 2 * c))
      BY <3>2
    <3> QED BY <3>2, <3>3, <3>4 DEF T
  <2> HIDE DEF pd, w
  <2> QED BY <1>1, <2>2, <2>3, Between DEF pd
<1>3. CASE ~ (c <= ZeroTicks)
  <2>1. pd = ZeroPose * Scale
    BY <1>1, <1>3 DEF ThirdpolyVector
  <2>2. p0 * Scale \in Int /\ ZeroPose * Scale \in Int
    BY <1>1
  <2> QED BY <2>1, <2>2
<1> QED BY <1>2, <1>3

(* While homing, the command is the cubic's point for the pose captured in *)
(* this visit, hence between that pose and the target.                     *)
OnTheCubic ==
  /\ handlers["ZERO"] \in {"created", "started"}
  /\ (pc \in {"set", "send"} /\ CurrentState = "ZERO") =>
       data.motor_Pos_desire =
         ThirdpolyVector(zero.init_pose, 0, ZeroPose, 0, zero.t_Zero).pd

LEMMA OnTheCubicHolds == Spec => []OnTheCubic
<1>1. Init => OnTheCubic
  BY DEF Init, OnTheCubic, Registered, State
<1>2. TypeOK /\ OnTheCubic /\ [Next]_vars => OnTheCubic'
  <2> SUFFICES ASSUME TypeOK, OnTheCubic, [Next]_vars PROVE OnTheCubic'
    OBVIOUS
  <2> USE DEF OnTheCubic
  <2>1. CASE init
    BY <2>1 DEF init, Registered, State
  <2>2. CASE JoystickSetDataToPackage
    BY <2>2 DEF JoystickSetDataToPackage
  <2>3. CASE GetStatesToPackage
    BY <2>3 DEF GetStatesToPackage
  <2>4. CASE GetDataFromPackage
    BY <2>4 DEF GetDataFromPackage
  <2>5. CASE run
    <3>0. HandlersAfterLookup["ZERO"] = handlers["ZERO"]
      BY DEF HandlersAfterLookup, TypeOK
    <3>1. CASE RunZero
      <4>1. DataAfterExit \in Package
        BY ExitTypes
      <4>2. data' = ZeroSetDataToPackage(zero', DataAfterExit)
        BY <3>1 DEF RunZero
      <4> QED BY <3>0, <3>1, <4>1, <4>2 DEF RunZero, Dispatch, ZeroSetDataToPackage, Package
    <3>2. CASE RunRlWalk
      BY <3>0, <3>2 DEF RunRlWalk, Dispatch
    <3>3. CASE RunSimpleExample
      BY <3>0, <3>3 DEF RunSimpleExample, Dispatch
    <3>4. CASE RunUnhandled
      <4>1. PICK s \in State : Dispatch(s, "absent")
        BY <3>4 DEF RunUnhandled
      <4>2. s # "ZERO"
        BY <3>0, <4>1 DEF Dispatch
      <4> QED BY <3>0, <4>1, <4>2 DEF Dispatch
    <3>5. CASE RunNull
      BY <3>0, <3>5 DEF RunNull, Dispatch
    <3> QED BY <2>5, <3>1, <3>2, <3>3, <3>4, <3>5 DEF run
  <2>6. CASE SetDataToPackage
    BY <2>6 DEF SetDataToPackage, TypeOK, Package
  <2>7. CASE SetCommandsFromPackage
    BY <2>7 DEF SetCommandsFromPackage
  <2>8. CASE UNCHANGED vars
    BY <2>8 DEF vars
  <2> QED BY <2>1, <2>2, <2>3, <2>4, <2>5, <2>6, <2>7, <2>8 DEF Next
<1> QED BY <1>1, <1>2, TypeCorrect, PTL DEF Spec

(* Homing's command stays between the captured and the target position     *)
(* (ZeroState.cpp:61-134).                                                 *)
THEOREM HomingBounded == Spec => []HomingWithinBounds
<1>1. TypeOK /\ OnTheCubic => HomingWithinBounds
  <2> SUFFICES ASSUME TypeOK, OnTheCubic, pc \in {"set", "send"}, CurrentState = "ZERO"
               PROVE  HomingWithinBounds
    BY DEF HomingWithinBounds
  <2>1. zero.init_pose \in Int /\ zero.t_Zero \in Nat
    BY ZeroAssumption DEF TypeOK, ZeroObject, ClockTop
  <2> QED BY <2>1, CubicBounded DEF OnTheCubic, HomingWithinBounds
<1> QED BY <1>1, OnTheCubicHolds, TypeCorrect, PTL

(***************************************************************************)
(* The control loop implements ModeController: each run() is one tick of   *)
(* it, the joystick and the sensors are its inputs, and every other call   *)
(* stutters.                                                               *)
(***************************************************************************)

(* The operators shared by both levels are the same on both.               *)
LEMMA SameOperators ==
  /\ Controller!Scale = Scale
  /\ Controller!ClockTop = ClockTop
  /\ Controller!Blank = [last |-> 0, hist |-> NoHistory]
  /\ \A p0, v0, p1, v1, c :
       Controller!ThirdpolyVector(p0, v0, p1, v1, c) = ThirdpolyVector(p0, v0, p1, v1, c)
  /\ \A out : Controller!RlTarget(out) = RlTarget(out)
  /\ \A h, x : Controller!Shift(h, x) = Shift(h, x)
  /\ \A h : Controller!HistoryTail(h) = HistoryTail(h)
BY DEF Controller!Scale, Scale, Controller!ClockTop, ClockTop, Controller!Blank,
       Controller!NoHistory, NoHistory, Controller!ThirdpolyVector, ThirdpolyVector,
       Controller!RlTarget, RlTarget, Controller!Shift, Shift,
       Controller!HistoryTail, HistoryTail

LEMMA HomingImplementsHome ==
  ASSUME Inductive, Inductive', RunZero
  PROVE  Controller!Tick
<1>1. Dispatch("ZERO", "started")
  BY DEF RunZero
<1>2. /\ NextState = "ZERO" /\ data.NextState = "ZERO" /\ Target = NextState
      /\ CurrentState' = "ZERO"
  BY <1>1, DispatchFacts DEF State, Entry
<1> DEFINE first == CurrentState # "ZERO" \/ zero.t_Zero = 0
           z     == ZeroGetDataFromPackage(zero, DataAfterExit)
<1>3. /\ data \in Package /\ zero \in ZeroObject
      /\ DataAfterExit = data
      /\ data.If_first_Zero = first
  BY <1>2, AfterExit DEF Inductive, TypeOK, HomingArmed, Package
<1>4. z = [zero EXCEPT !.If_first_Zero = data.If_first_Zero, !.motor_pos = data.motor_pos]
  BY <1>3 DEF ZeroGetDataFromPackage
<1>5. /\ z.If_first_Zero = first
      /\ z.motor_pos = data.motor_pos
      /\ z.t_Zero = zero.t_Zero
      /\ z.init_pose = zero.init_pose
      /\ z \in ZeroObject
  BY <1>3, <1>4 DEF ZeroObject, Package
<1>6. zero' = ZeroAdvance(z) /\ data' = ZeroSetDataToPackage(zero', data)
      /\ rl' = RlAfterExit
  BY <1>3 DEF RunZero
<1> HIDE DEF z, first
<1>7. /\ zero'.t_Zero = IF first THEN 1
                         ELSE IF zero.t_Zero < ClockTop THEN zero.t_Zero + 1 ELSE zero.t_Zero
      /\ zero'.init_pose = IF first THEN data.motor_pos ELSE zero.init_pose
  BY <1>5, <1>6, ZeroAssumption DEF ZeroAdvance, ZeroObject, ClockTop
<1> DEFINE traj == ThirdpolyVector(zero'.init_pose, 0, ZeroPose, 0, zero'.t_Zero)
<1>8. /\ CommandOf(data)' = [pos |-> traj.pd, vel |-> traj.pd_dot, PD |-> "zero"]
      /\ data'.NextState = data.NextState /\ data'.motor_pos = data.motor_pos
  BY <1>3, <1>6 DEF ZeroSetDataToPackage, CommandOf, Package
<1>9. /\ rl'.inputdata = rl.inputdata
      /\ rl'.last_actions = 0 /\ rl'.pos_hist_buf = NoHistory
  BY <1>2, <1>6, AfterExit
<1> HIDE DEF traj
<1>10. /\ Clock' = zero'.t_Zero /\ Anchor' = zero'.init_pose
       /\ Memory' = [last |-> 0, hist |-> NoHistory]
       /\ CurrentState = "ZERO" => Clock = zero.t_Zero /\ Anchor = zero.init_pose
  BY <1>2, <1>9 DEF Clock, Anchor, Memory
<1> DEFINE fresh == Controller!Entering \/ Clock = 0
<1>11. /\ Clock' = IF fresh THEN 1 ELSE IF Clock < ClockTop THEN Clock + 1 ELSE Clock
       /\ Anchor' = IF fresh THEN data.motor_pos ELSE Anchor
  BY <1>2, <1>7, <1>10 DEF first, Controller!Entering
<1> HIDE DEF fresh
<1>12. CommandOf(data)' =
         LET t == Controller!ThirdpolyVector(Anchor', 0, ZeroPose, 0, Clock')
         IN [pos |-> t.pd, vel |-> t.pd_dot, PD |-> "zero"]
  BY <1>8, <1>10, SameOperators DEF traj
<1>13. Controller!Home
  BY <1>2, <1>9, <1>10, <1>11, <1>12, SameOperators DEF Controller!Home, fresh
<1> QED BY <1>2, <1>8, <1>13 DEF Controller!Tick

LEMMA WalkingImplementsWalk ==
  ASSUME Inductive, Inductive', RunRlWalk
  PROVE  Controller!Tick
<1>1. Dispatch("RL_walk", "started")
  BY DEF RunRlWalk
<1>2. /\ NextState = "RL_walk" /\ data.NextState = "RL_walk" /\ Target = NextState
      /\ CurrentState' = "RL_walk"
  BY <1>1, DispatchFacts DEF State, Entry
<1> DEFINE r == RlGetDataFromPackage(rl, data)
           m == IF CurrentState # "RL_walk" THEN [last |-> 0, hist |-> NoHistory] ELSE Memory
           c == IF CurrentState # "RL_walk" THEN 0 ELSE Clock
<1>3. /\ data \in Package /\ DataAfterExit \in Package /\ rl \in RlObject
      /\ rl' \in RlObject
      /\ DataAfterExit.NextState = data.NextState
      /\ DataAfterExit.motor_pos = data.motor_pos
  BY <1>2, ExitTypes, AfterExit DEF Inductive, TypeOK, Package
<1>4. /\ c = rl.step_num
      /\ m = [last |-> rl.last_actions, hist |-> rl.pos_hist_buf]
  BY DEF Clock, Memory, Inductive, WalkForgets
<1>5. r = [rl EXCEPT !.q_origin = data.motor_pos]
  BY DEF RlGetDataFromPackage
<1>6. /\ r.step_num = rl.step_num /\ r.last_actions = rl.last_actions
      /\ r.outputdata = rl.outputdata
      /\ r.pos_hist_buf = rl.pos_hist_buf /\ r.inputdata = rl.inputdata
      /\ r.q_origin = data.motor_pos
      /\ r \in RlObject
  BY <1>3, <1>5 DEF RlObject, Package
<1>7. /\ data' = RlSetDataToPackage(rl', DataAfterExit, Scale)
      /\ \/ RlNextStep(r) # 0 /\ rl' = RlSkip(r)
         \/ RlNextStep(r) = 0 /\ \E out \in Outputs : rl' = RlInfer(r, out)
  BY DEF RunRlWalk
<1>8. Clock' = rl'.step_num /\ Memory' = [last |-> rl'.last_actions, hist |-> rl'.pos_hist_buf]
      /\ Anchor' = 0
  BY <1>2 DEF Clock, Memory, Anchor
<1> HIDE DEF r, m, c
<1>9. /\ Clock' = (c + 1) % Decimation
      /\ \/ /\ Clock' # 0
            /\ Memory' = m
            /\ rl'.inputdata = rl.inputdata
         \/ /\ Clock' = 0
            /\ rl'.inputdata = [pos  |-> (data.motor_pos - DefaultPose) * DofPosScale,
                                last |-> m.last,
                                hist |-> HistoryTail(m.hist)]
            /\ \E out \in Outputs :
                 Memory' = [last |-> out, hist |-> Shift(m.hist, data.motor_pos * DofPosScale)]
  <2>1. CASE RlNextStep(r) # 0 /\ rl' = RlSkip(r)
    <3>1. rl'.step_num = RlNextStep(r) /\ rl'.last_actions = rl.last_actions
          /\ rl'.pos_hist_buf = rl.pos_hist_buf /\ rl'.inputdata = rl.inputdata
      BY <1>6, <2>1 DEF RlSkip, RlObject
    <3> QED BY <1>4, <1>6, <1>8, <2>1, <3>1 DEF RlNextStep
  <2>2. CASE RlNextStep(r) = 0 /\ \E out \in Outputs : rl' = RlInfer(r, out)
    <3>1. PICK out \in Outputs : rl' = RlInfer(r, out)
      BY <2>2
    <3>2. /\ rl'.step_num = RlNextStep(r)
          /\ rl'.last_actions = out
          /\ rl'.pos_hist_buf = Shift(rl.pos_hist_buf, data.motor_pos * DofPosScale)
          /\ rl'.inputdata = [pos  |-> (data.motor_pos - DefaultPose) * DofPosScale,
                              last |-> rl.last_actions,
                              hist |-> HistoryTail(rl.pos_hist_buf)]
      BY <1>6, <3>1 DEF RlInfer, RlObject
    <3> QED BY <1>4, <1>6, <1>8, <2>2, <3>2 DEF RlNextStep
  <2> QED BY <1>7, <2>1, <2>2
<1>10. rl'.outputdata = rl'.last_actions
  BY DEF Inductive, WalkActs
<1>11. /\ CommandOf(data)' = [pos |-> RlTarget(Memory'.last) * Scale, vel |-> 0, PD |-> "rl"]
       /\ data'.NextState = data.NextState /\ data'.motor_pos = data.motor_pos
  BY <1>3, <1>7, <1>8, <1>10 DEF RlSetDataToPackage, CommandOf, Package
<1>12. Controller!Walk
  BY <1>2, <1>8, <1>9, <1>11, SameOperators DEF Controller!Walk, Controller!Entering, m, c
<1> QED BY <1>2, <1>11, <1>12 DEF Controller!Tick

LEMMA ExampleImplementsHold ==
  ASSUME Inductive, Inductive', RunSimpleExample
  PROVE  Controller!Tick
<1>1. Dispatch("SIMPLE_EXAMPLE", "started")
  BY DEF RunSimpleExample
<1>2. /\ NextState = "SIMPLE_EXAMPLE" /\ data.NextState = "SIMPLE_EXAMPLE"
      /\ Target = NextState /\ CurrentState' = "SIMPLE_EXAMPLE"
  BY <1>1, DispatchFacts DEF State, Entry
<1>3. /\ data \in Package
      /\ data' = [DataAfterExit EXCEPT !.CurrentState = simple']
      /\ rl' = RlAfterExit
  BY DEF RunSimpleExample, Inductive, TypeOK
<1>4. /\ CommandOf(data)' = CommandOf(data)
      /\ data'.NextState = data.NextState /\ data'.motor_pos = data.motor_pos
  BY <1>2, <1>3, AfterExit DEF CommandOf, Package
<1>5. /\ rl'.inputdata = rl.inputdata
      /\ Memory' = [last |-> 0, hist |-> NoHistory] /\ Clock' = 0 /\ Anchor' = 0
  BY <1>2, <1>3, AfterExit DEF Memory, Clock, Anchor
<1>6. Controller!Hold
  BY <1>2, <1>4, <1>5, SameOperators DEF Controller!Hold
<1> QED BY <1>2, <1>4, <1>6 DEF Controller!Tick

(* Every behaviour of the control loop, seen through the mapping, is a     *)
(* behaviour of the abstract controller.                                   *)
THEOREM Refinement ==
  ASSUME Requests \subseteq Registered
  PROVE  Spec => ImplementsController
<1>1. Init => Controller!Init
  BY SameOperators DEF Init, Controller!Init, NewPackage, ZeroCtor, RlCtor, CommandOf,
     Clock, Anchor, Memory, Controller!RlCtor, Controller!NoHistory, NoHistory
<1>2. Inductive /\ Inductive' /\ [Next]_vars => [Controller!Next]_(Controller!vars)
  <2> SUFFICES ASSUME Inductive, Inductive', [Next]_vars
               PROVE  Controller!Next \/ UNCHANGED Controller!vars
    OBVIOUS
  <2>0. data \in Package
    BY DEF Inductive, TypeOK
  <2> DEFINE Same == UNCHANGED <<CurrentState, Clock, Anchor, Memory, rl.inputdata>>
  <2>1. UNCHANGED <<CurrentState, zero, rl>> => Same
    BY DEF Clock, Anchor, Memory
  <2> HIDE DEF Same
  <2>2. CASE UNCHANGED <<data.NextState, data.motor_pos, CommandOf(data)>> /\ Same
    BY <2>2 DEF Same, Controller!vars
  <2>3. CASE init
    BY <2>1, <2>2, <2>3 DEF init, CommandOf
  <2>4. CASE JoystickSetDataToPackage
    <3>1. PICK s \in Requests : data' = [data EXCEPT !.NextState = s]
      BY <2>4 DEF JoystickSetDataToPackage
    <3>2. data'.NextState = s /\ UNCHANGED <<data.motor_pos, CommandOf(data)>>
      BY <2>0, <3>1 DEF Package, CommandOf
    <3>3. Same
      BY <2>1, <2>4 DEF JoystickSetDataToPackage
    <3>4. Controller!Ask
      BY <3>2, <3>3 DEF Controller!Ask, Same
    <3> QED BY <3>4 DEF Controller!Next
  <2>5. CASE GetStatesToPackage
    <3>1. PICK p \in Poses : data' = [data EXCEPT !.motor_pos = p]
      BY <2>5 DEF GetStatesToPackage
    <3>2. data'.motor_pos = p /\ UNCHANGED <<data.NextState, CommandOf(data)>>
      BY <2>0, <3>1 DEF Package, CommandOf
    <3>3. Same
      BY <2>1, <2>5 DEF GetStatesToPackage
    <3>4. Controller!Measure
      BY <3>2, <3>3 DEF Controller!Measure, Same
    <3> QED BY <3>4 DEF Controller!Next
  <2>6. CASE GetDataFromPackage
    BY <2>1, <2>2, <2>6 DEF GetDataFromPackage, CommandOf
  <2>7. CASE run
    BY <2>7, RunIsAnAction, HomingImplementsHome, WalkingImplementsWalk,
       ExampleImplementsHold DEF Controller!Next
  <2>8. CASE SetDataToPackage
    <3>1. UNCHANGED <<data.NextState, data.motor_pos, CommandOf(data)>>
      BY <2>0, <2>8 DEF SetDataToPackage, Package, CommandOf
    <3> QED BY <2>1, <2>2, <2>8, <3>1 DEF SetDataToPackage
  <2>9. CASE SetCommandsFromPackage
    BY <2>1, <2>2, <2>9 DEF SetCommandsFromPackage, CommandOf
  <2>10. CASE UNCHANGED vars
    BY <2>1, <2>2, <2>10 DEF vars, CommandOf
  <2> QED BY <2>3, <2>4, <2>5, <2>6, <2>7, <2>8, <2>9, <2>10 DEF Next
<1> QED BY <1>1, <1>2, InductiveHolds, PTL DEF Spec, ImplementsController, Controller!Spec

-----------------------------------------------------------------------------
(***************************************************************************)
(* The motors hold the last command that was sent.                         *)
(***************************************************************************)

(* What the motors hold is what the package commands, except between a     *)
(* run() that writes a command and the sending of it.                      *)
MotorsFollow ==
  /\ pc \notin {"set", "send", "crashed"} => motors = CommandOf(data)
  /\ pc \in {"set", "send"} /\ CurrentState = "SIMPLE_EXAMPLE" => motors = CommandOf(data)
  /\ pc \in {"set", "send"} /\ CurrentState \notin Registered => motors = CommandOf(data)
  /\ \A s \in State \ Registered : handlers[s] \in {"absent", "null"}

(* The fields that carry a command are the only ones that matter to it.    *)
LEMMA SameCommand ==
  ASSUME NEW d \in Package, NEW e \in Package,
         d.motor_Pos_desire = e.motor_Pos_desire,
         d.motor_Vel_desire = e.motor_Vel_desire,
         d.sim_PD = e.sim_PD
  PROVE  CommandOf(d) = CommandOf(e)
BY DEF CommandOf

LEMMA MotorsFollowHolds == Spec => []MotorsFollow
<1>1. Init => MotorsFollow
  BY DEF Init, MotorsFollow, Registered, State
<1>2. TypeOK /\ MotorsFollow /\ [Next]_vars => MotorsFollow'
  <2> SUFFICES ASSUME TypeOK, MotorsFollow, [Next]_vars PROVE MotorsFollow'
    OBVIOUS
  <2>0. data \in Package /\ handlers \in [State -> Entry] /\ CurrentState \in State
    BY DEF TypeOK
  <2>1. CASE init
    BY <2>0, <2>1 DEF init, MotorsFollow, Registered, State
  <2>2. CASE JoystickSetDataToPackage
    <3>1. CommandOf(data') = CommandOf(data)
      BY <2>0, <2>2 DEF JoystickSetDataToPackage, CommandOf, Package
    <3> QED BY <2>2, <3>1 DEF JoystickSetDataToPackage, MotorsFollow
  <2>3. CASE GetStatesToPackage
    <3>1. CommandOf(data') = CommandOf(data)
      BY <2>0, <2>3 DEF GetStatesToPackage, CommandOf, Package
    <3> QED BY <2>3, <3>1 DEF GetStatesToPackage, MotorsFollow
  <2>4. CASE GetDataFromPackage
    BY <2>4 DEF GetDataFromPackage, MotorsFollow
  <2>5. CASE run
    <3>1. \A s \in State : HandlersAfterLookup[s] =
            IF s = CurrentState /\ handlers[s] = "absent" THEN "null" ELSE handlers[s]
      BY <2>0 DEF HandlersAfterLookup
    <3>2. CommandOf(DataAfterExit) = CommandOf(data) /\ DataAfterExit \in Package
      BY <2>0, ExitTypes DEF DataAfterExit, CommandOf, Package
    <3>3. motors' = motors /\ motors = CommandOf(data) /\ handlers' = HandlersAfterLookup
      BY <2>5 DEF run, RunZero, RunRlWalk, RunSimpleExample, RunUnhandled, RunNull, Dispatch,
                  MotorsFollow
    <3>4. \A s \in State \ Registered : handlers'[s] \in {"absent", "null"}
      BY <3>1, <3>3 DEF MotorsFollow
    <3>5. CASE RunZero
      BY <3>3, <3>4, <3>5 DEF RunZero, Dispatch, MotorsFollow, Registered, State
    <3>6. CASE RunRlWalk
      BY <3>3, <3>4, <3>6 DEF RunRlWalk, Dispatch, MotorsFollow, Registered, State
    <3>7. CASE RunSimpleExample
      <4>1. CommandOf(data') = CommandOf(data)
        BY <3>2, <3>7 DEF RunSimpleExample, CommandOf, Package
      <4> QED BY <3>3, <3>4, <3>7, <4>1
              DEF RunSimpleExample, Dispatch, MotorsFollow, Registered, State
    <3>8. CASE RunUnhandled
      <4>1. CurrentState' \in State
        BY <3>8 DEF RunUnhandled, Dispatch
      <4> QED BY <3>2, <3>3, <3>4, <3>8, <4>1 DEF RunUnhandled, MotorsFollow
    <3>9. CASE RunNull
      <4>1. CurrentState' \in State
        BY <3>9 DEF RunNull, Dispatch
      <4> QED BY <3>3, <3>4, <3>9, <4>1 DEF RunNull, MotorsFollow
    <3> QED BY <2>5, <3>5, <3>6, <3>7, <3>8, <3>9 DEF run
  <2>6. CASE SetDataToPackage
    <3>1. CommandOf(data') = CommandOf(data)
      BY <2>0, <2>6 DEF SetDataToPackage, CommandOf, Package
    <3> QED BY <2>6, <3>1 DEF SetDataToPackage, MotorsFollow
  <2>7. CASE SetCommandsFromPackage
    BY <2>7 DEF SetCommandsFromPackage, MotorsFollow
  <2>8. CASE UNCHANGED vars
    BY <2>8 DEF vars, MotorsFollow
  <2> QED BY <2>1, <2>2, <2>3, <2>4, <2>5, <2>6, <2>7, <2>8 DEF Next
<1> QED BY <1>1, <1>2, TypeCorrect, PTL DEF Spec

(* The example state, which writes no command, leaves the motors with what *)
(* the state before it sent (SimpleStateExample.h:7-33).                   *)
THEOREM ExampleHolds == Spec => ExampleHoldsCommand
<1> DEFINE Holds == (pc = "send" /\ CurrentState = "SIMPLE_EXAMPLE") => motors' = motors
<1>1. MotorsFollow /\ [Next]_vars => [Holds]_vars
  <2> SUFFICES ASSUME MotorsFollow, Next, pc = "send", CurrentState = "SIMPLE_EXAMPLE"
               PROVE  motors' = motors
    OBVIOUS
  <2>1. SetCommandsFromPackage
    BY DEF Next, init, JoystickSetDataToPackage, GetStatesToPackage, GetDataFromPackage, run,
           RunZero, RunRlWalk, RunSimpleExample, RunUnhandled, RunNull, Dispatch,
           SetDataToPackage
  <2> QED BY <2>1 DEF SetCommandsFromPackage, MotorsFollow
<1> QED BY <1>1, MotorsFollowHolds, PTL DEF Spec, ExampleHoldsCommand

(* From a state without a handler there is no way back, and the motors     *)
(* keep what they were sent before (statemachinemanager.cpp:26-46).        *)
THEOREM UnhandledStays == Spec => UnhandledIsFinal
<1> DEFINE Stays == CurrentState \notin Registered => UNCHANGED <<CurrentState, motors>>
<1>1. MotorsFollow /\ TypeOK /\ [Next]_vars => [Stays]_vars
  <2> SUFFICES ASSUME MotorsFollow, TypeOK, Next, CurrentState \notin Registered
               PROVE  UNCHANGED <<CurrentState, motors>>
    OBVIOUS
  <2>1. ASSUME run PROVE UNCHANGED <<CurrentState, motors>>
    <3>1. HandlersAfterLookup[CurrentState] = "null"
      BY DEF MotorsFollow, TypeOK, HandlersAfterLookup
    <3>2. ~ CanLeave
      BY DEF MotorsFollow, TypeOK, CanLeave
    <3> QED BY <2>1, <3>1, <3>2 DEF run, RunZero, RunRlWalk, RunSimpleExample, RunUnhandled,
                                    RunNull, Dispatch, Target
  <2>2. ASSUME SetCommandsFromPackage PROVE UNCHANGED <<CurrentState, motors>>
    BY <2>2 DEF SetCommandsFromPackage, MotorsFollow
  <2> QED BY <2>1, <2>2 DEF Next, init, JoystickSetDataToPackage, GetStatesToPackage,
                            GetDataFromPackage, SetDataToPackage
<1> QED BY <1>1, MotorsFollowHolds, TypeCorrect, PTL DEF Spec, UnhandledIsFinal

(* In such a state the very next run() goes through the null pointer:      *)
(* nothing that is asked for meanwhile prevents it.                        *)
NextRunIsNull == [][CurrentState \notin Registered /\ run => pc' = "crashed"]_vars

(* The next RUN of a state without a handler crashes, for any requests:    *)
(* the safety half of UnhandledIsFatal (statemachinemanager.cpp:26-46).    *)
THEOREM UnhandledCrashes == Spec => NextRunIsNull
<1> DEFINE Crashes == CurrentState \notin Registered /\ run => pc' = "crashed"
<1>1. MotorsFollow /\ TypeOK /\ [Next]_vars => [Crashes]_vars
  <2> SUFFICES ASSUME MotorsFollow, TypeOK, CurrentState \notin Registered, run
               PROVE  pc' = "crashed"
    OBVIOUS
  <2>1. HandlersAfterLookup[CurrentState] = "null"
    BY DEF MotorsFollow, TypeOK, HandlersAfterLookup
  <2>2. Target = CurrentState
    BY DEF MotorsFollow, TypeOK, CanLeave, Target
  <2> QED BY <2>1, <2>2 DEF run, RunZero, RunRlWalk, RunSimpleExample, RunUnhandled, RunNull,
                            Dispatch
<1> QED BY <1>1, MotorsFollowHolds, TypeCorrect, PTL DEF Spec, NextRunIsNull

(***************************************************************************)
(* Homing never moves the command away from its target.                    *)
(***************************************************************************)
Blend(T, c) == c * c * (3 * T - 2 * c)

(* The blend grows from tick to tick.                                      *)
LEMMA BlendGrows ==
  ASSUME NEW T \in Nat, NEW c \in Nat, c + 1 <= T
  PROVE  Blend(T, c) <= Blend(T, c + 1)
<1> DEFINE r == T - (c + 1)
<1>1. r \in Nat /\ T = c + 1 + r
  OBVIOUS
<1> HIDE DEF r
<1>3. Blend(T, c + 1) - Blend(T, c) = 6 * (c * r) + 3 * (c + 1 + r) - 2
  BY <1>1 DEF Blend
<1>4. c * r \in Nat
  BY <1>1
<1>5. Blend(T, c) \in Int /\ Blend(T, c + 1) \in Int
  BY DEF Blend
<1> HIDE DEF Blend
<1> QED BY <1>1, <1>3, <1>4, <1>5

(* Where the cubic from p0 at rest stands after c ticks.                   *)
LEMMA CubicPosition ==
  ASSUME NEW p0 \in Int, NEW c \in Nat
  PROVE  ThirdpolyVector(p0, 0, ZeroPose, 0, c).pd =
           IF c <= ZeroTicks THEN (ZeroPose - p0) * Blend(ZeroTicks, c) + p0 * Scale
                             ELSE ZeroPose * Scale
<1> DEFINE pd == ThirdpolyVector(p0, 0, ZeroPose, 0, c).pd
<1>1. ZeroTicks \in Nat /\ ZeroPose \in Int /\ Scale \in Nat
  BY ZeroAssumption DEF Scale
<1>2. CASE c <= ZeroTicks
  <2> DEFINE T == ZeroTicks
             m == ZeroPose - p0
  <2>1. pd = (0 * T - 2 * (m - 0 * T)) * c * c * c
             + (T * (3 * (m - 0 * T) - 0 * T)) * c * c + 0 * c * Scale + p0 * Scale
    BY <1>1, <1>2 DEF ThirdpolyVector
  <2>2. m \in Int /\ T \in Nat
    BY <1>1
  <2> HIDE DEF m, T
  <2>3. pd = (0 - 2 * m) * c * c * c + (T * (3 * m)) * c * c + p0 * Scale
    BY <1>1, <2>1, <2>2
  <2>4. (0 - 2 * m) * c * c * c + (T * (3 * m)) * c * c = m * (c * c * (3 * T - 2 * c))
    BY <2>2
  <2> QED BY <1>2, <2>2, <2>3, <2>4 DEF T, m, Blend
<1>3. CASE ~ (c <= ZeroTicks)
  BY <1>1, <1>3 DEF ThirdpolyVector
<1> QED BY <1>2, <1>3

Size(x) == IF x < 0 THEN -x ELSE x

(* Further on the way less of it is left.                                  *)
LEMMA WayLeft ==
  ASSUME NEW p0 \in Int, NEW p1 \in Int, NEW s \in Nat, NEW v \in 0 .. s, NEW w \in v .. s,
         NEW here, here = (p1 - p0) * v + p0 * s,
         NEW there, there = (p1 - p0) * w + p0 * s
  PROVE  Size(there - p1 * s) <= Size(here - p1 * s)
<1> USE DEF Size
<1> DEFINE m == p1 - p0
           x == s - w
           y == s - v
<1>1. m \in Int /\ x \in Nat /\ y \in Nat /\ x <= y
  OBVIOUS
<1>2. /\ there - p1 * s = -(m * x)
      /\ here - p1 * s = -(m * y)
  OBVIOUS
<1> HIDE DEF m, x, y
<1>3. m * x \in Int /\ m * y \in Int
  BY <1>1
<1>4. CASE m >= 0
  <2>1. 0 <= m * x /\ m * x <= m * y
    BY <1>1, <1>4
  <2> QED BY <1>2, <1>3, <2>1
<1>5. CASE m < 0
  <2>1. m * x <= 0 /\ m * y <= m * x
    BY <1>1, <1>5
  <2> QED BY <1>2, <1>3, <2>1
<1> QED BY <1>1, <1>4, <1>5

(* One tick of the cubic comes no further from the target.                 *)
LEMMA CubicApproaches ==
  ASSUME NEW p0 \in Int, NEW c \in Nat
  PROVE  Size(ThirdpolyVector(p0, 0, ZeroPose, 0, c + 1).pd - ZeroPose * Scale)
           <= Size(ThirdpolyVector(p0, 0, ZeroPose, 0, c).pd - ZeroPose * Scale)
<1> DEFINE T == ZeroTicks
<1>1. T \in Nat /\ ZeroPose \in Int /\ Scale \in Nat /\ ZeroPose * Scale \in Int /\ Scale = T * T * T
  BY ZeroAssumption DEF Scale
<1>2. ThirdpolyVector(p0, 0, ZeroPose, 0, c).pd =
        IF c <= T THEN (ZeroPose - p0) * Blend(T, c) + p0 * Scale ELSE ZeroPose * Scale
  BY CubicPosition
<1>3. ThirdpolyVector(p0, 0, ZeroPose, 0, c + 1).pd =
        IF c + 1 <= T THEN (ZeroPose - p0) * Blend(T, c + 1) + p0 * Scale ELSE ZeroPose * Scale
  BY CubicPosition
<1>4. CASE c + 1 <= T
  <2> HIDE DEF T
  <2>1. c \in 0 .. T /\ c + 1 \in 0 .. T
    BY <1>1, <1>4
  <2>2. /\ Blend(T, c) \in Int /\ 0 <= Blend(T, c) /\ Blend(T, c) <= Scale
        /\ Blend(T, c + 1) \in Int /\ 0 <= Blend(T, c + 1) /\ Blend(T, c + 1) <= Scale
    BY <1>1, <2>1, BlendBounded DEF Blend
  <2>3. Blend(T, c) <= Blend(T, c + 1)
    BY <1>1, <1>4, BlendGrows
  <2>4. Blend(T, c) \in 0 .. Scale /\ Blend(T, c + 1) \in Blend(T, c) .. Scale
    BY <1>1, <2>2, <2>3
  <2>5. c <= T
    BY <1>1, <1>4
  <2> DEFINE v == Blend(T, c)
             w == Blend(T, c + 1)
  <2>6. v \in 0 .. Scale /\ w \in v .. Scale
    BY <2>4
  <2> HIDE DEF v, w
  <2> DEFINE here  == ThirdpolyVector(p0, 0, ZeroPose, 0, c).pd
             there == ThirdpolyVector(p0, 0, ZeroPose, 0, c + 1).pd
  <2>7. /\ here = (ZeroPose - p0) * v + p0 * Scale
        /\ there = (ZeroPose - p0) * w + p0 * Scale
    BY <1>2, <1>3, <1>4, <2>5 DEF v, w
  <2> HIDE DEF here, there
  <2>8. Size(there - ZeroPose * Scale) <= Size(here - ZeroPose * Scale)
    BY <1>1, <2>6, <2>7, WayLeft
  <2> QED BY <2>8 DEF here, there
<1>5. CASE ~ (c + 1 <= T)
  <2> DEFINE here == ThirdpolyVector(p0, 0, ZeroPose, 0, c).pd
  <2>1. here \in Int
    <3>1. (ZeroPose - p0) * Blend(T, c) + p0 * Scale \in Int
      BY <1>1 DEF Blend
    <3> QED BY <1>1, <1>2, <3>1
  <2>2. ThirdpolyVector(p0, 0, ZeroPose, 0, c + 1).pd - ZeroPose * Scale = 0
    BY <1>1, <1>3, <1>5
  <2> HIDE DEF here
  <2>3. Size(0) <= Size(here - ZeroPose * Scale)
    BY <1>1, <2>1 DEF Size
  <2> QED BY <2>2, <2>3 DEF here
<1> QED BY <1>4, <1>5

(* Within a visit, the command is the cubic's point for the visit's clock. *)
OnTheWay ==
  (CurrentState = "ZERO" /\ zero.t_Zero > 0) =>
    data.motor_Pos_desire = ThirdpolyVector(zero.init_pose, 0, ZeroPose, 0, zero.t_Zero).pd

(* A run() that stays in homing advances the clock, as far as it goes.     *)
ClockAdvances ==
  /\ zero'.init_pose = zero.init_pose
  /\ zero'.t_Zero = IF zero.t_Zero < ClockTop THEN zero.t_Zero + 1 ELSE zero.t_Zero

LEMMA HomingClock ==
  ASSUME Inductive, RunZero, CurrentState = "ZERO", zero.t_Zero > 0
  PROVE  ClockAdvances
<1>1. data.If_first_Zero = FALSE /\ zero \in ZeroObject /\ data \in Package
  <2>1. data.If_first_Zero \in BOOLEAN /\ zero.t_Zero # 0
    BY ZeroAssumption DEF Inductive, TypeOK, Package, ZeroObject, ClockTop
  <2> QED BY <2>1 DEF Inductive, HomingArmed, TypeOK
<1>2. Target = "ZERO"
  BY DEF RunZero, Dispatch
<1>3. DataAfterExit = data
  BY <1>2 DEF DataAfterExit, Exits
<1> DEFINE z == ZeroGetDataFromPackage(zero, data)
<1>4. /\ z.If_first_Zero = FALSE /\ z.t_Zero = zero.t_Zero /\ z.init_pose = zero.init_pose
      /\ z \in ZeroObject
  BY <1>1 DEF ZeroGetDataFromPackage, ZeroObject, Package
<1>5. zero' = ZeroAdvance(z)
  BY <1>3 DEF RunZero
<1> HIDE DEF z
<1> QED BY <1>4, <1>5 DEF ZeroAdvance, ZeroObject, ClockAdvances

LEMMA OnTheWayHolds ==
  ASSUME Requests \subseteq Registered
  PROVE  Spec => []OnTheWay
<1>1. Init => OnTheWay
  BY DEF Init, OnTheWay, ZeroCtor
<1>2. Inductive /\ OnTheWay /\ [Next]_vars => OnTheWay'
  <2> SUFFICES ASSUME Inductive, OnTheWay, [Next]_vars PROVE OnTheWay'
    OBVIOUS
  <2> USE DEF OnTheWay
  <2>0. data \in Package
    BY DEF Inductive, TypeOK
  <2>1. CASE init
    BY <2>1 DEF init
  <2>2. CASE JoystickSetDataToPackage
    BY <2>0, <2>2 DEF JoystickSetDataToPackage, Package
  <2>3. CASE GetStatesToPackage
    BY <2>0, <2>3 DEF GetStatesToPackage, Package
  <2>4. CASE GetDataFromPackage
    BY <2>4 DEF GetDataFromPackage
  <2>5. CASE run
    <3>1. CASE RunZero
      <4>1. DataAfterExit \in Package
        BY ExitTypes DEF Inductive
      <4>2. data' = ZeroSetDataToPackage(zero', DataAfterExit)
        BY <3>1 DEF RunZero
      <4> QED BY <4>1, <4>2 DEF ZeroSetDataToPackage, Package
    <3>2. CASE RunRlWalk
      BY <3>2 DEF RunRlWalk, Dispatch
    <3>3. CASE RunSimpleExample
      BY <3>3 DEF RunSimpleExample, Dispatch
    <3>4. CASE RunUnhandled
      <4>1. PICK s \in State : Dispatch(s, "absent")
        BY <3>4 DEF RunUnhandled
      <4>2. s # "ZERO"
        BY <4>1 DEF Dispatch, Inductive, TypeOK, OnlyRegistered, HandlersAfterLookup, Registered,
                    State
      <4> QED BY <4>1, <4>2 DEF Dispatch
    <3>5. CASE RunNull
      <4>1. PICK s \in State : Dispatch(s, "null")
        BY <3>5 DEF RunNull
      <4>2. s # "ZERO"
        BY <4>1 DEF Dispatch, Inductive, TypeOK, OnlyRegistered, HandlersAfterLookup, Registered,
                    State
      <4> QED BY <4>1, <4>2 DEF Dispatch
    <3> QED BY <2>5, <3>1, <3>2, <3>3, <3>4, <3>5 DEF run
  <2>6. CASE SetDataToPackage
    BY <2>0, <2>6 DEF SetDataToPackage, Package
  <2>7. CASE SetCommandsFromPackage
    BY <2>7 DEF SetCommandsFromPackage
  <2>8. CASE UNCHANGED vars
    BY <2>8 DEF vars
  <2> QED BY <2>1, <2>2, <2>3, <2>4, <2>5, <2>6, <2>7, <2>8 DEF Next
<1> QED BY <1>1, <1>2, InductiveHolds, PTL DEF Spec

(* Within one visit homing never moves the command away from the target    *)
(* and keeps its starting pose, for every duration and every pair of poses *)
(* (ZeroState.cpp:61-134).                                                 *)
THEOREM HomingNears ==
  ASSUME Requests \subseteq Registered
  PROVE  Spec => HomingApproaches
<1> DEFINE Nears ==
      (pc = "run" /\ CurrentState = "ZERO" /\ CurrentState' = "ZERO" /\ zero.t_Zero > 0)
        => Distance(data') <= Distance(data) /\ UNCHANGED zero.init_pose
<1>1. Inductive /\ OnTheWay /\ OnTheCubic /\ [Next]_vars => [Nears]_vars
  <2> SUFFICES ASSUME Inductive, OnTheWay, OnTheCubic, Next, pc = "run", CurrentState = "ZERO",
                      CurrentState' = "ZERO", zero.t_Zero > 0
               PROVE  Distance(data') <= Distance(data) /\ UNCHANGED zero.init_pose
    OBVIOUS
  <2>1. RunZero
    <3>1. run
      BY DEF Next, init, JoystickSetDataToPackage, GetStatesToPackage, GetDataFromPackage,
             SetDataToPackage, SetCommandsFromPackage
    <3>2. HandlersAfterLookup["ZERO"] \in {"created", "started"}
      BY DEF Inductive, TypeOK, HandlersAfterLookup, OnTheCubic
    <3> QED BY <3>1, <3>2 DEF run, RunRlWalk, RunSimpleExample, RunUnhandled, RunNull, Dispatch
  <2>2. /\ zero'.init_pose = zero.init_pose
        /\ zero'.t_Zero = IF zero.t_Zero < ClockTop THEN zero.t_Zero + 1 ELSE zero.t_Zero
    <3>1. ClockAdvances
      BY <2>1, HomingClock
    <3> QED BY <3>1 DEF ClockAdvances
  <2>3. data'.motor_Pos_desire
          = ThirdpolyVector(zero.init_pose, 0, ZeroPose, 0, zero'.t_Zero).pd
    <3>1. DataAfterExit \in Package
      BY ExitTypes DEF Inductive
    <3>2. data' = ZeroSetDataToPackage(zero', DataAfterExit)
      BY <2>1 DEF RunZero
    <3> QED BY <2>2, <3>1, <3>2 DEF ZeroSetDataToPackage, Package
  <2>4. data.motor_Pos_desire
          = ThirdpolyVector(zero.init_pose, 0, ZeroPose, 0, zero.t_Zero).pd
    BY DEF OnTheWay
  <2>5. zero.init_pose \in Int /\ zero.t_Zero \in Nat /\ data.motor_Pos_desire \in Int
    BY ZeroAssumption DEF Inductive, TypeOK, ZeroObject, ClockTop, Package
  <2>6. CASE zero.t_Zero < ClockTop
    <3>1. zero'.t_Zero = zero.t_Zero + 1
      BY <2>2, <2>6
    <3>2. Size(data'.motor_Pos_desire - ZeroPose * Scale)
            <= Size(data.motor_Pos_desire - ZeroPose * Scale)
      BY <2>3, <2>4, <2>5, <3>1, CubicApproaches
    <3> QED BY <2>2, <3>2 DEF Distance, Size
  <2>7. CASE ~ (zero.t_Zero < ClockTop)
    <3>1. data'.motor_Pos_desire = data.motor_Pos_desire
      BY <2>2, <2>3, <2>4, <2>7
    <3>2. Distance(data) \in Int
      BY <2>5, ZeroAssumption DEF Distance, Scale
    <3>3. Distance(data') = Distance(data)
      BY <3>1 DEF Distance
    <3> QED BY <2>2, <3>2, <3>3
  <2> QED BY <2>6, <2>7
<1> QED BY <1>1, OnTheWayHolds, OnTheCubicHolds, InductiveHolds, PTL DEF Spec, HomingApproaches

(***************************************************************************)
(* Homing arrives: the safety half of HomingSettles.                       *)
(***************************************************************************)

(* Once its time is over the cubic is at the target and at rest.           *)
LEMMA CubicArrives ==
  ASSUME NEW p0 \in Int, NEW c \in Nat, c >= ZeroTicks
  PROVE  /\ ThirdpolyVector(p0, 0, ZeroPose, 0, c).pd = ZeroPose * Scale
         /\ ThirdpolyVector(p0, 0, ZeroPose, 0, c).pd_dot = 0
<1>1. ZeroTicks \in Nat /\ ZeroPose \in Int /\ Scale \in Nat
  BY ZeroAssumption DEF Scale
<1>2. CASE c = ZeroTicks
  <2> DEFINE T == ZeroTicks
             m == ZeroPose - p0
  <2>1. ThirdpolyVector(p0, 0, ZeroPose, 0, c).pd = m * Blend(T, T) + p0 * (T * T * T)
    BY <1>1, <1>2, CubicPosition DEF Scale
  <2>2. ThirdpolyVector(p0, 0, ZeroPose, 0, c).pd_dot
          = 3 * (0 * T - 2 * (m - 0 * T)) * T * T
            + 2 * (T * (3 * (m - 0 * T) - 0 * T)) * T + 0 * Scale
    BY <1>1, <1>2 DEF ThirdpolyVector
  <2>3. m \in Int /\ T \in Nat /\ ZeroPose = m + p0
    BY <1>1
  <2>4. Scale = T * T * T
    BY DEF Scale
  <2> HIDE DEF m, T
  <2>5. m * Blend(T, T) + p0 * (T * T * T) = (m + p0) * (T * T * T)
    BY <2>3 DEF Blend
  <2>6. 3 * (0 * T - 2 * (m - 0 * T)) * T * T
          + 2 * (T * (3 * (m - 0 * T) - 0 * T)) * T + 0 * Scale = 0
    BY <1>1, <2>3
  <2> QED BY <2>1, <2>2, <2>3, <2>4, <2>5, <2>6
<1>3. CASE c > ZeroTicks
  <2>1. c \in Int /\ c # 0 /\ ~ (c < 0) /\ ~ (c <= ZeroTicks)
    BY <1>1, <1>3
  <2> QED BY <2>1 DEF ThirdpolyVector
<1> QED BY <1>1, <1>2, <1>3

(* A homing whose time is over commands the zero pose, at rest, with its   *)
(* own gains.                                                              *)
Arrived ==
  (CurrentState = "ZERO" /\ zero.t_Zero >= ZeroTicks) =>
    CommandOf(data) = [pos |-> ZeroPose * Scale, vel |-> 0, PD |-> "zero"]

(* And a visit's time passes: each run() counts one tick, from the first   *)
(* one of the visit on, and nothing else touches the clock.                *)
TimePasses ==
  /\ run /\ CurrentState' = "ZERO" =>
       zero'.t_Zero = IF CurrentState = "ZERO" /\ zero.t_Zero > 0
                        THEN IF zero.t_Zero < ClockTop THEN zero.t_Zero + 1 ELSE zero.t_Zero
                      ELSE 1
  /\ CurrentState = "ZERO" /\ ~ run => UNCHANGED <<CurrentState, zero>>

HomingArrives == []Arrived /\ [][TimePasses]_vars

LEMMA ArrivedHolds ==
  ASSUME Requests \subseteq Registered
  PROVE  Spec => []Arrived
<1>1. Init => Arrived
  BY ZeroAssumption DEF Init, Arrived, ZeroCtor
<1>2. Inductive /\ Inductive' /\ Arrived /\ [Next]_vars => Arrived'
  <2> SUFFICES ASSUME Inductive, Inductive', Arrived, [Next]_vars PROVE Arrived'
    OBVIOUS
  <2>0. data \in Package
    BY DEF Inductive, TypeOK
  <2> USE DEF Arrived, CommandOf
  <2>1. CASE init
    BY <2>1 DEF init
  <2>2. CASE JoystickSetDataToPackage
    BY <2>0, <2>2 DEF JoystickSetDataToPackage, Package
  <2>3. CASE GetStatesToPackage
    BY <2>0, <2>3 DEF GetStatesToPackage, Package
  <2>4. CASE GetDataFromPackage
    BY <2>4 DEF GetDataFromPackage
  <2>5. CASE run
    <3>1. CASE RunZero
      <4> SUFFICES ASSUME zero'.t_Zero >= ZeroTicks
                   PROVE  CommandOf(data)' = [pos |-> ZeroPose * Scale, vel |-> 0, PD |-> "zero"]
        OBVIOUS
      <4>1. DataAfterExit \in Package
        BY ExitTypes DEF Inductive
      <4>2. data' = ZeroSetDataToPackage(zero', DataAfterExit)
        BY <3>1 DEF RunZero
      <4>3. zero'.init_pose \in Int /\ zero'.t_Zero \in Nat
        BY ZeroAssumption DEF Inductive, TypeOK, ZeroObject, ClockTop
      <4> DEFINE point == ThirdpolyVector(zero'.init_pose, 0, ZeroPose, 0, zero'.t_Zero)
      <4>4. point.pd = ZeroPose * Scale /\ point.pd_dot = 0
        BY <4>3, CubicArrives
      <4>5. data' = [DataAfterExit EXCEPT !.If_first_Zero = zero'.If_first_Zero,
                       !.motor_Pos_desire = point.pd, !.motor_Vel_desire = point.pd_dot,
                       !.sim_PD = "zero", !.generalized_q_desired = point.pd]
        BY <4>2 DEF ZeroSetDataToPackage
      <4> HIDE DEF point
      <4>6. /\ data'.motor_Pos_desire = point.pd /\ data'.motor_Vel_desire = point.pd_dot
            /\ data'.sim_PD = "zero"
        BY <4>1, <4>5 DEF Package
      <4> QED BY <4>4, <4>6
    <3>2. CASE RunRlWalk
      BY <3>2 DEF RunRlWalk, Dispatch
    <3>3. CASE RunSimpleExample
      BY <3>3 DEF RunSimpleExample, Dispatch
    <3>4. CASE RunUnhandled \/ RunNull
      <4>1. PICK s \in State : Dispatch(s, "absent") \/ Dispatch(s, "null")
        BY <3>4 DEF RunUnhandled, RunNull
      <4>2. s # "ZERO"
        BY <4>1 DEF Dispatch, Inductive, TypeOK, OnlyRegistered, HandlersAfterLookup, Registered,
                    State
      <4> QED BY <4>1, <4>2 DEF Dispatch
    <3> QED BY <2>5, <3>1, <3>2, <3>3, <3>4 DEF run
  <2>6. CASE SetDataToPackage
    BY <2>0, <2>6 DEF SetDataToPackage, Package
  <2>7. CASE SetCommandsFromPackage
    BY <2>7 DEF SetCommandsFromPackage
  <2>8. CASE UNCHANGED vars
    BY <2>8 DEF vars
  <2> QED BY <2>1, <2>2, <2>3, <2>4, <2>5, <2>6, <2>7, <2>8 DEF Next
<1> QED BY <1>1, <1>2, InductiveHolds, PTL DEF Spec

(* A tick that comes into homing from another state, and the first one     *)
(* after start-up, starts the clock.                                       *)
LEMMA HomingStarts ==
  ASSUME Inductive, RunZero, ~ (CurrentState = "ZERO" /\ zero.t_Zero > 0)
  PROVE  zero'.t_Zero = 1
<1>1. data.If_first_Zero = TRUE
  <2>1. zero.t_Zero \in Nat /\ data.If_first_Zero \in BOOLEAN
    BY ZeroAssumption DEF Inductive, TypeOK, Package, ZeroObject, ClockTop
  <2> QED BY <2>1 DEF Inductive, HomingArmed
<1>2. Target = "ZERO"
  BY DEF RunZero, Dispatch
<1>3. DataAfterExit = data
  BY <1>2 DEF DataAfterExit, Exits
<1> DEFINE z == ZeroGetDataFromPackage(zero, data)
<1>4. z.If_first_Zero = TRUE /\ z \in ZeroObject
  BY <1>1 DEF ZeroGetDataFromPackage, ZeroObject, Package, Inductive, TypeOK
<1>5. zero' = ZeroAdvance(z)
  BY <1>3 DEF RunZero
<1> HIDE DEF z
<1> QED BY <1>4, <1>5, ZeroAssumption DEF ZeroAdvance, ZeroObject, ClockTop

(* If only registered states are asked for, the homing command is the zero *)
(* pose at rest after ZeroTicks ticks of a visit and from then on, for     *)
(* every duration and every pair of poses (ZeroState.cpp:61-134).          *)
THEOREM HomingComesHome ==
  ASSUME Requests \subseteq Registered
  PROVE  Spec => HomingArrives
<1>1. Inductive /\ Next => TimePasses
  <2> SUFFICES ASSUME Inductive, Next PROVE TimePasses
    OBVIOUS
  <2>1. CASE RunZero
    <3>1. run
      BY <2>1 DEF run
    <3>2. CASE CurrentState = "ZERO" /\ zero.t_Zero > 0
      <4>1. ClockAdvances
        BY <2>1, <3>2, HomingClock
      <4> QED BY <3>1, <3>2, <4>1 DEF ClockAdvances, TimePasses
    <3>3. CASE ~ (CurrentState = "ZERO" /\ zero.t_Zero > 0)
      <4>1. zero'.t_Zero = 1
        BY <2>1, <3>3, HomingStarts
      <4> QED BY <3>1, <3>3, <4>1 DEF TimePasses
    <3> QED BY <3>2, <3>3
  <2>2. CASE run /\ ~ RunZero
    <3>1. CurrentState' # "ZERO"
      <4>1. CASE RunRlWalk \/ RunSimpleExample
        BY <4>1 DEF RunRlWalk, RunSimpleExample, Dispatch
      <4>2. CASE RunUnhandled \/ RunNull
        <5>1. PICK s \in State : Dispatch(s, "absent") \/ Dispatch(s, "null")
          BY <4>2 DEF RunUnhandled, RunNull
        <5>2. s # "ZERO"
          BY <5>1 DEF Dispatch, Inductive, TypeOK, OnlyRegistered, HandlersAfterLookup,
                      Registered, State
        <5> QED BY <5>1, <5>2 DEF Dispatch
      <4> QED BY <2>2, <4>1, <4>2 DEF run
    <3> QED BY <2>2, <3>1 DEF TimePasses
  <2>3. CASE ~ run
    <3>1. UNCHANGED <<CurrentState, zero>>
      BY <2>3 DEF Next, init, JoystickSetDataToPackage, GetStatesToPackage, GetDataFromPackage,
             SetDataToPackage, SetCommandsFromPackage
    <3> QED BY <2>3, <3>1 DEF TimePasses
  <2> QED BY <2>1, <2>2, <2>3
<1>2. Inductive /\ [Next]_vars => [TimePasses]_vars
  BY <1>1
<1> QED BY <1>2, ArrivedHolds, InductiveHolds, PTL DEF Spec, HomingArrives

-----------------------------------------------------------------------------
(***************************************************************************)
(* The programs that try out the motors, for every number of steps, poses, *)
(* limit and number of motors (SelfTest).                                  *)
(***************************************************************************)

(* The quintic rises from 0 to Unit, and by no more in a step than in the  *)
(* steepest one, half way.                                                 *)
LEMMA ProductSign ==
  \A x, y \in Int : /\ (x >= 0 /\ y >= 0 => x * y >= 0)
                    /\ (x <= 0 /\ y >= 0 => x * y <= 0)
OBVIOUS

LEMMA FactorRange ==
  ASSUME Total \in Nat \ {0}, NEW s \in 0 .. Total
  PROVE  Factor(s) \in 0 .. Unit
<1> DEFINE b == Total - s
<1>1. s \in Nat /\ b \in Nat /\ Total = s + b
  OBVIOUS
<1> HIDE DEF b
<1>2. /\ s * s * s \in Nat /\ b * b * b \in Nat
      /\ s * s + 5 * s * b + 10 * b * b \in Nat
      /\ b * b + 5 * s * b + 10 * s * s \in Nat
  <2>1. s * s \in Nat /\ s * b \in Nat /\ b * b \in Nat
    BY <1>1, ProductSign
  <2>2. s * s * s \in Nat /\ b * b * b \in Nat
    BY <2>1, <1>1, ProductSign
  <2> QED BY <2>1, <2>2, <1>1
<1>3. Factor(s) = (s * s * s) * (s * s + 5 * s * b + 10 * b * b)
  BY <1>1 DEF Factor
<1>4. Unit - Factor(s) = (b * b * b) * (b * b + 5 * s * b + 10 * s * s)
  BY <1>1 DEF Factor, Unit
<1>5. Factor(s) \in Int /\ Unit \in Int
  BY <1>1 DEF Factor, Unit
<1>6. (s * s * s) * (s * s + 5 * s * b + 10 * b * b) >= 0
  BY <1>2, ProductSign
<1>7. (b * b * b) * (b * b + 5 * s * b + 10 * s * s) >= 0
  BY <1>2, ProductSign
<1> QED BY <1>3, <1>4, <1>5, <1>6, <1>7

LEMMA FactorEnds ==
  ASSUME Total \in Nat \ {0}
  PROVE  Factor(0) = 0 /\ Factor(Total) = Unit
BY DEF Factor, Unit

LEMMA FactorSlope ==
  ASSUME Total \in Nat \ {0}, NEW s \in 0 .. Total - 1
  PROVE  /\ Factor(s + 1) - Factor(s) >= 0
         /\ 8 * (Factor(s + 1) - Factor(s)) <= 15 * Total * Total * Total * Total
<1> DEFINE b == Total - 1 - s
           d == s - b
           rise == 30*s*s*b*b + 30*s*s*b + 10*s*s + 30*s*b*b + 20*s*b + 5*s + 10*b*b + 5*b + 1
           room == 15 * (d * d) * (Total * Total + (2 * s + 1) * (2 * b + 1) - 2)
                    + 10 * Total * Total - 3
<1>1. s \in Nat /\ b \in Nat /\ Total = s + b + 1
  OBVIOUS
<1>2. Factor(s + 1) - Factor(s) = rise
  <2> HIDE DEF b
  <2> QED BY <1>1 DEF Factor
<1>3. 15 * Total * Total * Total * Total - 8 * rise = room
  <2> HIDE DEF b
  <2> QED BY <1>1
<1>4. rise \in Nat
  <2> HIDE DEF b
  <2>1. s * s \in Nat /\ s * b \in Nat /\ b * b \in Nat
    BY <1>1, ProductSign
  <2>2. (s * s) * (b * b) \in Nat /\ (s * s) * b \in Nat /\ s * (b * b) \in Nat
    BY <2>1, <1>1, ProductSign
  <2>3. rise = 30 * ((s * s) * (b * b)) + 30 * ((s * s) * b) + 10 * (s * s)
                + 30 * (s * (b * b)) + 20 * (s * b) + 5 * s + 10 * (b * b) + 5 * b + 1
    BY <1>1
  <2> HIDE DEF rise
  <2> QED BY <2>1, <2>2, <2>3, <1>1
<1>5. room \in Nat
  <2> HIDE DEF b
  <2>1. s * s \in Nat /\ s * b \in Nat /\ b * b \in Nat
    BY <1>1, ProductSign
  <2>2. d * d \in Nat
    <3>1. d \in Int
      BY <1>1
    <3> HIDE DEF d
    <3> QED BY <3>1
  <2>3. Total * Total >= 1 /\ Total * Total \in Nat
    <3>1. Total * Total = s * s + 2 * (s * b) + b * b + 2 * s + 2 * b + 1
      BY <1>1
    <3> QED BY <3>1, <2>1, <1>1
  <2>4. (2 * s + 1) * (2 * b + 1) = 4 * (s * b) + 2 * s + 2 * b + 1
    BY <1>1
  <2> DEFINE p == Total * Total + (2 * s + 1) * (2 * b + 1) - 2
  <2>5. p \in Nat
    BY <1>1, <2>1, <2>3, <2>4
  <2>6. (d * d) * p \in Nat
    <3> HIDE DEF d, p
    <3> QED BY <2>2, <2>5, ProductSign
  <2>7. room = 15 * ((d * d) * p) + 10 * (Total * Total) - 3
    <3>1. 15 * (d * d) * p = 15 * ((d * d) * p)
      <4> HIDE DEF d, p
      <4> QED BY <2>2, <2>5
    <3>2. 10 * Total * Total = 10 * (Total * Total)
      OBVIOUS
    <3> QED BY <3>1, <3>2
  <2> HIDE DEF d, p, room
  <2> QED BY <2>3, <2>6, <2>7
<1> HIDE DEF rise, room, b
<1>6. 15 * Total * Total * Total * Total \in Int
  OBVIOUS
<1> QED BY <1>2, <1>3, <1>4, <1>5, <1>6

-----------------------------------------------------------------------------
(* Between two calls of a program that tries out the motors.               *)
Moving ==
  /\ call \in {"check", "start", "moving"} => enabled
  /\ call \in {"start", "moving"} => WithinLimit
  /\ call = "moving" =>
       /\ start_pos = pose /\ step \in 0 .. Total
       /\ cmd = IF step = 0 THEN NoCommand ELSE Interpolate(step - 1)
  /\ cmd # NoCommand =>
       /\ call \in {"moving", "exit"} /\ enabled /\ WithinLimit
       /\ \E s \in 0 .. Total : /\ cmd = Interpolate(s)
                                /\ call = "exit" => s = Total

Tuning ==
  /\ call = "gains" => index < Motors /\ \A m \in 0 .. index - 1 : gains[m] = "init"
  /\ call \in {"enable_all", "change"} => \A m \in 0 .. Motors - 1 : gains[m] = "init"
  /\ call = "change" => enabled
  /\ call \in {"read", "enable", "check", "start", "moving"} => index = 0
  /\ call = "gains" => ~enabled
  /\ (enabled /\ index > 0) => \A m \in 0 .. Motors - 1 : gains[m] # "boot"
  /\ result = "success" =>
       /\ call = "exit"
       /\ \/ cmd # NoCommand
          \/ \A m \in 0 .. Motors - 1 : gains[m] = IF m = target_index THEN "new" ELSE "init"
  /\ target_index \in 0 .. Motors - 1

TestInductive == TestTypeOK /\ Moving /\ Tuning

(* A command of the move is a number.                                      *)
LEMMA InterpolateType ==
  ASSUME TestTypeOK, NEW s \in 0 .. Total
  PROVE  /\ Interpolate(s) \in Int /\ Interpolate(s) # NoCommand
         /\ start_pos \in Int /\ zero_pos \in Int /\ pose \in Int
         /\ Factor(s) \in 0 .. Unit /\ Unit \in Nat
         /\ Interpolate(s) = start_pos * Unit + Factor(s) * (zero_pos - start_pos)
<1>1. start_pos \in Int /\ zero_pos \in Int /\ pose \in Int
  BY SelfTestAssumption DEF TestTypeOK
<1>2. Unit \in Int
  BY SelfTestAssumption DEF Unit
<1>3. Factor(s) \in 0 .. Unit
  BY FactorRange, SelfTestAssumption
<1>4. Interpolate(s) \in Int
  BY <1>1, <1>2, <1>3 DEF Interpolate
<1> QED BY <1>1, <1>2, <1>3, <1>4, SelfTestAssumption DEF Interpolate

LEMMA TestBegins ==
  ASSUME TestInit
  PROVE  TestInductive
<1>1. TestTypeOK
  <2>1. gains \in [0 .. Motors - 1 -> {"boot", "init", "new"}]
    BY DEF TestInit
  <2>2. step \in 0 .. Total + 1 /\ index \in 0 .. Motors
    BY SelfTestAssumption DEF TestInit
  <2>3. enabled \in BOOLEAN
    BY DEF TestInit
  <2> QED BY <2>1, <2>2, <2>3 DEF TestInit, TestTypeOK
<1>2. Moving
  BY DEF TestInit, Moving
<1>3. Tuning
  BY SelfTestAssumption DEF TestInit, Tuning
<1> QED BY <1>1, <1>2, <1>3 DEF TestInductive

LEMMA TestStep ==
  ASSUME TestInductive, [TestNext]_test_vars
  PROVE  TestInductive'
<1> USE SelfTestAssumption DEF TestInductive, Moving, Tuning, TestTypeOK, WithinLimit, move,
            tune, GoTo, Exit
<1>1. CASE Sag
  BY <1>1 DEF Sag, Interpolate
<1>2. CASE Read
  BY <1>2 DEF Read, Interpolate
<1>3. CASE Enable("enable", "check")
  BY <1>3 DEF Enable, Interpolate
<1>4. CASE Check
  BY <1>4 DEF Check, Interpolate
<1>5. CASE Start
  BY <1>5 DEF Start, Interpolate
<1>6. CASE MoveStep
  <2>1. /\ call = "moving" /\ step \in 0 .. Total /\ start_pos = pose /\ WithinLimit /\ enabled
        /\ cmd' = Interpolate(step) /\ step' = step + 1
        /\ UNCHANGED <<zero_pos, pose, initial_pos, start_pos, enabled, index, target_index, gains>>
    BY <1>6 DEF MoveStep
  <2>2. Interpolate(step) \in Int /\ Interpolate(step) # NoCommand
    BY <2>1, InterpolateType
  <2>3. Interpolate(step - 1)' = Interpolate(step)
    BY <2>1 DEF Interpolate, Factor, Unit
  <2>4. step' \in 1 .. Total + 1 /\ cmd' # NoCommand /\ cmd' \in Int
    BY <2>1, <2>2
  <2>5. \E s \in 0 .. Total : cmd' = Interpolate(s)' /\ s = step
    BY <2>1 DEF Interpolate
  <2>6. TestTypeOK'
    BY <1>6, <2>1, <2>4 DEF MoveStep
  <2>7. CASE step < Total
    <3>1. call' = "moving" /\ result' = result
      BY <1>6, <2>7 DEF MoveStep
    <3>2. step' \in 0 .. Total /\ step' # 0
      BY <2>1, <2>7
    <3>3. cmd' = Interpolate(step - 1)'
      BY <2>1, <2>3
    <3>4. Moving'
      BY <2>1, <2>4, <2>5, <3>1, <3>2, <3>3
    <3>5. Tuning'
      BY <2>1, <3>1
    <3> QED BY <2>6, <3>4, <3>5
  <2>8. CASE step = Total
    <3>1. call' = "exit" /\ result' = "success"
      BY <1>6, <2>8 DEF MoveStep
    <3> QED BY <1>6, <2>1, <2>3, <2>4, <2>5, <2>6, <2>8, <3>1
  <2> QED BY <2>1, <2>7, <2>8
<1>7. CASE InitialGains
  BY <1>7 DEF InitialGains, SetPD
<1>8. CASE Enable("enable_all", "change")
  BY <1>8 DEF Enable
<1>9. CASE NewGains
  BY <1>9 DEF NewGains, SetPD
<1>10. CASE UNCHANGED test_vars
  BY <1>10 DEF test_vars, Interpolate
<1> QED BY <1>1, <1>2, <1>3, <1>4, <1>5, <1>6, <1>7, <1>8, <1>9, <1>10 DEF TestNext

LEMMA TestAlways == TestSpec => []TestInductive
<1>1. TestInit => TestInductive
  BY TestBegins
<1>2. TestInductive /\ [TestNext]_test_vars => TestInductive'
  BY TestStep
<1> QED BY <1>1, <1>2, PTL DEF TestSpec

(* Every variable of the two programs keeps its range.                     *)
THEOREM TestTypeCorrect == TestSpec => []TestTypeOK
<1>1. TestInductive => TestTypeOK
  BY DEF TestInductive
<1> QED BY <1>1, TestAlways, PTL

(* A move stays between where it began and the pose it goes to, and ends   *)
(* there (motor_control.cpp:53-63, 127-145).                               *)
THEOREM TestMovesToZero == TestSpec => []MovesToZero
<1>1. ASSUME TestInductive PROVE MovesToZero
  <2> SUFFICES ASSUME cmd # NoCommand
               PROVE  /\ enabled /\ Abs(zero_pos) <= Limit
                      /\ Abs(cmd - start_pos * Unit)
                           + Abs(zero_pos * Unit - cmd)
                         = Unit * Abs(zero_pos - start_pos)
                      /\ call = "exit" => cmd = zero_pos * Unit
    BY DEF MovesToZero
  <2>1. PICK s \in 0 .. Total : cmd = Interpolate(s) /\ (call = "exit" => s = Total)
    BY <1>1 DEF TestInductive, Moving
  <2> DEFINE U == Unit
             F == Factor(s)
             d == zero_pos - start_pos
             rest == U - F
  <2>2. /\ start_pos \in Int /\ zero_pos \in Int /\ F \in 0 .. U /\ U \in Nat
        /\ cmd = start_pos * U + F * d
    BY <1>1, <2>1, InterpolateType DEF TestInductive
  <2>3. enabled /\ Abs(zero_pos) <= Limit
    BY <1>1, <2>2 DEF TestInductive, Moving, WithinLimit, Abs
  <2>4. d \in Int /\ F \in Nat /\ rest \in Nat
    BY <2>2
  <2>5. cmd - start_pos * U = F * d /\ zero_pos * U - cmd = rest * d
    <3> HIDE DEF U, F
    <3> QED BY <2>2, <2>4
  <2>6. Abs(F * d) + Abs(rest * d) = U * Abs(d)
    <3>1. F * d + rest * d = U * d /\ F * d \in Int /\ rest * d \in Int /\ U * d \in Int
      <4> HIDE DEF U, F, d
      <4> QED BY <2>2, <2>4
    <3>2. F * d = d * F /\ rest * d = d * rest
      <4> HIDE DEF U, F, d, rest
      <4> QED BY <2>4
    <3>3. U * (-d) = -(U * d)
      <4> HIDE DEF U, F, d, rest
      <4> QED BY <2>2, <2>4
    <3> HIDE DEF U, F, d, rest
    <3>4. CASE d >= 0
      <4>1. F * d >= 0 /\ rest * d >= 0
        BY <2>4, <3>2, <3>4, ProductSign
      <4> QED BY <2>4, <3>1, <3>4, <4>1 DEF Abs
    <3>5. CASE d < 0
      <4>1. F * d <= 0 /\ rest * d <= 0
        BY <2>4, <3>2, <3>5, ProductSign
      <4>2. Abs(d) = -d
        BY <3>5 DEF Abs
      <4>3. Abs(F * d) = -(F * d) /\ Abs(rest * d) = -(rest * d)
        BY <3>1, <4>1 DEF Abs
      <4>4. U * Abs(d) = -(U * d)
        BY <3>3, <4>2
      <4> DEFINE x == F * d
                 y == rest * d
                 z == U * d
      <4>5. /\ x + y = z /\ x \in Int /\ y \in Int /\ z \in Int
            /\ Abs(x) = -x /\ Abs(y) = -y /\ U * Abs(d) = -z
        BY <3>1, <4>3, <4>4
      <4> HIDE DEF x, y, z
      <4>6. Abs(x) + Abs(y) = U * Abs(d)
        BY <4>5
      <4> QED BY <4>6 DEF x, y
    <3> QED BY <2>4, <3>4, <3>5
  <2>7. call = "exit" => cmd = zero_pos * U
    <3> SUFFICES ASSUME call = "exit" PROVE cmd = zero_pos * U
      OBVIOUS
    <3>1. F = U
      BY <1>1, <2>1, FactorEnds, SelfTestAssumption
    <3> HIDE DEF U, F
    <3> QED BY <2>2, <3>1
  <2> QED BY <2>3, <2>5, <2>6, <2>7
<1> QED BY <1>1, TestAlways, PTL

(* No motor is enabled before all have their gains, and after a success    *)
(* the one chosen, and no other, has the new ones (pd_control.cpp:44-104). *)
THEOREM TestGainsAsAsked == TestSpec => []GainsAsAsked
<1>1. TestInductive => GainsAsAsked
  BY DEF TestInductive, Tuning, TestTypeOK, GainsAsAsked
<1> QED BY <1>1, TestAlways, PTL

(* The first command is where the joint is and none is further from the    *)
(* one before than the quintic's steepest step (motor_control.cpp:17-35).  *)
THEOREM TestNeverJumps == TestSpec => NeverJumps
<1> DEFINE Bounded ==
             cmd' # cmd =>
               IF cmd = NoCommand THEN cmd' = pose * Unit
               ELSE Abs(cmd' - cmd) * 8 * Total
                      <= 15 * Unit * Abs(zero_pos - start_pos)
<1>1. ASSUME TestInductive, [TestNext]_test_vars PROVE Bounded
  <2> SUFFICES ASSUME cmd' # cmd PROVE Bounded
    OBVIOUS
  <2>1. MoveStep
    BY <1>1 DEF TestNext, test_vars, move, Sag, Read, Enable, Check,
                Start, InitialGains, NewGains
  <2>2. /\ step \in 0 .. Total /\ start_pos = pose /\ cmd' = Interpolate(step)
        /\ cmd = IF step = 0 THEN NoCommand ELSE Interpolate(step - 1)
    BY <1>1, <2>1 DEF MoveStep, TestInductive, Moving
  <2> DEFINE U == Unit
             d == zero_pos - start_pos
  <2>3. /\ start_pos \in Int /\ zero_pos \in Int /\ U \in Nat
        /\ cmd' = start_pos * U + Factor(step) * d
        /\ Factor(step) \in Nat /\ d \in Int
    BY <1>1, <2>2, InterpolateType DEF TestInductive
  <2>4. CASE step = 0
    <3>1. Factor(step) * d = 0
      BY <2>3, <2>4, FactorEnds, SelfTestAssumption
    <3> HIDE DEF U, d
    <3>2. cmd' = pose * U
      BY <2>2, <2>3, <3>1
    <3> QED BY <2>2, <2>4, <3>2 DEF U
  <2>5. CASE step # 0
    <3> DEFINE s == step - 1
               rise == Factor(step) - Factor(s)
    <3>1. s \in 0 .. Total - 1 /\ s \in 0 .. Total /\ s + 1 = step
      BY <2>2, <2>5, SelfTestAssumption
    <3>2. /\ cmd = start_pos * U + Factor(s) * d /\ Factor(s) \in Nat
          /\ cmd # NoCommand
      <4> HIDE DEF s
      <4>1. cmd = Interpolate(s)
        BY <2>2, <2>5 DEF s
      <4> QED BY <1>1, <3>1, <4>1, InterpolateType DEF TestInductive
    <3>3. rise >= 0 /\ 8 * rise <= 15 * Total * Total * Total * Total
      <4> HIDE DEF s
      <4>1. Total \in Nat \ {0}
        BY SelfTestAssumption
      <4>2. /\ Factor(s + 1) - Factor(s) >= 0
            /\ 8 * (Factor(s + 1) - Factor(s)) <= 15 * Total * Total * Total * Total
        BY <3>1, <4>1, FactorSlope
      <4> QED BY <3>1, <4>2
    <3>4. cmd' - cmd = rise * d /\ rise \in Nat
      <4> HIDE DEF s, U, d
      <4> QED BY <2>3, <3>2, <3>3
    <3>5. Abs(rise * d) = rise * Abs(d) /\ Abs(d) \in Nat
      <4> HIDE DEF rise, d
      <4>1. rise * d = d * rise /\ rise * d \in Int /\ rise * (-d) = -(rise * d)
        BY <2>3, <3>4
      <4>2. (d >= 0 => rise * d >= 0) /\ (d < 0 => rise * d <= 0)
        BY <2>3, <3>4, <4>1, ProductSign
      <4>3. d = 0 => rise * d = 0
        BY <2>3, <3>4
      <4> QED BY <2>3, <3>4, <4>1, <4>2, <4>3 DEF Abs
    <3>6. rise * Abs(d) * 8 * Total <= 15 * U * Abs(d)
      <4> DEFINE p == Abs(d) * Total
                 slack == 15 * Total * Total * Total * Total - 8 * rise
      <4>1. Total \in Nat
        BY SelfTestAssumption
      <4>2. p \in Nat
        <5> HIDE DEF d
        <5> QED BY <3>5, <4>1, ProductSign
      <4>3. slack \in Nat
        <5> HIDE DEF rise
        <5> QED BY <3>3, <3>4, <4>1
      <4>4. p * slack >= 0
        <5> HIDE DEF p, slack
        <5> QED BY <4>2, <4>3, ProductSign
      <4>5. 15 * U * Abs(d) - rise * Abs(d) * 8 * Total = p * slack
        <5>1. U = Total * Total * Total * Total * Total
          BY DEF Unit
        <5> HIDE DEF rise, d, U
        <5> QED BY <3>4, <3>5, <4>1, <5>1
      <4>6. 15 * U * Abs(d) \in Int /\ rise * Abs(d) * 8 * Total \in Int
        <5> HIDE DEF rise, d, U
        <5> QED BY <2>3, <3>4, <3>5, <4>1
      <4> HIDE DEF rise, d, U, p, slack
      <4> QED BY <4>4, <4>5, <4>6
    <3> QED BY <3>2, <3>4, <3>5, <3>6
  <2> QED BY <2>4, <2>5
<1>2. NeverJumps <=> [][Bounded]_test_vars
  BY DEF NeverJumps
<1> QED BY <1>1, <1>2, TestAlways, PTL DEF TestSpec
=============================================================================
