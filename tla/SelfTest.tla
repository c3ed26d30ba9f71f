------------------------------ MODULE SelfTest ------------------------------
(***************************************************************************)
(* The two programs that try out the motors.  motor_control.cpp moves them *)
(* from where they are to a pose; pd_control.cpp gives every motor its     *)
(* gains, enables them and changes those of one.                           *)
(*                                                                         *)
(* One joint stands for all in a move.  Positions and the quintic are      *)
(* exact: a command is counted in units of Unit, that is total_steps ^ 5,  *)
(* to the unit a pose is counted in.                                       *)
(***************************************************************************)
EXTENDS Integers

CONSTANTS
  Total,     (* total_steps                                                *)
  Angles,    (* where a joint may be, and be told to go                    *)
  Limit,     (* what check_zero_position accepts, one radian               *)
  Motors,    (* number of motors, numbered from 0                          *)
  NoCommand  (* stands for a joint that was sent none                      *)

ASSUME SelfTestAssumption ==
  /\ Total \in Nat \ {0} /\ Angles \subseteq Int /\ Limit \in Nat /\ Motors \in Nat \ {0}
  /\ NoCommand \notin Int

VARIABLES
  call,        (* the next call; "moving" and "gains" are loops            *)
  zero_pos,    (* the pose to go to                                        *)
  pose,        (* where the joint is                                       *)
  initial_pos, start_pos, step,
  cmd,         (* the last command                                         *)
  enabled,
  index, target_index,
  gains,       (* of each motor: "boot", "init" or "new"                   *)
  result       (* the exit status, "none" while it runs                    *)

move == <<zero_pos, pose, initial_pos, start_pos, step, cmd>>
tune == <<index, target_index, gains>>
test_vars == <<call, move, enabled, tune, result>>

Unit == Total * Total * Total * Total * Total

TestInit ==
  /\ call \in {"read", "gains"}
  /\ zero_pos \in Angles /\ pose \in Angles /\ initial_pos = 0 /\ start_pos = 0 /\ step = 0
  /\ cmd = NoCommand /\ enabled = FALSE
  /\ index = 0 /\ target_index \in 0 .. Motors - 1
  /\ gains = [m \in 0 .. Motors - 1 |-> "boot"] /\ result = "none"

(* The joint gives way as long as nothing commands it.                     *)
Sag ==
  /\ call \in {"read", "enable", "check", "start"}
  /\ pose' \in Angles
  /\ UNCHANGED <<call, zero_pos, initial_pos, start_pos, step, cmd, enabled, tune, result>>

GoTo(next) == call' = next /\ UNCHANGED result
Exit(status) == call' = "exit" /\ result' = status

-----------------------------------------------------------------------------
(* motor_control.cpp                                                       *)
Read ==
  /\ call = "read"
  /\ GoTo("enable")
  /\ initial_pos' = pose
  /\ UNCHANGED <<zero_pos, pose, start_pos, step, cmd, enabled, tune>>

Enable(from, to) ==
  /\ call = from
  /\ \/ GoTo(to) /\ enabled' = TRUE
     \/ Exit("failure") /\ UNCHANGED enabled
  /\ UNCHANGED <<move, tune>>

(* Mutant: the sign is forgotten.                                          *)
WithinLimitSigned == zero_pos <= Limit

(* check_zero_position                                                     *)
WithinLimit == zero_pos <= Limit /\ -zero_pos <= Limit

Check ==
  /\ call = "check"
  /\ IF WithinLimit THEN GoTo("start") ELSE Exit("failure")
  /\ UNCHANGED <<move, enabled, tune>>

(* Mutant: the move begins where the joint was before it was enabled.      *)
StartStale ==
  /\ call = "start"
  /\ GoTo("moving")
  /\ start_pos' = initial_pos /\ step' = 0
  /\ UNCHANGED <<zero_pos, pose, initial_pos, cmd, enabled, tune>>

(* move_to_zero_smooth reads the positions again.                          *)
Start ==
  /\ call = "start"
  /\ GoTo("moving")
  /\ start_pos' = pose /\ step' = 0
  /\ UNCHANGED <<zero_pos, pose, initial_pos, cmd, enabled, tune>>

Factor(s) == s * s * s * (6 * s * s - 15 * s * Total + 10 * Total * Total)

Interpolate(s) == start_pos * Unit + Factor(s) * (zero_pos - start_pos)

MoveStep ==
  /\ call = "moving"
  /\ cmd' = Interpolate(step) /\ step' = step + 1
  /\ IF step < Total THEN UNCHANGED <<call, result>> ELSE Exit("success")
  /\ UNCHANGED <<zero_pos, pose, initial_pos, start_pos, enabled, tune>>

-----------------------------------------------------------------------------
(* pd_control.cpp                                                          *)
SetPD(m, g) == gains' = [gains EXCEPT ![m] = g]

(* Mutant: one motor more than there are.                                  *)
InitialGainsPast ==
  /\ call = "gains"
  /\ \/ /\ SetPD(index, "init")
        /\ index' = index + 1
        /\ IF index' <= Motors THEN UNCHANGED <<call, result>> ELSE GoTo("enable_all")
     \/ Exit("failure") /\ UNCHANGED <<index, gains>>
  /\ UNCHANGED <<move, enabled, target_index>>

(* Mutant: the motors are enabled with the first gains.                    *)
InitialGainsEnabling ==
  /\ call = "gains"
  /\ \/ /\ SetPD(index, "init") /\ enabled' = TRUE
        /\ index' = index + 1
        /\ IF index' < Motors THEN UNCHANGED <<call, result>> ELSE GoTo("enable_all")
     \/ Exit("failure") /\ UNCHANGED <<enabled, index, gains>>
  /\ UNCHANGED <<move, target_index>>

InitialGains ==
  /\ call = "gains"
  /\ \/ /\ SetPD(index, "init")
        /\ index' = index + 1
        /\ IF index' < Motors THEN UNCHANGED <<call, result>> ELSE GoTo("enable_all")
     \/ Exit("failure") /\ UNCHANGED <<index, gains>>
  /\ UNCHANGED <<move, enabled, target_index>>

(* Mutant: the motors are counted from one.                                *)
NewGainsFromOne ==
  /\ call = "change"
  /\ \/ Exit("failure") /\ UNCHANGED gains
     \/ /\ \/ Exit("success")
           \/ Exit("failure")
        /\ SetPD((target_index + 1) % Motors, "new")
  /\ UNCHANGED <<move, enabled, index, target_index>>

(* The gains are read, set and read again; each may fail.                  *)
NewGains ==
  /\ call = "change"
  /\ \/ Exit("failure") /\ UNCHANGED gains
     \/ /\ Exit("success") \/ Exit("failure")
        /\ SetPD(target_index, "new")
  /\ UNCHANGED <<move, enabled, index, target_index>>

TestNext ==
  \/ Sag
  \/ Read \/ Enable("enable", "check") \/ Check \/ Start \/ MoveStep
  \/ InitialGains \/ Enable("enable_all", "change") \/ NewGains

TestSpec == TestInit /\ [][TestNext]_test_vars

-----------------------------------------------------------------------------
(* Every variable keeps its range.                                         *)
TestTypeOK ==
  /\ call \in {"read", "enable", "check", "start", "moving", "gains", "enable_all", "change",
             "exit"}
  /\ zero_pos \in Angles /\ pose \in Angles
  /\ initial_pos \in Angles \cup {0} /\ start_pos \in Angles \cup {0}
  /\ step \in 0 .. Total + 1 /\ index \in 0 .. Motors
  /\ cmd \in Int \cup {NoCommand} /\ enabled \in BOOLEAN
  /\ gains \in [0 .. Motors - 1 -> {"boot", "init", "new"}]

Abs(n) == IF n < 0 THEN -n ELSE n

(* The joint is never asked to jump: the first command is where it is, and *)
(* no later one is further from the one before than the steepest part of   *)
(* the quintic (motor_control.cpp:17-35, 123-131).                         *)
NeverJumps ==
  [][cmd' # cmd =>
       IF cmd = NoCommand THEN cmd' = pose * Unit
       ELSE Abs(cmd' - cmd) * 8 * Total <= 15 * Unit * Abs(zero_pos - start_pos)]_test_vars

(* Every command lies between where the move began and where it goes, a    *)
(* pose within the limit, and the last one is that pose                    *)
(* (motor_control.cpp:53-63, 127-145).                                     *)
MovesToZero ==
  cmd # NoCommand =>
    /\ enabled /\ Abs(zero_pos) <= Limit
    /\ Abs(cmd - start_pos * Unit) + Abs(zero_pos * Unit - cmd)
         = Unit * Abs(zero_pos - start_pos)
    /\ call = "exit" => cmd = zero_pos * Unit

(* No motor is enabled before all have their gains, wherever the program   *)
(* leaves, and after a success the one chosen, and no other, has the new   *)
(* ones (pd_control.cpp:44-104).                                           *)
GainsAsAsked ==
  /\ (enabled /\ (call = "gains" \/ index > 0)) => \A m \in DOMAIN gains : gains[m] # "boot"
  /\ call = "change" => enabled /\ \A m \in DOMAIN gains : gains[m] = "init"
  /\ (result = "success" /\ cmd = NoCommand) =>
       \A m \in DOMAIN gains : gains[m] = IF m = target_index THEN "new" ELSE "init"
=============================================================================
