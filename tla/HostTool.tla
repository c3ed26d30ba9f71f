------------------------------ MODULE HostTool ------------------------------
(***************************************************************************)
(* hihost between its starts: main() takes the settings the last probe     *)
(* left in a file, "probe" looks for the device and leaves them, "write"   *)
(* sends it the commands of a file.  The user may kill a command, plug the *)
(* device in elsewhere and change its baud rate at any moment.             *)
(*                                                                         *)
(* A place is a port at a baud rate, and places are probed in the order of *)
(* their numbers.  One request is a step, the one in which it returns: it  *)
(* was answered, or other bytes filled its buffer, or the port is gone.    *)
(* It may as well never return (SerialPort), which is why no fairness is   *)
(* asked of these steps.                                                   *)
(***************************************************************************)
EXTENDS Integers

CONSTANTS
  Last,          (* every port listed at every baud rate, counted          *)
  Supported,     (* the places whose baud rate baud_map knows              *)
  MaxAttempts,   (* MAX_ATTEMPTS                                           *)
  Lines          (* commands in the file that is written                   *)

Places == 1 .. Last
None == 0

(* AT+EOUT=0, AT+INFO and AT+EOUT=1 of a probe; AT+EOUT=0 and the commands *)
(* of a file.                                                              *)
Requests == {"quiet", "ask", "resume", "hush", "write"}

ASSUME ToolAssumption ==
  /\ Last \in Nat \ {0} /\ Supported \subseteq Places
  /\ MaxAttempts \in Nat \ {0} /\ Lines \in Nat \ {0}

VARIABLES
  settings,      (* TMP_CONFIG_FILE                                        *)
  pc,            (* what the tool is at: the shell, the next place, one of *)
                 (* the requests, or emptying and writing the settings     *)
  at,            (* the place probed, found or written to                  *)
  attempt,
  fds,           (* open descriptors                                       *)
  line,          (* commands sent                                          *)
  result,        (* "none", 0 or -1 of the last command that ended         *)
  device,        (* where the device is                                    *)
  asked,         (* history: requests to each place in this probe          *)
  shut,          (* history: places that could not be opened in this probe *)
  unanswered,    (* history: a command was not answered                    *)
  moved,         (* history: the device left the place of the settings     *)
  movedSince     (* history: the device moved since this probe found it    *)

probing == <<asked, shut>>
vars == <<settings, pc, at, attempt, fds, line, result, device, probing, unanswered,
          moved, movedSince>>

NoResult == -2

Init ==
  /\ settings = None /\ pc = "shell" /\ at = None /\ attempt = 0 /\ fds = 0 /\ line = 0
  /\ result = NoResult /\ device \in Places
  /\ asked = [p \in Places |-> 0] /\ shut = {}
  /\ unanswered = FALSE /\ moved = FALSE /\ movedSince = FALSE

-----------------------------------------------------------------------------
(* The user.                                                               *)
Move(p) ==
  /\ p # device
  /\ device' = p /\ moved' = TRUE /\ movedSince' = TRUE
  /\ UNCHANGED <<settings, pc, at, attempt, fds, line, result, probing, unanswered>>

Kill ==
  /\ pc # "shell"
  /\ pc' = "shell" /\ fds' = 0 /\ result' = NoResult
  /\ UNCHANGED <<settings, at, attempt, line, device, probing, unanswered, moved, movedSince>>

Return(r) ==
  /\ pc' = "shell" /\ result' = r

-----------------------------------------------------------------------------
(* cmd_probe.                                                              *)
Probe ==
  /\ pc = "shell"
  /\ pc' = "next" /\ at' = 1 /\ result' = NoResult
  /\ asked' = [p \in Places |-> 0] /\ shut' = {} /\ line' = 0 /\ unanswered' = FALSE
  /\ UNCHANGED <<settings, attempt, fds, device, moved, movedSince>>

(* Mutant: a port that cannot be configured is not closed.                 *)
SkipOpen ==
  /\ pc = "next" /\ at \in Places
  /\ shut' = shut \cup {at}
  /\ at' = at + 1 /\ fds' = fds + 1
  /\ UNCHANGED <<settings, pc, attempt, line, result, device, asked, unanswered, moved, movedSince>>

(* The port cannot be opened, or the driver refuses: closed again.         *)
Skip ==
  /\ pc = "next" /\ at \in Places
  /\ shut' = shut \cup {at}
  /\ at' = at + 1
  /\ UNCHANGED <<settings, pc, attempt, fds, line, result, device, asked, unanswered,
                 moved, movedSince>>

(* It opens, and serial_port_configure does not know the baud rate.        *)
SkipUnknown ==
  /\ pc = "next" /\ at \in Places \ Supported
  /\ at' = at + 1
  /\ UNCHANGED <<settings, pc, attempt, fds, line, result, device, probing, unanswered,
                 moved, movedSince>>

Open ==
  /\ pc = "next" /\ at \in Supported
  /\ pc' = "quiet" /\ attempt' = 0 /\ fds' = fds + 1
  /\ UNCHANGED <<settings, at, line, result, device, probing, unanswered, moved, movedSince>>

(* The first request of an attempt returns; what it returns is not used.   *)
Quieted ==
  /\ pc = "quiet"
  /\ pc' = "ask"
  /\ UNCHANGED <<settings, at, attempt, fds, line, result, device, probing, unanswered,
                 moved, movedSince>>

Request ==
  /\ pc = "ask"
  /\ asked' = [asked EXCEPT ![at] = @ + 1]
  /\ UNCHANGED <<settings, line, result, device, shut, unanswered, moved>>

(* Mutant: the next place is counted before the place found is noted.      *)
FoundNext ==
  /\ Request
  /\ device = at
  /\ pc' = "resume" /\ movedSince' = FALSE
  /\ at' = IF at + 1 \in Places THEN at + 1 ELSE at
  /\ UNCHANGED <<attempt, fds>>

(* An answer with OK: the place is noted.                                  *)
Found ==
  /\ Request
  /\ device = at
  /\ pc' = "resume" /\ movedSince' = FALSE
  /\ UNCHANGED <<at, attempt, fds>>

(* Mutant: the attempts of the last place count.                           *)
NoOKOnce ==
  /\ Request
  /\ attempt' = attempt + 1
  /\ pc' = "next" /\ at' = at + 1 /\ fds' = fds - 1
  /\ UNCHANGED movedSince

(* What has come back holds no OK, although the device may be here.        *)
NoOK ==
  /\ Request
  /\ attempt' = attempt + 1
  /\ IF attempt' < MaxAttempts THEN pc' = "quiet" /\ UNCHANGED <<at, fds>>
     ELSE pc' = "next" /\ at' = at + 1 /\ fds' = fds - 1
  /\ UNCHANGED movedSince

(* The output is back on, or that request failed; the port is closed.      *)
Resumed ==
  /\ pc = "resume"
  /\ pc' = "save" /\ fds' = fds - 1
  /\ UNCHANGED <<settings, at, attempt, line, result, device, probing, unanswered, moved,
                 movedSince>>

(* Mutant: after the last place it starts over.                            *)
GiveUpNever ==
  /\ pc = "next" /\ at \notin Places
  /\ at' = 1 /\ asked' = [p \in Places |-> 0] /\ shut' = {}
  /\ UNCHANGED <<settings, pc, attempt, fds, line, result, device, unanswered, moved, movedSince>>

GiveUp ==
  /\ pc = "next" /\ at \notin Places
  /\ Return(-1)
  /\ UNCHANGED <<settings, at, attempt, fds, line, device, probing, unanswered, moved, movedSince>>

(* save_device_info: the file is emptied, then written; failing to open it *)
(* is not an error.                                                        *)
Save ==
  /\ pc = "save"
  /\ pc' = "print" /\ settings' = None
  /\ UNCHANGED <<at, attempt, fds, line, result, device, probing, unanswered, moved, movedSince>>

SaveFails ==
  /\ pc = "save"
  /\ Return(0)
  /\ UNCHANGED <<settings, at, attempt, fds, line, device, probing, unanswered, moved, movedSince>>

Saved ==
  /\ pc = "print"
  /\ settings' = at /\ moved' = movedSince
  /\ Return(0)
  /\ UNCHANGED <<at, attempt, fds, line, device, probing, unanswered, movedSince>>

-----------------------------------------------------------------------------
(* cmd_write of a file, at the place of the settings or of -p and -b.      *)
Write(p) ==
  /\ pc = "shell" /\ p \in Supported
  /\ pc' = "hush" /\ at' = p /\ line' = 0 /\ unanswered' = FALSE /\ result' = NoResult
  /\ fds' = fds + 1
  /\ UNCHANGED <<settings, attempt, device, probing, moved, movedSince>>

(* A command that never has a port: none is listed for a probe, or the one *)
(* to write to cannot be opened or configured.                             *)
Fails ==
  /\ pc = "shell"
  /\ result' = -1
  /\ UNCHANGED <<settings, pc, at, attempt, fds, line, device, probing, unanswered,
                 moved, movedSince>>

(* The request to be quiet returns and the file is opened, or cannot be.   *)
Hushed ==
  /\ pc = "hush"
  /\ \/ pc' = "write" /\ UNCHANGED <<fds, result>>
     \/ Return(-1) /\ fds' = fds - 1
  /\ UNCHANGED <<settings, at, attempt, line, device, probing, unanswered, moved, movedSince>>

(* execute_commands_from_file                                              *)
Send(answered) ==
  /\ pc = "write" /\ line < Lines
  /\ answered => device = at
  /\ line' = line + 1 /\ unanswered' = (unanswered \/ ~answered)
  /\ UNCHANGED <<settings, pc, at, attempt, fds, result, device, probing, moved, movedSince>>

Written ==
  /\ pc = "write" /\ line = Lines
  /\ Return(0) /\ fds' = fds - 1
  /\ UNCHANGED <<settings, at, attempt, line, device, probing, unanswered, moved, movedSince>>

-----------------------------------------------------------------------------
(* What the tool does without waiting for the line.                        *)
Working ==
  \/ Skip \/ SkipUnknown \/ Open \/ GiveUp
  \/ Save \/ SaveFails \/ Saved \/ Written

RequestReturns ==
  \/ Quieted \/ Found \/ NoOK \/ Resumed
  \/ Hushed \/ \E answered \in BOOLEAN : Send(answered)

Next ==
  \/ Kill \/ Probe \/ Fails \/ Working \/ RequestReturns
  \/ \E p \in Places : Move(p) \/ Write(p)

(* The process runs; nothing says that a request returns.                  *)
Spec == Init /\ [][Next]_vars /\ WF_vars(Working)

-----------------------------------------------------------------------------
(* Every variable keeps its range; no command holds two descriptors, and   *)
(* none is left open between two places (commands.c:402-446).              *)
TypeOK ==
  /\ settings \in Places \cup {None} /\ device \in Places
  /\ pc \in Requests \cup {"shell", "next", "save", "print"}
  /\ at \in 0 .. Last + 1 /\ attempt \in 0 .. MaxAttempts /\ line \in 0 .. Lines
  /\ fds = IF pc \in Requests THEN 1 ELSE 0
  /\ result \in {NoResult, 0, -1}
  /\ asked \in [Places -> 0 .. MaxAttempts] /\ shut \subseteq Places
  /\ unanswered \in BOOLEAN /\ moved \in BOOLEAN /\ movedSince \in BOOLEAN

(* The settings are those of a device that answered there, and still is    *)
(* there unless it was moved, whenever the command was killed; a later     *)
(* command may do without -p and -b (README.md:83, commands.c:345-353).    *)
SettingsFindDevice == (settings # None /\ ~moved) => settings = device

(* A probe ends without a device only when every place that could be had   *)
(* was asked as often as it should (commands.c:402-446).                   *)
GivesUpLast ==
  (pc = "next" /\ at \notin Places) =>
    \A p \in Supported : p \in shut \/ asked[p] = MaxAttempts

(* A command ends unless one of its requests never returns, which is what  *)
(* an open line that falls silent does to it: neither the walk over the    *)
(* places, nor the attempts, nor the lines of a file go on for ever        *)
(* (commands.c:220-271, 402-464).                                          *)
CommandsEnd == (pc # "shell") ~> (pc = "shell" \/ \E r \in Requests : [](pc = r))

(* A probe opens "each available serial port" and tests "a set of common   *)
(* baud rates" (commands.c:373-374): every one of its list.                *)
EveryRateIsTested ==
  (pc = "next" /\ at \notin Places) =>
    \A p \in Places : p \in shut \/ asked[p] = MaxAttempts

(* "0 on success, -1 on failure" (commands.c:218, 286).                    *)
WriteTellsFailure == (pc = "shell" /\ result = 0 /\ line = Lines) => ~unanswered
=============================================================================
