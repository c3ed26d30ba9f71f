--------------------------- MODULE HostToolProofs ---------------------------
(***************************************************************************)
(* For any number of ports and baud rates and of attempts at each: no      *)
(* descriptor is leaked, the settings are those of a device that answered, *)
(* and a probe gives up only when every place it could have was asked.     *)
(***************************************************************************)
EXTENDS HostTool, TLAPS

(* The place at hand is one that the step at hand can use.                 *)
AtFits ==
  /\ pc = "next" => at # None
  /\ pc \in Requests => at \in Supported
  /\ pc \in {"save", "print"} => at \in Places
  /\ pc \in {"quiet", "ask"} => attempt < MaxAttempts /\ asked[at] = attempt

(* The places in front are done with, those behind were not asked.         *)
Swept ==
  pc \in {"next", "quiet", "ask"} =>
    /\ \A p \in Supported : p < at => p \in shut \/ asked[p] = MaxAttempts
    /\ \A p \in Places : (p > at \/ (p = at /\ pc = "next")) => asked[p] = 0

(* What is about to be saved is where the device was last found.           *)
SavesPlace == (pc \in {"resume", "save", "print"} /\ ~movedSince) => at = device

Inductive == TypeOK /\ AtFits /\ Swept /\ SavesPlace /\ SettingsFindDevice

LEMMA InitInductive == Init => Inductive
<1> SUFFICES ASSUME Init PROVE Inductive
  OBVIOUS
<1> USE ToolAssumption DEF Init
<1>1. TypeOK
  <2>1. asked \in [Places -> 0 .. MaxAttempts] /\ device \in Places /\ shut \subseteq Places
    OBVIOUS
  <2>2. at \in 0 .. Last + 1 /\ attempt \in 0 .. MaxAttempts /\ line \in 0 .. Lines
    BY DEF None
  <2> QED
    BY <2>1, <2>2 DEF TypeOK, NoResult, Requests
<1>2. AtFits /\ Swept /\ SavesPlace /\ SettingsFindDevice
  BY DEF Requests, AtFits, Swept, SavesPlace, SettingsFindDevice
<1> QED
  BY <1>1, <1>2 DEF Inductive

(* A request adds one to the count of its place, and to no other.          *)
LEMMA RequestCounts ==
  ASSUME Inductive, Request
  PROVE  /\ at \in Supported /\ at \in Places /\ attempt < MaxAttempts /\ pc = "ask"
         /\ asked' \in [Places -> 0 .. MaxAttempts]
         /\ asked'[at] = attempt + 1
         /\ \A p \in Places : p # at => asked'[p] = asked[p]
<1>1. /\ pc = "ask" /\ at \in Supported /\ at \in Places /\ attempt < MaxAttempts
      /\ asked[at] = attempt /\ asked \in [Places -> 0 .. MaxAttempts]
      /\ asked' = [asked EXCEPT ![at] = @ + 1] /\ attempt \in 0 .. MaxAttempts
      /\ MaxAttempts \in Nat
  BY ToolAssumption DEF Inductive, TypeOK, AtFits, Request, Requests
<1>2. asked'[at] = attempt + 1 /\ \A p \in Places : p # at => asked'[p] = asked[p]
  BY <1>1
<1>3. asked' \in [Places -> 0 .. MaxAttempts]
  BY <1>1
<1> QED
  BY <1>1, <1>2, <1>3

LEMMA FoundStep == ASSUME Inductive, Found PROVE Inductive'
<1>1. Request
  BY DEF Found
<1> USE DEF Found, Request
<1>2. TypeOK'
  <2>1. pc = "ask" /\ asked' \in [Places -> 0 .. MaxAttempts]
    BY <1>1, RequestCounts
  <2>2. fds' = 1 /\ pc' = "resume" /\ movedSince' = FALSE
    BY <2>1 DEF Inductive, TypeOK, Requests
  <2> QED
    BY <2>1, <2>2 DEF Inductive, TypeOK, Requests
<1>3. AtFits' /\ Swept' /\ SavesPlace'
  BY <1>1, RequestCounts DEF AtFits, Swept, SavesPlace, Requests
<1>4. SettingsFindDevice'
  BY DEF Inductive, SettingsFindDevice
<1> QED
  BY <1>2, <1>3, <1>4 DEF Inductive

LEMMA NoOKStep == ASSUME Inductive, NoOK PROVE Inductive'
<1>1. Request
  BY DEF NoOK
<1>2. /\ at \in Supported /\ at \in Places /\ pc = "ask" /\ Last \in Nat
      /\ asked' \in [Places -> 0 .. MaxAttempts] /\ asked'[at] = attempt + 1
      /\ \A p \in Places : p # at => asked'[p] = asked[p]
      /\ attempt < MaxAttempts /\ attempt \in Nat /\ MaxAttempts \in Nat
      /\ Supported \subseteq Places
  BY <1>1, RequestCounts, ToolAssumption DEF Inductive, TypeOK
<1>3. /\ attempt' = attempt + 1 /\ attempt' <= MaxAttempts
      /\ \/ attempt' < MaxAttempts /\ pc' = "quiet" /\ at' = at /\ fds' = fds
         \/ attempt' = MaxAttempts /\ pc' = "next" /\ at' = at + 1 /\ fds' = fds - 1
  BY <1>2 DEF NoOK
<1>4. TypeOK'
  BY <1>1, <1>2, <1>3 DEF Inductive, TypeOK, Request, Requests, NoOK, Places
<1>5. AtFits'
  BY <1>2, <1>3 DEF AtFits, None, Places, Requests
<1>6. Swept'
  <2>1. shut' = shut
    BY <1>1 DEF Request
  <2>2. \A p \in Supported : p < at => p \in shut \/ asked'[p] = MaxAttempts
    BY <1>2 DEF Inductive, Swept, Places
  <2>3. \A p \in Places : p > at => asked'[p] = 0
    BY <1>2 DEF Inductive, Swept, Places
  <2>4. CASE pc' = "quiet" /\ at' = at
    BY <2>1, <2>2, <2>3, <2>4 DEF Swept
  <2>5. CASE pc' = "next" /\ at' = at + 1 /\ attempt' = MaxAttempts
    BY <1>2, <1>3, <2>1, <2>2, <2>3, <2>5 DEF Swept, Places
  <2> QED
    BY <1>3, <2>4, <2>5
<1>7. SavesPlace' /\ SettingsFindDevice'
  BY <1>1, <1>3 DEF Inductive, SavesPlace, SettingsFindDevice, Request
<1> QED
  BY <1>4, <1>5, <1>6, <1>7 DEF Inductive

LEMMA PassStep == ASSUME Inductive, Skip \/ SkipUnknown PROVE Inductive'
<1>1. /\ pc = "next" /\ pc' = "next" /\ at \in Places /\ at' = at + 1 /\ asked' = asked
      /\ \/ shut' = shut \cup {at}
         \/ shut' = shut /\ at \notin Supported
      /\ UNCHANGED <<settings, attempt, fds, line, result, device, unanswered, moved, movedSince>>
  BY DEF Skip, SkipUnknown, probing
<1>2. at \in Nat /\ Last \in Nat /\ Supported \subseteq Places
  BY <1>1, ToolAssumption DEF Places
<1>3. TypeOK'
  <2>1. at' \in 0 .. Last + 1
    BY <1>1, <1>2 DEF Places
  <2>2. shut' \subseteq Places
    BY <1>1 DEF Inductive, TypeOK
  <2> QED
    BY <1>1, <2>1, <2>2 DEF Inductive, TypeOK, Requests
<1>4. AtFits' /\ SavesPlace' /\ SettingsFindDevice'
  BY <1>1, <1>2 DEF Inductive, AtFits, SavesPlace, SettingsFindDevice, None, Requests
<1>5. Swept'
  BY <1>1, <1>2 DEF Inductive, Swept, Places
<1> QED
  BY <1>3, <1>4, <1>5 DEF Inductive

LEMMA OpenStep == ASSUME Inductive, Open PROVE Inductive'
<1>1. /\ pc = "next" /\ pc' = "quiet" /\ at \in Supported /\ attempt' = 0 /\ fds' = fds + 1
      /\ UNCHANGED <<settings, at, line, result, device, asked, shut, unanswered, moved,
                     movedSince>>
  BY DEF Open, probing
<1>2. Supported \subseteq Places /\ MaxAttempts \in Nat \ {0} /\ at \in Places /\ at \in Nat
  BY <1>1, ToolAssumption DEF Places
<1>3. TypeOK'
  BY <1>1, <1>2 DEF Inductive, TypeOK, Requests
<1>4. AtFits'
  BY <1>1, <1>2 DEF Inductive, AtFits, Swept, Requests
<1>5. Swept' /\ SavesPlace' /\ SettingsFindDevice'
  BY <1>1, <1>2 DEF Inductive, Swept, SavesPlace, SettingsFindDevice, Requests
<1> QED
  BY <1>3, <1>4, <1>5 DEF Inductive

(* A request returns whose answer nobody looks at.                         *)
LEMMA QuietStep == ASSUME Inductive, Quieted \/ Resumed PROVE Inductive'
<1>1. CASE Quieted
  <2> USE <1>1 DEF Quieted, Inductive, probing, Requests
  <2>1. TypeOK'
    BY DEF TypeOK
  <2>2. AtFits' /\ Swept' /\ SavesPlace' /\ SettingsFindDevice'
    BY DEF AtFits, Swept, SavesPlace, SettingsFindDevice
  <2> QED
    BY <2>1, <2>2
<1>2. CASE Resumed
  <2> USE <1>2 DEF Resumed, Inductive, probing, Requests
  <2>1. TypeOK'
    BY DEF TypeOK
  <2>2. AtFits' /\ Swept' /\ SavesPlace' /\ SettingsFindDevice'
    BY ToolAssumption DEF AtFits, Swept, SavesPlace, SettingsFindDevice
  <2> QED
    BY <2>1, <2>2
<1> QED
  BY <1>1, <1>2

(* Starting, ending or killing a command, and the user's moves.            *)
LEMMA ProbeStarts == ASSUME Inductive, Probe PROVE Inductive'
<1> USE ToolAssumption DEF Probe, Inductive
<1>1. TypeOK'
  <2>1. at' \in 0 .. Last + 1 /\ line' \in 0 .. Lines
    OBVIOUS
  <2>2. asked' \in [Places -> 0 .. MaxAttempts]
    OBVIOUS
  <2> QED
    BY <2>1, <2>2 DEF TypeOK, NoResult, Requests
<1>2. AtFits' /\ SavesPlace' /\ SettingsFindDevice'
  BY DEF AtFits, SavesPlace, SettingsFindDevice, None, Requests
<1>3. Swept'
  BY DEF Swept, Places
<1> QED
  BY <1>1, <1>2, <1>3

LEMMA MoveStep == ASSUME Inductive, NEW p \in Places, Move(p) PROVE Inductive'
<1> USE DEF Move, Inductive, probing
<1>1. TypeOK'
  BY DEF TypeOK
<1>2. AtFits' /\ Swept' /\ SavesPlace' /\ SettingsFindDevice'
  BY DEF AtFits, Swept, SavesPlace, SettingsFindDevice
<1> QED
  BY <1>1, <1>2

LEMMA EndStep ==
  ASSUME Inductive,
         \/ Kill \/ Fails \/ GiveUp \/ SaveFails \/ Written
         \/ Hushed /\ pc' = "shell"
  PROVE  Inductive'
<1>1. /\ pc' = "shell" /\ fds' = 0 /\ result' \in {NoResult, 0, -1}
      /\ UNCHANGED <<settings, at, attempt, line, device, asked, shut, unanswered, moved,
                     movedSince>>
  BY DEF Inductive, TypeOK, Kill, Fails, GiveUp, SaveFails, Written, Hushed,
         Return, probing, Requests
<1>2. TypeOK'
  BY <1>1 DEF Inductive, TypeOK, Requests
<1>3. AtFits' /\ Swept' /\ SavesPlace' /\ SettingsFindDevice'
  BY <1>1 DEF Inductive, Requests, AtFits, Swept, SavesPlace, SettingsFindDevice
<1> QED
  BY <1>2, <1>3 DEF Inductive

LEMMA SaveStep == ASSUME Inductive, Save \/ Saved PROVE Inductive'
<1>1. CASE Save
  <2> USE <1>1 DEF Save, Inductive, probing, Requests
  <2>1. TypeOK'
    BY DEF TypeOK
  <2>2. AtFits' /\ Swept' /\ SavesPlace' /\ SettingsFindDevice'
    BY DEF AtFits, Swept, SavesPlace, SettingsFindDevice
  <2> QED
    BY <2>1, <2>2
<1>2. CASE Saved
  <2> USE <1>2 DEF Saved, Return, Inductive, probing, Requests
  <2>1. TypeOK'
    BY DEF TypeOK, AtFits
  <2>2. AtFits' /\ Swept' /\ SavesPlace' /\ SettingsFindDevice'
    BY DEF AtFits, Swept, SavesPlace, SettingsFindDevice
  <2> QED
    BY <2>1, <2>2
<1> QED
  BY <1>1, <1>2

LEMMA WriteSteps ==
  ASSUME Inductive,
         \/ \E p \in Places : Write(p)
         \/ Hushed /\ pc' = "write"
         \/ \E answered \in BOOLEAN : Send(answered)
  PROVE  Inductive'
<1> USE ToolAssumption
<1>1. CASE \E p \in Places : Write(p)
  <2>1. PICK p \in Places : Write(p)
    BY <1>1
  <2> USE <2>1 DEF Write, Inductive, probing, Requests
  <2>2. TypeOK'
    <3>1. at' \in 0 .. Last + 1 /\ line' \in 0 .. Lines
      BY DEF Places
    <3>2. fds' = 1 /\ pc' = "hush" /\ result' = NoResult /\ unanswered' = FALSE
      BY DEF TypeOK
    <3> QED
      BY <3>1, <3>2 DEF TypeOK, NoResult
  <2>3. AtFits' /\ Swept' /\ SavesPlace' /\ SettingsFindDevice'
    BY DEF AtFits, Swept, SavesPlace, SettingsFindDevice
  <2> QED
    BY <2>2, <2>3
<1>2. CASE \E answered \in BOOLEAN : Send(answered)
  <2>1. PICK answered \in BOOLEAN : Send(answered)
    BY <1>2
  <2> USE <2>1 DEF Send, Inductive, probing, Requests
  <2>2. TypeOK'
    <3>1. line' \in 0 .. Lines /\ unanswered' \in BOOLEAN
      BY DEF TypeOK
    <3> QED
      BY <3>1 DEF TypeOK
  <2>3. AtFits' /\ Swept' /\ SavesPlace' /\ SettingsFindDevice'
    BY DEF AtFits, Swept, SavesPlace, SettingsFindDevice
  <2> QED
    BY <2>2, <2>3
<1>3. CASE Hushed /\ pc' = "write"
  <2> USE <1>3 DEF Hushed, Return, Inductive, probing, Requests
  <2>1. TypeOK'
    BY DEF TypeOK
  <2>2. AtFits' /\ Swept' /\ SavesPlace' /\ SettingsFindDevice'
    BY DEF AtFits, Swept, SavesPlace, SettingsFindDevice
  <2> QED
    BY <2>1, <2>2
<1> QED
  BY <1>1, <1>2, <1>3

LEMMA NextInductive == Inductive /\ [Next]_vars => Inductive'
<1> SUFFICES ASSUME Inductive, [Next]_vars PROVE Inductive'
  OBVIOUS
<1>1. CASE Skip \/ SkipUnknown
  BY <1>1, PassStep
<1>2. CASE \/ Kill \/ Fails \/ GiveUp \/ SaveFails \/ Written
           \/ Hushed /\ pc' = "shell"
  BY <1>2, EndStep
<1>3. CASE Save \/ Saved
  BY <1>3, SaveStep
<1>4. CASE \E p \in Places : Move(p)
  BY <1>4, MoveStep
<1>5. CASE \/ \E p \in Places : Write(p)
           \/ Hushed /\ pc' = "write"
           \/ \E answered \in BOOLEAN : Send(answered)
  BY <1>5, WriteSteps
<1>6. CASE UNCHANGED vars
  <2> USE <1>6 DEF vars, probing, Inductive
  <2>1. TypeOK'
    BY DEF TypeOK
  <2>2. AtFits' /\ Swept' /\ SavesPlace' /\ SettingsFindDevice'
    BY DEF AtFits, Swept, SavesPlace, SettingsFindDevice
  <2> QED
    BY <2>1, <2>2
<1>7. Hushed => pc' \in {"shell", "write"}
  BY DEF Hushed, Return
<1> QED
  BY <1>1, <1>2, <1>3, <1>4, <1>5, <1>6, <1>7,
     FoundStep, NoOKStep, OpenStep, QuietStep, ProbeStarts
     DEF Next, Working, RequestReturns

LEMMA InductiveHolds == Spec => []Inductive
<1> QED
  BY InitInductive, NextInductive, PTL DEF Spec

(* Every variable keeps its range, whatever the user does and whenever a   *)
(* command is killed, and no descriptor is left open.                      *)
THEOREM TypeCorrect == Spec => []TypeOK
<1>1. Inductive => TypeOK
  BY DEF Inductive
<1> QED
  BY <1>1, InductiveHolds, PTL

(* A later command that leaves -p and -b to the settings finds the device, *)
(* unless it was moved.                                                    *)
THEOREM SettingsAreGood == Spec => []SettingsFindDevice
<1>1. Inductive => SettingsFindDevice
  BY DEF Inductive
<1> QED
  BY <1>1, InductiveHolds, PTL

(* A probe gives up only when it has asked every place it could have as    *)
(* often as it should.                                                     *)
THEOREM GivesUpInTheEnd == Spec => []GivesUpLast
<1>1. Inductive => GivesUpLast
  <2> SUFFICES ASSUME Inductive, pc = "next", at \notin Places, NEW p \in Supported
               PROVE  p \in shut \/ asked[p] = MaxAttempts
    BY DEF GivesUpLast
  <2>1. at \in 0 .. Last + 1 /\ at # 0 /\ p \in 1 .. Last /\ Last \in Nat
    BY ToolAssumption DEF Inductive, TypeOK, AtFits, None, Places
  <2>2. p < at
    BY <2>1 DEF Places
  <2> QED
    BY <2>2 DEF Inductive, Swept
<1> QED
  BY <1>1, InductiveHolds, PTL

-----------------------------------------------------------------------------
(* How many steps a command has before it at most: an opening and two      *)
(* requests an attempt for every place, what follows an answer, and the    *)
(* requests of a file.                                                     *)
Ahead(p) == 4 + (Last + 1 - p) * (2 * MaxAttempts + 1)

Remaining ==
  CASE pc = "shell"  -> 0
    [] pc = "hush"   -> 2 + Lines
    [] pc = "write"  -> 1 + Lines - line
    [] pc = "print"  -> 1
    [] pc = "save"   -> 2
    [] pc = "resume" -> 3
    [] pc = "next"   -> Ahead(at)
    [] pc = "quiet"  -> Ahead(at) - 1 - 2 * attempt
    [] pc = "ask"    -> Ahead(at) - 2 - 2 * attempt

(* Whatever the user does meanwhile, a command never gets further from its *)
(* end, and each of its own steps and each request that returns brings it  *)
(* nearer (commands.c:220-271, 402-464).                                   *)
ComesToAnEnd ==
  [][pc # "shell" =>
       /\ Remaining \in Nat /\ Remaining' \in Nat /\ Remaining' <= Remaining
       /\ Working \/ RequestReturns => Remaining' < Remaining]_vars

LEMMA AheadFacts ==
  ASSUME NEW p \in 1 .. Last + 1
  PROVE  /\ Ahead(p) \in Nat /\ Ahead(p) >= 4
         /\ p <= Last => Ahead(p) = Ahead(p + 1) + 2 * MaxAttempts + 1
<1> DEFINE k == Last + 1 - p
           a == 2 * MaxAttempts + 1
<1>1. k \in Nat /\ a \in Nat /\ Last \in Nat
  BY ToolAssumption
<1>2. k * a \in Nat /\ (k - 1) * a = k * a - a
  <2> HIDE DEF k, a
  <2> QED BY <1>1
<1>3. Last + 1 - (p + 1) = k - 1
  BY <1>1
<1>4. Ahead(p) = 4 + k * a /\ Ahead(p + 1) = 4 + (k - 1) * a
  <2>1. Ahead(p) = 4 + k * a
    BY DEF Ahead
  <2>2. Ahead(p + 1) = 4 + (Last + 1 - (p + 1)) * a
    BY DEF Ahead
  <2> QED BY <1>3, <2>1, <2>2
<1>5. a = 2 * MaxAttempts + 1 /\ MaxAttempts \in Nat
  BY ToolAssumption
<1> HIDE DEF k, a
<1> QED BY <1>1, <1>2, <1>4, <1>5

(* Where a command is, it has a number of steps before it.                 *)
LEMMA RemainingFacts ==
  ASSUME Inductive
  PROVE  /\ Remaining \in Nat
         /\ pc \in {"next", "quiet", "ask"} =>
              at \in 1 .. Last + 1 /\ attempt \in 0 .. MaxAttempts
         /\ pc \in {"quiet", "ask"} => at \in 1 .. Last /\ attempt < MaxAttempts
<1>1. /\ MaxAttempts \in Nat /\ Last \in Nat /\ Lines \in Nat /\ line \in 0 .. Lines
      /\ attempt \in 0 .. MaxAttempts /\ at \in 0 .. Last + 1
  BY ToolAssumption DEF Inductive, TypeOK
<1>2. pc \in {"next", "quiet", "ask"} => at \in 1 .. Last + 1
  BY <1>1, ToolAssumption DEF Inductive, AtFits, None, Places, Requests
<1>3. pc \in {"quiet", "ask"} => at \in 1 .. Last /\ attempt < MaxAttempts
  BY ToolAssumption DEF Inductive, AtFits, Places, Requests
<1>4. CASE pc = "next"
  <2>1. Ahead(at) \in Nat
    BY <1>2, <1>4, AheadFacts
  <2> QED BY <1>1, <1>2, <1>4, <2>1 DEF Remaining
<1>5. CASE pc \in {"quiet", "ask"}
  <2>1. /\ Ahead(at) \in Nat /\ Ahead(at + 1) \in Nat
        /\ Ahead(at) = Ahead(at + 1) + 2 * MaxAttempts + 1
    BY <1>1, <1>3, <1>5, AheadFacts
  <2>2. \/ Remaining = Ahead(at) - 1 - 2 * attempt
        \/ Remaining = Ahead(at) - 2 - 2 * attempt
    BY <1>5 DEF Remaining
  <2> QED BY <1>1, <1>2, <1>3, <1>5, <2>1, <2>2
<1>6. CASE pc \in {"shell", "hush", "write", "print", "save", "resume"}
  BY <1>1, <1>6 DEF Remaining
<1> QED BY <1>4, <1>5, <1>6 DEF Inductive, TypeOK, Requests

LEMMA PlacesPass ==
  ASSUME Inductive, Skip \/ SkipUnknown \/ Open \/ Quieted \/ NoOK
  PROVE  Remaining' < Remaining
<1>1. /\ MaxAttempts \in Nat /\ Last \in Nat /\ at \in 1 .. Last
      /\ attempt \in 0 .. MaxAttempts
  BY RemainingFacts, ToolAssumption
     DEF Skip, SkipUnknown, Open, Quieted, NoOK, Request, Places
<1>2. /\ Ahead(at) \in Nat /\ Ahead(at + 1) \in Nat
      /\ Ahead(at) = Ahead(at + 1) + 2 * MaxAttempts + 1
  BY <1>1, AheadFacts
<1>3. CASE Skip \/ SkipUnknown
  <2>1. Remaining = Ahead(at) /\ Remaining' = Ahead(at + 1)
    BY <1>3 DEF Skip, SkipUnknown, Remaining, Ahead
  <2> QED BY <1>1, <1>2, <2>1
<1>4. CASE Open
  <2>1. Remaining = Ahead(at) /\ Remaining' = Ahead(at) - 1 - 2 * 0
    BY <1>4 DEF Open, Remaining, Ahead
  <2> QED BY <1>1, <1>2, <2>1
<1>5. CASE Quieted
  <2>1. /\ Remaining = Ahead(at) - 1 - 2 * attempt
        /\ Remaining' = Ahead(at) - 2 - 2 * attempt
    BY <1>5 DEF Quieted, Remaining, Ahead
  <2> QED BY <1>1, <1>2, <2>1
<1>6. CASE NoOK
  <2>1. /\ Remaining = Ahead(at) - 2 - 2 * attempt /\ attempt < MaxAttempts
        /\ attempt' = attempt + 1
    BY <1>6, RemainingFacts DEF NoOK, Request, Remaining
  <2>2. CASE attempt' < MaxAttempts
    <3>1. Remaining' = Ahead(at) - 1 - 2 * (attempt + 1)
      BY <1>6, <2>2 DEF NoOK, Request, Remaining, Ahead
    <3> QED BY <1>1, <1>2, <2>1, <3>1
  <2>3. CASE ~(attempt' < MaxAttempts)
    <3>1. Remaining' = Ahead(at + 1)
      BY <1>6, <2>3 DEF NoOK, Request, Remaining, Ahead
    <3> QED BY <1>1, <1>2, <2>1, <3>1
  <2> QED BY <2>2, <2>3
<1> QED BY <1>3, <1>4, <1>5, <1>6

LEMMA CommandsEndAtLast ==
  ASSUME Inductive, \/ Found \/ Resumed \/ GiveUp \/ Save \/ SaveFails \/ Saved
                    \/ Hushed \/ Written \/ \E answered \in BOOLEAN : Send(answered)
  PROVE  Remaining' < Remaining
<1>1. CASE Found
  <2>1. /\ MaxAttempts \in Nat /\ Last \in Nat /\ at \in 1 .. Last
        /\ attempt \in 0 .. MaxAttempts /\ attempt < MaxAttempts /\ pc = "ask"
    BY <1>1, RemainingFacts, ToolAssumption DEF Found, Request
  <2>2. /\ Ahead(at) \in Nat /\ Ahead(at + 1) \in Nat /\ Ahead(at + 1) >= 4
        /\ Ahead(at) = Ahead(at + 1) + 2 * MaxAttempts + 1
    BY <2>1, AheadFacts
  <2>3. Remaining = Ahead(at) - 2 - 2 * attempt /\ Remaining' = 3
    BY <1>1 DEF Found, Request, Remaining
  <2> QED BY <2>1, <2>2, <2>3
<1>2. CASE GiveUp
  <2>1. Ahead(at) \in Nat /\ Ahead(at) >= 4
    BY <1>2, RemainingFacts, AheadFacts DEF GiveUp
  <2>2. Remaining = Ahead(at) /\ Remaining' = 0
    BY <1>2 DEF GiveUp, Return, Remaining
  <2> QED BY <2>1, <2>2
<1>3. CASE Resumed \/ Save \/ SaveFails \/ Saved
  BY <1>3 DEF Resumed, Save, SaveFails, Saved, Return, Remaining
<1>4. CASE Hushed \/ Written \/ \E answered \in BOOLEAN : Send(answered)
  <2>1. Lines \in Nat /\ line \in 0 .. Lines
    BY ToolAssumption DEF Inductive, TypeOK
  <2>2. CASE Hushed
    <3>1. Remaining = 2 + Lines /\ (Remaining' = 0 \/ Remaining' = 1 + Lines - line)
      BY <2>2 DEF Hushed, Return, Remaining
    <3> QED BY <2>1, <3>1
  <2>3. CASE Written
    <3>1. Remaining = 1 + Lines - line /\ Remaining' = 0
      BY <2>3 DEF Written, Return, Remaining
    <3> QED BY <2>1, <3>1
  <2>4. CASE \E answered \in BOOLEAN : Send(answered)
    <3>1. Remaining = 1 + Lines - line /\ Remaining' = 1 + Lines - (line + 1)
      BY <2>4 DEF Send, Remaining
    <3> QED BY <2>1, <3>1
  <2> QED BY <1>4, <2>2, <2>3, <2>4
<1> QED BY <1>1, <1>2, <1>3, <1>4

(* A kill ends the command, and a device that moves does not hold it up:   *)
(* only a request that does not return can (see CommandsEnd).              *)
THEOREM CommandsComeToAnEnd == Spec => ComesToAnEnd
<1> DEFINE Nearer ==
             pc # "shell" =>
               /\ Remaining \in Nat /\ Remaining' \in Nat /\ Remaining' <= Remaining
               /\ Working \/ RequestReturns => Remaining' < Remaining
<1>1. ASSUME Inductive, Inductive', [Next]_vars PROVE Nearer
  <2>1. Remaining \in Nat /\ Remaining' \in Nat
    <3>1. Remaining \in Nat
      BY <1>1, RemainingFacts
    <3>2. (Inductive => Remaining \in Nat)'
      BY RemainingFacts, PTL
    <3> QED BY <1>1, <3>1, <3>2
  <2>2. CASE Working \/ RequestReturns
    <3>1. Remaining' < Remaining
      BY <1>1, <2>2, PlacesPass, CommandsEndAtLast DEF Working, RequestReturns
    <3> QED BY <2>1, <3>1
  <2>3. CASE ~(Working \/ RequestReturns)
    <3> SUFFICES ASSUME pc # "shell" PROVE Remaining' <= Remaining
      BY <2>1, <2>3
    <3>1. CASE Kill
      <4>1. Remaining' = 0
        BY <3>1 DEF Kill, Remaining
      <4> QED BY <2>1, <4>1
    <3>2. CASE \/ \E p \in Places : Move(p)
               \/ UNCHANGED vars
      <4>1. UNCHANGED <<pc, at, attempt, line>>
        BY <3>2 DEF Move, vars
      <4>2. Remaining' = Remaining
        BY <4>1 DEF Remaining, Ahead
      <4> QED BY <2>1, <4>2
    <3> QED BY <1>1, <2>3, <3>1, <3>2 DEF Next, Probe, Fails, Write
  <2> QED BY <2>2, <2>3
<1>2. Inductive /\ Inductive' /\ [Next]_vars => [Nearer]_vars
  BY <1>1
<1>3. ComesToAnEnd <=> [][Nearer]_vars
  BY DEF ComesToAnEnd
<1> HIDE DEF Nearer
<1> QED BY <1>2, <1>3, InductiveHolds, PTL DEF Spec
=============================================================================
