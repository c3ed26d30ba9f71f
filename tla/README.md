# Formal models of phybot_c2

TLA+ models of the control software of a humanoid robot (this repository's own
code, about 13.7k of its 4M lines; the rest is vendored), checked by TLC on small
instances and proved about with TLAPS for every value of the constants.

    tlc -workers 2 -config MCStateMachine.cfg MCStateMachine.tla
    tlapm StateMachineProofs.tla

The `MC` modules only give constants their values; every `.cfg` belongs to one of
them. Operators marked as mutants or faults are plausible bugs of the definition
that follows them; no specification uses them.

PROJECT.json lists the components, runs, mutants, the source lines of every
definition, findings, hazards and theorems.

## 1. Inventory

The robot program is one real-time thread that runs 500 times a second. On every
tick it asks the joystick for the wanted state, reads the motors and the IMU into
one shared `DataPackage`, lets the state machine run the action of the current
state, and sends the package's command to the motors. Next to it run a joystick
thread and an IMU reader thread. A separate command line tool talks to the IMU.

| component | state it keeps | operations | what makes it correct |
|---|---|---|---|
| `StateMachine/` manager, `GenericState` adapters | `CurrentState`, `NextState`, map of handlers | construct, `init`, `GetDataFromPackage`, `run` (EXIT, then RUN), `SetDataToPackage` | the wanted state runs in its very tick, the state it leaves is exited once, nothing runs through an absent handler |
| `ZeroState/` homing | start pose, clock, first-tick flag | `GetDataFromPackage`, `SetDataToPackage`, `ThirdpolyVector` | starts where the joints are at every entry, no overshoot, arrives |
| `RL_deploy_cpg/` walking | decimation counter, last action, histories | `GetDataFromPackage`, `Step`, `SetDataToPackage`, `Exit` | memory of this visit only, consults the network for ever |
| `SimpleStateExample` | copy of the package's state | the same | commands nothing |
| `DataPackage/` | everything the parts exchange | plain fields, `getIMUdata` | fields that belong together come from one state |
| IMU decoder `device/Imu_hipnuc/lib/hipnuc_dec.c` | raw buffer, count, payload length | `hipnuc_input`, `decode_hipnuc`, `parse_data` | stays within its buffers, every intact frame after synchronisation is delivered once, nothing else is |
| NMEA decoder `lib/nmea_dec.c` | sentence buffer | `input_nmea`, `parse_nmea` and the GGA, RMC, SXT decoders | stays within its buffer, accepts every complete sentence, hunts again after each line |
| `HipnucReader` thread | decoder, published samples | `start`, `mainLoop` | the control thread sees one frame's values |
| serial port `linux/serial_port.c` | descriptor | open, configure, read with time-out, write, send-then-receive | returns within its time-out, never more than asked |
| IMU tool `linux/commands.c` | options, descriptor, settings file | probe, read, write, batch file, update | asks every place before it gives up, its settings name the device's place, ends and leaks no descriptor |
| firmware transfer `linux/fw_downloader/` | port handle, place in the image; buffer, base and lowest address of the hex conversion | ping, properties, erase, write memory, data packets, reset; hex to binary | no packet is skipped or doubled, the device only reboots into a complete image, the image is what the hex file says |
| motor self-tests `RobotStart/test/` | positions, trajectory clock, gains | read, enable, check, move; set gains | the move starts at the measured pose and ends at the one asked for, only the chosen motor is tuned |
| motor bus, joystick, simulator, filter | -- | headers and delivered objects or libraries only | external |
| build scripts, robot description, `ThirdParty/` | -- | -- | not logic of this program |

Interactions: the parts of the control loop share the `DataPackage` by reference
on one thread; the reader thread publishes into public members that the control
thread copies without a lock; the joystick guards its next state with a mutex;
the tool and the boot loader exchange framed packets over a serial line.

Behaviours that are hard: requests that change on any tick, flags cleared by one
object and set by another a tick later, reset on exit, unregistered states,
trajectory ends; bytes lost or inserted anywhere in a stream; unlocked sharing;
time-outs and retries; a device that loses power during an update.

## 2. Modules and the code they model

| module | code | state |
|---|---|---|
| `ZeroState` | `ZeroState.cpp` | the object is the record `zero`; `GetDataFromPackage` and `SetDataToPackage` are operators on it and the package |
| `RlDeploy` | `rl_deploy.cpp` | the object is the record `rl`; `Step` is `RlNextStep`, `RlSkip` and `RlInfer` |
| `StateMachineManager` | `statemachinemanager.*`, `GenericState.h`, `state_registry_user.h`, `SimpleStateExample.h` | `CurrentState`, `NextState`, the handler map, the three actions, the package, what the motors were sent |
| `ModeController` | the abstract specification of the loop | what is asked, measured, remembered and commanded |
| `HipnucDec` | `hipnuc_dec.c` 146-208, 394-414 | `nbyte`, `len`, `buf` of `hipnuc_raw_t`, and what the last call returned |
| `HipnucStream` | the decoder under any stream of bytes | history: the stream and the stretches taken for a frame |
| `HipnucLink` | the decoder behind a faulty line from a sensor (external) | the frame being sent, the faults so far |
| `HipnucReader` | `HipnucReader.cpp`, `DataPackage::getIMUdata` | the reader thread's place, the decoder's last sample of each group of values, the published members, the control thread's copy |
| `HipnucPayload` | `parse_data` in `hipnuc_dec.c` | none: the walk over a payload's items as a function of the payload, and what it must do to the samples that `HipnucReader`'s decoder step replaces as a whole |
| `NmeaDec` | `nmea_dec.c`: `input_nmea`, `parse_nmea` | the raw buffer, its fill, the message type; history: the line so far and the last cuts |
| `SerialPort` | `serial_port.c` 145-332 | the call in progress, its buffer, the line |
| `FirmwareUpdate` | `cmd_update` in `commands.c`, `kboot.c` | the step of the update, the answer in flight, the device (external) |
| `HexToBin` | `hex2bin.c` | the buffer, its size, the base, the lowest address; history: the lines read |
| `HostTool` | `cmd_probe`, `cmd_write` and the settings file in `commands.c` | the settings, the command in progress, its place, attempts and descriptors; the device (external) |
| `SelfTest` | `motor_control.cpp`, `pd_control.cpp` | the next call, poses, the step of the move, gains, the exit status |

Each proof module extends the module it is about: `StateMachineProofs`,
`HipnucProofs` (`HipnucStream`), `HipnucReaderProofs` (`HipnucPayload`, and with it
`HipnucReader`), `NmeaDecProofs`, `SerialPortProofs`, `FirmwareUpdateProofs`,
`HexToBinProofs`, `HostToolProofs`. Two of them prove about a second, smaller module
as well, `StateMachineProofs` about `SelfTest` and `HipnucProofs` about `HipnucLink`; the
parts of these two are named apart for that (`TestInit`, `LineSpec`).

One tick of the control loop is six steps in the order of the delivered
`main()`: joystick, sensing, `GetDataFromPackage`, `run`, `SetDataToPackage`,
sending. A call of `run()` is one action with a disjunct per handler: EXIT of the
old state, the change of `CurrentState`, RUN of the new one and the adapter's
three calls all belong to it. A call of `hipnuc_input` or `input_nmea` is one action
with a disjunct per way to return. The reader thread publishes and the control thread
copies one member at a time, in any order: without a lock the language promises
none. A read of a serial port is a step for each `read()`; the one that finds
nothing changes nothing. The hex conversion takes a step for each line. The host tool
takes a step for each port opened, for each request that returns (three in an attempt that
finds the device, two in one that does not), and for emptying and for
writing the settings, because a kill may fall between any two of them.

Abstractions:

- One joint stands for 21; they are treated alike and do not interact. A history
  of `HistoryLen` entries of one number stands for the matrix of histories.
- Homing and the quintic of the self-test are computed exactly, positions scaled by
  the cube (the fifth power) of the duration and time counted in ticks. The homing code adds
  the control period to a floating-point clock and compares it with a total of seconds,
  so its last tick may come one earlier or later; the coefficients' rounding is not modelled.
- `step_num` is kept modulo `Decimation`: the code only looks at the remainder.
  Its overflow after 49 days of uninterrupted walking is not modelled.
- What the network answers is any member of `Outputs`; the IMU and joystick
  parts of its observation have no memory and are left out.
- CRCs and the NMEA checksum are constant operators: nothing checked or proved
  depends on which function of the bytes they are. A boot loader frame and a line
  of a hex file are undamaged or not.
- A sample is the number of its frame. Aligned doubles are not torn. A byte of a
  payload is the tag of an item, or data of this frame, or left over from another.
- NMEA fields are the positions at which the sentence is cut; what is read out of a
  field is left out. A byte of a hex image is the number of the line it came from.
- The expected answer of a request counts as one byte of the stream.
- The length of a data packet wraps around at `LengthWrap`, which stands for 2^16.
- A place is a port at a baud rate. A request of the host tool is one step, its return, whatever it
  returns with; the tool waits for it in a state of its own and may do so for ever, since the
  read wants 2047 bytes or the end of the line (`SerialPort`).

## 3. What the runs check

Every run but the one called `idle_line` passes. A module's `TypeOK` is checked by its run
where it says more than ranges: for the decoders it carries the buffer bounds, for the
host tool that no descriptor is left open, for the self-tests that gains go to motors
there are. The
other ones are proved, and so are three properties of the loop that the runs check as parts of others (section 4).

- `control_loop` (`MCStateMachine.cfg`): requests for registered states on any tick, any of the poses at
  any time. `NoNullDispatch`, `ZeroArmedOutside` (the
  If_first_Zero handshake), `WalkForgets`, `HomingWithinBounds`,
  `HomingApproaches`, the refinement
  `ImplementsController` (which includes that the request governs its very tick, that
  command and gains come from one state, and that the example state changes neither), and the liveness properties `HomingSettles` and `WalkingInfers`.
- `unregistered_state` (`MCIdle.cfg`): requests for IDLE, too. `UnhandledIsFatal`,
  `UnhandledIsFinal`: such a request always ends in a call through a null pointer.
- `hipnuc_stream` (`MCHipnuc.cfg`): every stream up to thirteen bytes over three values, zero and the
  two sync codes, with a buffer of seven: frames of no and of one byte, one behind the other in
  either order, length errors, wrong sums, false starts.
  `DeliversIntactFrames`; `MissesNothingElse`: an undamaged frame is missed only
  behind a false start less than a buffer earlier.
- `hipnuc_link` (`MCHipnucLink.cfg`): a sensor that sends frames for ever, and up to four bytes lost or
  added. `StaysInStep`, `Resynchronises`.
- `imu_reader` (`MCHipnucReader.cfg`): the two threads, `NeverGoesBack`, `QuietCopyIsWhole`, `SamplesArrive`;
  and, over every payload of up to six bytes, `ReplacesWhatIsCarried` (the walk gives
  exactly the groups whose items the payload holds in full the values of this frame, and the
  tags name their structures). It is tried
  behind the first frame of a chunk. TLC also finds that the kinds of frames the reader is given are
  those of whole payloads (`KindsAssumption`); with it the decoder's walk is the one
  step the reader takes (`DecodeIsParse`, section 4).
- `serial_port` (`MCSerialPort.cfg`): `TerminatorFits`, `StreamKept`, `AnswerIsNew`, `CallsReturn`.
- `firmware_update` (`MCFirmwareUpdate.cfg`): `InLockstep`, `SuccessIsComplete`, `NotLeftWriting`;
  `UpdateEnds`: the command ends, or it sends empty packets for ever because the
  packet size that it read is zero, or it waits for ever on an open line. The last is no rare
  case: the read for the answer to `AT+RST` wants 2047 bytes (`commands.c:516`).
- `nmea_sentences` (`MCNmeaDec.cfg`): any bytes of eight kinds, lines of any length. `CompleteAccepted`:
  whatever came before, overlong lines included, a complete sentence is accepted and
  cut at its own commas. Complete means a whole header and a checksum of which the first
  character is a digit: `strtol` skips blanks, and a `*` with nothing but the line's end
  behind it takes whatever digits an older sentence left there.
- `hex_to_bin` (`MCHexToBin.cfg`): any file of up to five lines. `ImageIsFile`, `GapsAreFilled`, `ImageIffData`.
- `host_tool` (`MCHostTool.cfg`): commands, kills and moves of the device in any order.
  `SettingsFindDevice`, `GivesUpLast`; `CommandsEnd`: a command ends, or one of its requests never
  returns. That is what a probe of a port on which nothing is heard comes to, at its first
  request (`commands.c:420`): it never gets to the next place.
- `self_tests` (`MCSelfTest.cfg`): `MovesToZero`, `NeverJumps`; `GainsAsAsked`: no motor is enabled before
  all have their gains, and a success changed those of the chosen one only.
- `idle_line` (`MCSerialIdle.cfg`), a violation: the read's idle timeout is commented out; on a silent line it never
  returns. The reader thread then spins and the control thread keeps the last
  sample for ever; a request waits for a whole buffer whatever the answer (99 bytes for
  the reader's own, 2047 for those of the tool's text commands).

### Where the code disagrees with its own words

Besides `idle_line`, nine more configurations each end in a violation when they are run.
They are kept for readers who want the trace:

| configuration | property | the words | the code |
|---|---|---|---|
| `MCNoHandler.cfg` | `NoNullDispatch` | a state without a handler is met with a message (`statemachinemanager.h:63-64`) | `run()` looks it up with `operator[]`, which plants a null entry (`statemachinemanager.cpp:26`): the message appears once, the next tick calls through null |
| `MCReaderStart.cfg` | `StartTellsFailure` | `start()` is a `bool`, and the caller left commented out in `test.cpp:34-36` takes false for failure | -1 is returned, that is true, when the port cannot be opened (`HipnucReader.cpp:30`) |
| `MCUpdateTrue.cfg` | `SuccessIsTrue` | the update reports success (`commands.c:596`) | the status in an answer is not looked at (`kboot.c:193`): a refused erase is taken for success |
| `MCNmeaStale.cfg` | `FieldsAreOwn` | a sentence is accumulated, then parsed (`nmea_dec.h:119-120`) | the buffer is read as a string that nothing terminates (`nmea_dec.c:208`): fields of an older, longer sentence follow |
| `MCNmeaNoStar.cfg` | `AcceptedIsComplete` | 1 "if a complete NMEA message is parsed" (`nmea_dec.h:124`) | a line without a checksum may be judged by that of an older one (`nmea_dec.c:194`) |
| `MCPayloadFresh.cfg` | `IgnoresPrevious` | "ignore all previous data" (`hipnuc_dec.c:71`) | only the tags are reset; a structure of single items keeps values of older frames |
| `MCHexTrim.cfg` | `NothingUnusedIsLeft` | "Trim unused space" (`hex2bin.c:131`) | only the front is cut; what the first buffer holds behind the file is sent, too |
| `MCHostBaud.cfg` | `EveryRateIsTested` | a probe tests a set of rates (`commands.c:373-374`) | 256000 is in its list (394) but not in `baud_map` (`serial_port.c:15-22`) |
| `MCHostWrite.cfg` | `WriteTellsFailure` | "0 on success, -1 on failure" (`commands.c:218`, 286) | a command that is not answered does not change the result (263) |

### Bounds and why they are enough

Homing takes three ticks (two with unregistered states) and the decimation is two,
so that a visit can be left before, at and after each turning point and entered
again; two poses tell a captured pose from an old one. The stream is long enough for
a false start that swallows a true frame, and for two frames, with and without a payload, in either order:
an old length used for the second would show. Four faults put the
decoder into any position relative to the frame. Two groups and three members, one
of them finished in place, give torn, mixed and half-finished copies; three frames
let a copy meet two publications. Payloads of six bytes hold a packet with an item behind
it, items of every order, and items cut short; the five kinds of item are the single
value, the two packets, the one without a structure, and the unknown. A buffer of three on a line of two makes a read
take several turns and leaves bytes behind. Packets of none to five units for an
image of five, of which a frame holds two and the length field counts to four, give a
short last packet, a single packet, one that is too long, and one whose length wraps;
two pings and two properties give a first, a last and a retry. An NMEA buffer of six bytes with a
header of one holds a field, a star and a digit, overflows, and keeps the rest of a
longer sentence; two fields are one less than it can hold. Two bases, three addresses
and records of up to two bytes around a first buffer of three give records that meet, that straddle
the buffer, that grow it with and without a gap, and bases that go back. Two ports at two rates, one of them unknown to the
port, and two attempts give a place skipped, a place asked in vain, and one found at
either attempt; two lines give a first and a last. Poses on both sides
of the limit, three motors and twelve steps give every exit, a motor on either side of the chosen one and a
move whose largest step is not at its ends.

### Fairness

The control loop is one periodic thread that waits for nothing:
`WF(Next)`. The reader and the control thread each run: weak fairness of their
steps, but none of frames arriving. `CallsReturn` and `Resynchronises` ask that the
device keeps sending and say so. `UpdateEnds` and `CommandsEnd` ask that the process runs and, for the update, that a line that
is gone ends the request on it, which `read()` does by returning zero. Neither asks that a
device answers or that a request returns: with the idle timeout commented out nothing
in the code sees to that, so both properties name the wait for ever among the ways a command
can go on. What they exclude is every other one: a walk over places or attempts
that starts anew, packets or pings repeated without end. Neither the user nor the device has to do anything. The byte decoders on any stream, the hex conversion and the self-tests are stated without fairness.

Deadlock is checked except where the system may stop: after a call through null, at
the end of an update or a conversion, and when a self-test has exited.

### Conditions worth knowing

`Resynchronises` holds for frames without a pair of sync
codes in their payload. With such a pair, followed by a plausible length, a sensor
that repeats the same frame for ever can keep the decoder out of step for ever: the
decoder never looks again at the bytes of a frame it rejects. `QuietCopyIsWhole`
is about copies that meet no publication: others may mix two frames, and hold
`quat_no_yaw` before its rotation or `zyx(1)` with the wrong sign, and no property says
anything of such a copy but that none of its members goes back (`NeverGoesBack`). In the same way
`GivesUpLast` is about rates that the port knows, and `ReplacesWhatIsCarried` has the groups that a payload does not carry
keep their older values: the other rate and the older values are the subject of two of the configurations above. `InLockstep` has
two exceptions: after a read of less than two bytes, `raw_len - 2` wraps around and
the tool judges the last answer left in its buffer, so commands before the first
data packet can succeed on a closed line; and a packet size beyond what the length
field counts makes the device receive less than the tool takes for sent. `CompleteAccepted`
is about sentences with a checksum and says nothing of the fields that may follow its own. No self-test
disables the motors on any of its exits, and nothing says that one should.

## 4. What is proved

For every value of the constants, under the assumptions the modules name
(`ZeroAssumption`, `RlAssumption`, `ManagerAssumption`, `SelfTestAssumption`,
`DecoderAssumption`, `StreamAssumption`, `LinkAssumption`, `ReaderAssumption`,
`PayloadAssumption`, `KindsAssumption`, `NmeaAssumption`, `PortAssumption`,
`UpdateAssumption`, `HexAssumption`, `ToolAssumption`). They say that numbers are numbers
and, where the code relies on it, what its constants are: a buffer holds a header, the
sync codes differ, a group of values lies within its item and behind the item's tag. Three
say what lies outside: the sensor's frames are undamaged and fit the decoder's buffer
(`LinkAssumption`), the frames the reader is given are of whole payloads
(`KindsAssumption`), and `strtol` reads no further than a digit run (`NmeaAssumption`).

- `StateMachineProofs`. `TypeCorrect` for any requests. For requests for registered
  states, `InductiveHolds` ties the handshake flag to homing's clock, the walking memory
  to the current state and the request to the place in the loop; `WalkForgets`
  alone is not inductive, since it needs that EXIT really reaches the action, hence
  that its handler was started. From it follow `NeverNull`, `RequestsGovern`,
  `HomingRearmed`, `WalkingForgets`, `GainsMatch` and `Refinement` (every step is a step of
  `ModeController` or a stutter). `HomingBounded` is a fact about the cubic:
  0 <= 3Tc^2 - 2c^3 <= T^3 for c in 0..T, then interpolation between two poses.
  `HomingNears`: the cubic grows with the clock, and the
  flag says when the captured pose may change; again for registered states.
  `HomingComesHome`: the clock of a visit counts its ticks, and after `ZeroTicks` of them
  the command is the zero pose at rest.
  `ExampleHolds`, `UnhandledStays` and `UnhandledCrashes` (the next `run()` of a state without
  a handler goes through the null pointer) need no such condition.
  `RequestsGovern`, `GainsMatch`, `ExampleHolds` and the `TypeCorrect` theorems state properties that no run checks by itself.
  The self-tests' move runs along the quintic 6c^5 - 15Tc^4 + 10T^2c^3: `TestMovesToZero` (it
  grows from 0 to T^5, so every command lies between the two poses and the last is the pose
  asked for), `TestNeverJumps` (no step of it is longer than its steepest part, 15/8 of the
  average), `TestGainsAsAsked` and `TestTypeCorrect`.
- `HipnucProofs`. The invariant says that the buffer repeats the end of the stream,
  that every pair of sync codes lies in a segment or in the current frame, and that
  each segment has the shape its header says; "accepted iff undamaged" needs the
  buffer to mirror the stream. `WithinBuffer`, `FramesDelivered` (exactly
  the undamaged frames are reported) and `NothingElseMissed`. `LinkStaysInStep`: in step
  and on a settled line, the decoder's buffer holds what the sensor has sent of
  its frame, so every frame is reported with its last byte. `LinkComesIntoStep`: on a settled
  line one false start may be under way and one lie in the buffer's last byte; after that
  the decoder hunts to the next frame, so fewer than 2 * `MaxRaw` bytes pass until it is in
  step. As for `Resynchronises`, no frame may hold a second pair of sync codes: `LoneSync`.
- `HipnucReaderProofs`. Outside a publication the members of a group agree and are
  finished; samples only get older from decoder to shared members to copy.
  `QuietCopies`, `CopiesOnlyAdvance`. A frame cannot overtake its publication, so the
  members hold the decoder's latest samples whenever no frame waits: `SamplesAreHandedOn`. Of the decoder's walk over a payload,
  `PayloadReplaces`: after any number of turns it stands at an item or at the end, no item
  begins inside another, and each group has the value of the last item before that
  carries it. `DecodeIsParse`: so the reader's single decoding step is such a walk.
- `NmeaDecProofs`. While bytes are gathered, the buffer repeats the end of the line
  from its `$`. At the end of a line the string that C reads there begins with the sentence, and the first
  star, the first commas and the checksum are those of the sentence whatever follows it; that no
  field is cut behind the buffer needs that the message type there is never read as a comma or star. `TypeCorrect`, `SentencesAccepted`.
- `SerialPortProofs`. What a call has read, what it returned before and what the line
  still holds make up the stream. `TypeCorrect`, `TerminatorAlwaysFits`,
  `StreamIsKept`, `AnswersAreNew`. `CallsComeToAnEnd`: a call takes at most a step for each
  byte it wants, and only an empty open line holds it up.
- `FirmwareUpdateProofs`. The place in the image and the device's count agree after
  each answer, with the one exception of a stale answer, which the invariant follows
  through the commands before the first packet. `Lockstep`, `CompleteOnSuccess`, `NoneLeftWriting`.
  `UpdateComesToAnEnd`: counted in answers still to come, the way of the next one and the
  state of the line, every step but the acknowledgment of an empty packet goes nearer to the end.
- `HexToBinProofs`. After each line the buffer holds at each address the latest line
  that names it, and the start is the lowest address named. `ImageMatches`,
  `GapsFilled`, `DataGiveImage`, `TypeCorrect`.
- `HostToolProofs`. While a probe runs, every place before the current one was shut,
  unknown or asked in full; between finding and saving, the place is the device's
  unless it moved. `SettingsAreGood`, `GivesUpInTheEnd`, `TypeCorrect`. `CommandsComeToAnEnd`:
  each place costs at most 2 * `MaxAttempts` + 1 steps, whatever the device does; a request that
  does not return takes none.

The walk over a payload and the positions at which items begin are recursive functions. That
they exist, and what they compute, is proved without an induction theorem, whose operator
parameter the provers cannot instantiate: a set of numbers that is not empty has a
least one (`Least`, from the well-foundedness of `<`), so a claim that holds wherever it holds for
all smaller numbers fails nowhere (`AllBelow`).

Every safety invariant and action property that a passing run checks is stated by a theorem.
Only model-checked are the liveness properties: they need fairness, hence `ENABLED`, which
is out of the prover's reach. What they say without fairness is proved for seven of them:

| liveness property | its safety half |
|---|---|
| `HomingSettles` | `HomingComesHome` |
| `UnhandledIsFatal` | `UnhandledStays`, `UnhandledCrashes` |
| `Resynchronises` | `LinkComesIntoStep`, `LinkStaysInStep` |
| `SamplesArrive` | `SamplesAreHandedOn` |
| `CallsReturn` | `CallsComeToAnEnd` |
| `UpdateEnds` | `UpdateComesToAnEnd` |
| `CommandsEnd` | `CommandsComeToAnEnd` |

A theorem of the second column says how each step goes nearer to the goal and that no step goes
back; that the steps are taken is the fairness of the specification, and TLC checks the two together.
For `WalkingInfers` such a theorem would repeat the definition of the counter.
The properties of the configurations that end in a violation are of course not theorems.

## 5. Not modelled

Code delivered as headers with objects or libraries (motor bus, joystick,
simulator, filter, `DataPackage`'s methods, `main`) appears as external actions
where the open source calls it. `cmd_read` is the loop of `HipnucReader` with a
display. Reading what an NMEA field says, scaling, reading YAML, formatting, logging
(a vendored file), listing ports, the commands `list` and `example`,
argument parsing and the self-tests that only print change no state that anything
else depends on. The system calls of opening and configuring a port are left out, but for
their failing. Everything under `ThirdParty/` is vendored.

## 6. State of the work

Modelled: all of the open control loop, both decoders, the reader, reading and writing a
serial port, the tool's commands that change something, and the motor self-tests.

Left, in this order: the two homing end ticks under floating-point rounding; the output of
the device that `write` and a killed `probe` leave switched off, together with the reader that then waits.
