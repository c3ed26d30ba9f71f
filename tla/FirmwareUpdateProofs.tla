------------------------ MODULE FirmwareUpdateProofs ------------------------
(***************************************************************************)
(* Proofs about the update command, for every image, packet size, number   *)
(* of attempts and of properties.                                          *)
(***************************************************************************)
EXTENDS FirmwareUpdate, SequenceTheorems, TLAPS

(* The counter belongs to the loop the tool is in.                         *)
Counting ==
  /\ pc \in {"convert", "open", "rst"} => count = 0
  /\ pc = "ping" => count < Attempts
  /\ pc = "props" => count < Props

(* What an answer tells of the line and the device, and where a command    *)
(* can be that has a result.                                               *)
Answers ==
  /\ pc \in {"convert", "open", "done"} => reply = "idle"
  /\ reply \in {"short", "nothing"} => ~connected
  /\ reply = "refused" => pc \in refused
  /\ result # 1 => pc = "done"
  /\ pc \notin {"data", "reset", "abort", "done"} => bytes_written = 0
  /\ pc = "reset" => bytes_written = Size

(* What the device holds at each step of an update that was not refused    *)
(* the erase and whose packets fit their length field.                     *)
Mirrors ==
  ("erase" \notin refused /\ packet < LengthWrap) =>
    /\ pc = "erase" /\ reply = "ok" => flash = <<>>
    /\ pc = "write" /\ connected => flash = <<>>
    /\ pc = "data" /\ reply = "ok" => flash = Part(bytes_written + Chunk)
    /\ pc = "data" /\ (connected \/ bytes_written > 0) /\ reply \notin {"ok", "damaged"}
         => flash = Part(bytes_written)
    /\ pc = "data" /\ (connected \/ bytes_written > 0) /\ reply = "damaged"
         => flash \in {Part(bytes_written), Part(bytes_written + Chunk)}
    /\ pc = "reset" => flash = Image
    /\ result = 0 => flash = Image

(* When the device waits for data, and that a reset it obeyed ends it.     *)
Waits ==
  /\ writing => pc \in {"write", "data", "reset", "abort", "done"}
  /\ pc \in {"abort", "reset"} /\ reply \in {"ok", "damaged"} /\ pc \notin refused => ~writing
  /\ pc = "done" /\ connected /\ refused \cap {"abort", "reset"} = {} => ~writing

Inductive == TypeOK /\ Counting /\ Answers /\ Mirrors /\ Waits

(***************************************************************************)
(* Packets.                                                                *)
(***************************************************************************)
LEMMA ChunkRange ==
  ASSUME TypeOK
  PROVE  /\ Chunk \in Nat /\ bytes_written + Chunk \in 0 .. Size
         /\ Wire \in 0 .. Chunk
         /\ packet < LengthWrap => Wire = Chunk
<1>1. /\ Size \in Nat /\ bytes_written \in 0 .. Size /\ packet \in Nat
      /\ LengthWrap \in Nat /\ LengthWrap > 0
  BY UpdateAssumption DEF TypeOK
<1>2. Chunk \in Nat /\ bytes_written + Chunk \in 0 .. Size /\ Chunk <= packet
  BY <1>1 DEF Chunk
<1> DEFINE c == Chunk
<1>3. c \in Nat
  BY <1>2
<1> HIDE DEF c
<1>4. c % LengthWrap \in 0 .. c /\ (c < LengthWrap => c % LengthWrap = c)
  BY <1>1, <1>3
<1> QED
  BY <1>1, <1>2, <1>4 DEF Wire, c

(* A part of the image is a sequence of its units, never the old firmware. *)
LEMMA PartIsSeq ==
  ASSUME NEW n \in 0 .. Size
  PROVE  /\ Part(n) \in Seq(1 .. Size)
         /\ Len(Part(n)) = n
         /\ \A i \in 1 .. n : Part(n)[i] = i
         /\ Part(n) # OldFirmware
<1>1. n \in Nat /\ Size \in Nat
  BY UpdateAssumption
<1>2. Part(n) \in Seq(1 .. Size)
  <2>1. \A i \in 1 .. n : i \in 1 .. Size
    BY <1>1
  <2> QED
    BY <1>1, <2>1, IsASeq DEF Part
<1>3. Len(Part(n)) = n /\ \A i \in 1 .. n : Part(n)[i] = i
  BY <1>1 DEF Part
<1>4. Part(n) # OldFirmware
  <2>1. Len(OldFirmware) = 1 /\ OldFirmware[1] = 0
    BY DEF OldFirmware
  <2> QED
    BY <1>1, <1>3, <2>1
<1> QED
  BY <1>2, <1>3, <1>4

LEMMA NothingWritten == Part(0) = <<>>
<1>1. 0 \in 0 .. Size
  BY UpdateAssumption
<1>2. Part(0) \in Seq(1 .. Size) /\ Len(Part(0)) = 0
  BY <1>1, PartIsSeq
<1>3. <<>> \in Seq(1 .. Size) /\ Len(<<>>) = 0
  BY EmptySeq
<1> QED
  BY <1>2, <1>3, SeqEqual

(* The next packet behind what is there makes the longer part.             *)
LEMMA PacketExtends ==
  ASSUME NEW n \in Nat, NEW m \in Nat, n + m <= Size
  PROVE  Part(n) \o [i \in 1 .. m |-> n + i] = Part(n + m)
<1> DEFINE d == [i \in 1 .. m |-> n + i]
           S == 1 .. Size
<1>0. Size \in Nat /\ n \in 0 .. Size /\ n + m \in 0 .. Size
  BY UpdateAssumption
<1>1. d \in Seq(S) /\ Len(d) = m /\ \A i \in 1 .. m : d[i] = n + i
  <2>1. \A i \in 1 .. m : n + i \in S
    BY <1>0
  <2>2. d \in Seq(S)
    BY <2>1, IsASeq
  <2> QED
    BY <2>2
<1>2. /\ Part(n) \in Seq(S) /\ Len(Part(n)) = n /\ \A i \in 1 .. n : Part(n)[i] = i
      /\ Part(n + m) \in Seq(S) /\ Len(Part(n + m)) = n + m
      /\ \A i \in 1 .. n + m : Part(n + m)[i] = i
  BY <1>0, PartIsSeq
<1> HIDE DEF d, S
<1> DEFINE long == Part(n) \o d
<1>3. /\ long \in Seq(S) /\ Len(long) = n + m
      /\ \A i \in 1 .. n + m : long[i] = IF i <= n THEN Part(n)[i] ELSE d[i - n]
  <2>1. /\ long \in Seq(S) /\ Len(long) = Len(Part(n)) + Len(d)
        /\ \A i \in 1 .. Len(Part(n)) + Len(d) :
             long[i] = IF i <= Len(Part(n)) THEN Part(n)[i] ELSE d[i - Len(Part(n))]
    BY <1>1, <1>2, ConcatProperties, ZenonT(30)
  <2> QED
    BY <1>1, <1>2, <2>1, Zenon
<1> HIDE DEF long
<1>4. \A i \in 1 .. n + m : long[i] = i
  <2> SUFFICES ASSUME NEW i \in 1 .. n + m PROVE long[i] = i
    OBVIOUS
  <2>1. CASE i <= n
    BY <1>2, <1>3, <2>1
  <2>2. CASE ~ (i <= n)
    <3>1. i - n \in 1 .. m
      BY <2>2
    <3> QED
      BY <1>1, <1>3, <2>2, <3>1
  <2> QED
    BY <2>1, <2>2
<1>5. long = Part(n + m)
  BY <1>2, <1>3, <1>4, SeqEqual
<1> QED
  BY <1>5 DEF long, d

(***************************************************************************)
(* Every step keeps the invariant.                                         *)
(***************************************************************************)
LEMMA InitInductive == Init => Inductive
<1> SUFFICES ASSUME Init PROVE Inductive
  OBVIOUS
<1>1. Attempts \in Nat \ {0} /\ Props \in Nat \ {0} /\ Size \in Nat \ {0}
  BY UpdateAssumption
<1>2. TypeOK
  <2>1. count \in 0 .. Attempts + Props /\ bytes_written \in 0 .. Size
    BY <1>1 DEF Init
  <2>2. /\ packet \in PacketSizes \cup {0} /\ result \in {-1, 0, 1} /\ refused \subseteq Requests
        /\ pc \in Requests \cup {"convert", "open", "done"} /\ flash = OldFirmware
        /\ reply \in {"idle", "sent", "ok", "refused", "damaged", "short", "nothing"}
        /\ seen \in BOOLEAN /\ connected \in BOOLEAN /\ writing \in BOOLEAN
    BY DEF Init
  <2> QED
    BY <2>1, <2>2 DEF TypeOK
<1>3. Counting /\ Answers /\ Mirrors /\ Waits
  BY <1>1 DEF Init, Counting, Answers, Mirrors, Waits
<1> QED
  BY <1>2, <1>3 DEF Inductive

(* The ranges.                                                             *)
LEMMA TypedStep == Inductive /\ [Next]_vars => TypeOK'
<1> SUFFICES ASSUME Inductive, [Next]_vars PROVE TypeOK'
  OBVIOUS
<1> USE DEF Inductive
<1>0. /\ Chunk \in Nat /\ bytes_written + Chunk \in 0 .. Size /\ Wire \in 0 .. Chunk
      /\ Attempts \in Nat \ {0} /\ Props \in Nat \ {0} /\ Size \in Nat \ {0}
  BY ChunkRange, UpdateAssumption
<1>1. CASE Obey
  <2>1. flash' = OldFirmware \/ flash' \in Seq(1 .. Size)
    <3>1. CASE pc = "erase"
      BY <1>1, <3>1, EmptySeq DEF Obey
    <3>2. CASE pc = "data" /\ flash # OldFirmware
      <4>1. Data \in Seq(1 .. Size)
        <5>1. \A i \in 1 .. Wire : bytes_written + i \in 1 .. Size
          BY <1>0 DEF TypeOK
        <5> QED
          BY <1>0, <5>1, IsASeq DEF Data
      <4>2. flash \in Seq(1 .. Size)
        BY <3>2 DEF TypeOK
      <4>3. flash' = flash \o Data
        BY <1>1, <3>2 DEF Obey
      <4> QED
        BY <4>1, <4>2, <4>3, ConcatProperties
    <3>3. CASE pc # "erase" /\ ~ (pc = "data" /\ flash # OldFirmware)
      BY <1>1, <3>3 DEF Obey, TypeOK
    <3> QED
      BY <3>1, <3>2, <3>3
  <2> QED
    BY <1>1, <2>1 DEF Obey, TypeOK, host
<1>2. CASE DataAcknowledged
  <2>1. bytes_written' \in 0 .. Size /\ pc' \in Requests
    BY <1>0, <1>2 DEF DataAcknowledged, Requests, Commands
  <2> QED
    BY <1>2, <2>1 DEF DataAcknowledged, Take, TypeOK, device
<1>3. CASE PingMissed \/ PingAnswered \/ PropertyRead
  <2>1. count' \in 0 .. Attempts + Props
    BY <1>0, <1>3 DEF PingMissed, PingAnswered, PropertyRead, Finish, TypeOK, Counting
  <2>2. /\ pc' \in Requests \cup {"done"} /\ packet' \in PacketSizes \cup {0}
        /\ result' \in {-1, 0, 1} /\ bytes_written' = bytes_written
    BY <1>3 DEF PingMissed, PingAnswered, PropertyRead, Finish, TypeOK, Requests, Commands
  <2>3. reply' = "idle" /\ seen' \in BOOLEAN /\ UNCHANGED <<connected, device>>
    BY <1>3 DEF PingMissed, PingAnswered, PropertyRead, Take, TypeOK
  <2> QED
    BY <2>1, <2>2, <2>3 DEF TypeOK, device
<1>4. CASE Prepare("convert", "open") \/ Prepare("open", "rst") \/ Send \/ DataTooLong
  <2>1. CASE Prepare("convert", "open") \/ Prepare("open", "rst")
    BY <2>1 DEF Prepare, GoTo, Finish, TypeOK, Requests, Commands, device, host
  <2>2. CASE Send
    BY <2>2 DEF Send, TypeOK, Requests, Commands, device, host
  <2>3. CASE DataTooLong
    BY <2>3 DEF DataTooLong, GoTo, TypeOK, Requests, Commands, device, host
  <2> QED
    BY <1>4, <2>1, <2>2, <2>3
<1>5. CASE Restarted \/ Erased \/ Announced \/ StepFails \/ Aborted \/ DeviceReset
  BY <1>5 DEF Restarted, Erased, Announced, StepFails, Aborted, DeviceReset, GoTo, Finish, Take,
              TypeOK, Requests, Commands, device
<1>6. CASE Refuse
  BY <1>6 DEF Refuse, TypeOK, host, Answers, Requests, Commands
<1>7. CASE CutOff \/ Damage \/ Close \/ UNCHANGED vars
  BY <1>7 DEF CutOff, Damage, Close, TypeOK, host, device, vars
<1> QED
  BY <1>1, <1>2, <1>3, <1>4, <1>5, <1>6, <1>7 DEF Next, Host, Answer

(* The counters, and what an answer tells.                                 *)
LEMMA CountedStep == Inductive /\ [Next]_vars => Counting' /\ Answers'
<1> SUFFICES ASSUME Inductive, [Next]_vars PROVE Counting' /\ Answers'
  OBVIOUS
<1> USE DEF Inductive, Counting, Answers
<1>0. /\ Chunk \in Nat /\ bytes_written + Chunk \in 0 .. Size
      /\ Attempts \in Nat \ {0} /\ Props \in Nat \ {0} /\ Size \in Nat \ {0}
      /\ count \in Nat /\ bytes_written \in 0 .. Size
  BY ChunkRange, UpdateAssumption DEF TypeOK
<1>1. CASE Obey \/ Refuse \/ CutOff
  BY <1>1 DEF Obey, Refuse, CutOff, host, device
<1>2. CASE Damage \/ Close
  BY <1>2 DEF Damage, Close, host, device
<1>3. CASE Prepare("convert", "open") \/ Prepare("open", "rst") \/ Send \/ DataTooLong
  BY <1>0, <1>3 DEF Prepare, Send, DataTooLong, GoTo, Finish, device, host, Requests, Commands
<1>4. CASE Restarted \/ PingMissed \/ PingAnswered \/ PropertyRead
  BY <1>0, <1>4 DEF Restarted, PingMissed, PingAnswered, PropertyRead, GoTo, Finish, Take, device
<1>5. CASE Erased \/ Announced \/ StepFails \/ Aborted \/ DeviceReset
  BY <1>0, <1>5 DEF Erased, Announced, StepFails, Aborted, DeviceReset, GoTo, Finish, Take, device
<1>6. CASE DataAcknowledged
  BY <1>0, <1>6 DEF DataAcknowledged, Take, device
<1>7. CASE UNCHANGED vars
  BY <1>7 DEF host, device, vars
<1> QED
  BY <1>1, <1>2, <1>3, <1>4, <1>5, <1>6, <1>7 DEF Next, Host, Answer

(* The device waits for data in an update only.                            *)
LEMMA WaitingStep == Inductive /\ [Next]_vars => Waits'
<1> SUFFICES ASSUME Inductive, [Next]_vars PROVE Waits'
  OBVIOUS
<1> USE DEF Inductive, Answers, Waits
<1>1. CASE Obey
  BY <1>1 DEF Obey, host, TypeOK, Requests, Commands
<1>2. CASE Refuse \/ CutOff
  BY <1>2 DEF Refuse, CutOff, host, device
<1>3. CASE Damage \/ Close
  BY <1>3 DEF Damage, Close, host, device
<1>4. CASE Prepare("convert", "open") \/ Prepare("open", "rst") \/ Send \/ DataTooLong
  BY <1>4 DEF Prepare, Send, DataTooLong, GoTo, Finish, device, host, Requests, Commands
<1>5. CASE Restarted \/ PingMissed \/ PingAnswered \/ PropertyRead \/ Erased
  BY <1>5 DEF Restarted, PingMissed, PingAnswered, PropertyRead, Erased, GoTo, Finish, Take, device
<1>6. CASE Announced \/ StepFails \/ DataAcknowledged
  BY <1>6 DEF Announced, StepFails, DataAcknowledged, GoTo, Take, device
<1>7. CASE Aborted \/ DeviceReset
  BY <1>7 DEF Aborted, DeviceReset, MaySucceed, MayFail, Commands, Finish, Take, device
<1>8. CASE UNCHANGED vars
  BY <1>8 DEF host, device, vars
<1> QED
  BY <1>1, <1>2, <1>3, <1>4, <1>5, <1>6, <1>7, <1>8 DEF Next, Host, Answer

(* The device holds what the tool has counted.                             *)
LEMMA MirroredStep == Inductive /\ [Next]_vars => Mirrors'
<1> SUFFICES ASSUME Inductive, [Next]_vars, ("erase" \notin refused /\ packet < LengthWrap)'
             PROVE  Mirrors'
  BY DEF Mirrors
<1> USE DEF Inductive
<1>0. /\ Chunk \in Nat /\ bytes_written + Chunk \in 0 .. Size /\ Wire \in 0 .. Chunk
      /\ Size \in Nat \ {0} /\ bytes_written \in 0 .. Size
      /\ packet < LengthWrap => Wire = Chunk
  BY ChunkRange, UpdateAssumption DEF TypeOK
<1>1. CASE Obey
  <2>1. "erase" \notin refused /\ packet < LengthWrap /\ UNCHANGED <<pc, bytes_written, packet>>
    BY <1>1 DEF Obey, host
  <2>2. Chunk' = Chunk
    BY <2>1 DEF Chunk
  <2>3. CASE pc = "data"
    <3>1. flash = Part(bytes_written)
      BY <1>1, <2>1, <2>3 DEF Obey, Mirrors
    <3>2. flash # OldFirmware
      BY <1>0, <3>1, PartIsSeq
    <3>3. flash' = flash \o Data
      BY <1>1, <2>3, <3>2 DEF Obey
    <3>4. flash' = Part(bytes_written + Chunk)
      <4>1. Data = [i \in 1 .. Chunk |-> bytes_written + i]
        BY <1>0, <2>1 DEF Data
      <4>2. bytes_written \in Nat /\ bytes_written + Chunk <= Size
        BY <1>0
      <4>3. Part(bytes_written) \o [i \in 1 .. Chunk |-> bytes_written + i]
              = Part(bytes_written + Chunk)
        BY <1>0, <4>2, PacketExtends, Zenon
      <4> QED
        BY <3>1, <3>3, <4>1, <4>3, Zenon
    <3> QED
      <4>1. /\ pc' = "data" /\ reply' = "ok" /\ result' = 1
            /\ flash' = Part(bytes_written' + Chunk')
        BY <1>1, <2>1, <2>2, <2>3, <3>4 DEF Obey, host, Answers
      <4> QED
        BY <4>1 DEF Mirrors
  <2>4. CASE pc # "data"
    <3>1. /\ pc' = pc /\ reply' = "ok" /\ connected' = connected /\ result' = result /\ pc' # "data"
          /\ pc = "erase" => flash' = <<>>
          /\ pc # "erase" => flash' = flash
      BY <1>1, <2>4 DEF Obey, host
    <3>2. result' # 0
      BY <1>1, <3>1 DEF Obey, Answers
    <3> QED
      BY <2>1, <3>1, <3>2 DEF Mirrors
  <2> QED
    BY <2>3, <2>4
<1>2. CASE Refuse \/ CutOff \/ Damage \/ Close \/ Send
  <2>1. /\ "erase" \notin refused /\ packet < LengthWrap
        /\ UNCHANGED <<pc, bytes_written, packet, flash, result>>
    BY <1>2 DEF Refuse, CutOff, Damage, Close, Send, host, device
  <2>2. Chunk' = Chunk
    BY <2>1 DEF Chunk
  <2> QED
    BY <1>2, <2>1, <2>2 DEF Refuse, CutOff, Damage, Close, Send, Mirrors, Answers, Requests, Commands
<1>3. CASE Prepare("convert", "open") \/ Prepare("open", "rst") \/ DataTooLong
  BY <1>3 DEF Prepare, DataTooLong, GoTo, Finish, device, Mirrors, Answers
<1>4. CASE Restarted \/ PingMissed \/ PingAnswered \/ PropertyRead \/ StepFails \/ Aborted
  BY <1>4 DEF Restarted, PingMissed, PingAnswered, PropertyRead, StepFails, Aborted, GoTo, Finish,
              Take, device, Mirrors, Answers
<1>5. CASE Erased
  BY <1>5 DEF Erased, GoTo, MaySucceed, Take, device, Mirrors, Answers
<1>6. CASE Announced
  <2>1. bytes_written = 0 /\ bytes_written' = 0
    BY <1>6 DEF Announced, GoTo, Answers
  <2> QED
    BY <1>6, <2>1, NothingWritten DEF Announced, GoTo, Take, device, Mirrors, Answers
<1>7. CASE DataAcknowledged
  <2>1. "erase" \notin refused /\ packet < LengthWrap /\ reply = "ok"
    BY <1>7 DEF DataAcknowledged, MaySucceed, Commands, Take, device
  <2>2. flash' = Part(bytes_written')
    BY <1>7, <2>1 DEF DataAcknowledged, Take, device, Mirrors
  <2>3. pc' = "reset" => bytes_written' = Size
    BY <1>0, <1>7 DEF DataAcknowledged
  <2>4. pc' \in {"data", "reset"} /\ reply' = "idle" /\ result' # 0
    BY <1>7 DEF DataAcknowledged, Take, Answers
  <2> QED
    BY <2>2, <2>3, <2>4 DEF Mirrors, Image
<1>8. CASE DeviceReset
  BY <1>8 DEF DeviceReset, Finish, Take, device, Mirrors, Answers
<1>9. CASE UNCHANGED vars
  <2>1. Chunk' = Chunk
    BY <1>9 DEF vars, host, Chunk
  <2> QED
    BY <1>9, <2>1 DEF host, device, vars, Mirrors
<1> QED
  BY <1>1, <1>2, <1>3, <1>4, <1>5, <1>6, <1>7, <1>8, <1>9 DEF Next, Host, Answer

(* Every reachable state satisfies the invariant.                          *)
THEOREM InductiveHolds == Spec => []Inductive
<1>1. Inductive /\ [Next]_vars => Inductive'
  BY TypedStep, CountedStep, WaitingStep, MirroredStep DEF Inductive
<1> QED
  BY InitInductive, <1>1, PTL DEF Spec

(* No more is written than there is, and every counter stays in its range  *)
(* (commands.c:524-586).                                                   *)
THEOREM TypeCorrect == Spec => []TypeOK
<1>1. Inductive => TypeOK
  BY DEF Inductive
<1> QED
  BY <1>1, InductiveHolds, PTL

(* No packet is skipped, doubled or reordered (commands.c:563-572).        *)
THEOREM Lockstep == Spec => []InLockstep
<1>1. Inductive => InLockstep
  <2> SUFFICES ASSUME Inductive, pc \in {"data", "reset"}, connected \/ bytes_written > 0,
                      "erase" \notin refused, packet < LengthWrap
               PROVE  \/ flash = Part(bytes_written)
                      \/ pc = "data" /\ reply # "idle" /\ flash = Part(bytes_written + Chunk)
    BY DEF InLockstep
  <2>1. CASE pc = "reset"
    BY <2>1 DEF Inductive, Mirrors, Answers, Image
  <2>2. CASE pc = "data"
    BY <2>2 DEF Inductive, Mirrors
  <2> QED
    BY <2>1, <2>2
<1> QED
  BY <1>1, InductiveHolds, PTL

(* A reported success is a complete image, in order, on a device that did  *)
(* not refuse to erase (commands.c:563-596).                               *)
THEOREM CompleteOnSuccess == Spec => []SuccessIsComplete
<1>1. Inductive => SuccessIsComplete
  BY DEF Inductive, Mirrors, SuccessIsComplete
<1> QED
  BY <1>1, InductiveHolds, PTL

(* A finished update leaves no device waiting for data that obeyed the     *)
(* last reset (commands.c:542-570).                                        *)
THEOREM NoneLeftWriting == Spec => []NotLeftWriting
<1>1. Inductive => NotLeftWriting
  BY DEF Inductive, Waits, NotLeftWriting
<1> QED
  BY <1>1, InductiveHolds, PTL

(***************************************************************************)
(* The command comes to an end.                                            *)
(***************************************************************************)

(* How many answers the tool can still have to take.                       *)
Ahead ==
  CASE pc = "done" -> 0
    [] pc \in {"abort", "reset"} -> 1
    [] pc = "data" -> 1 + (Size - bytes_written)
    [] pc = "write" -> 2 + Size
    [] pc = "erase" -> 3 + Size
    [] pc = "props" -> 3 + Size + (Props - count)
    [] pc = "ping" -> 3 + Size + Props + (Attempts - count)
    [] pc = "rst" -> 4 + Size + Props + Attempts
    [] pc = "open" -> 5 + Size + Props + Attempts
    [] pc = "convert" -> 6 + Size + Props + Attempts

(* How far the next one is on its way.                                     *)
Coming ==
  CASE reply = "idle" -> 3
    [] reply = "sent" -> 2
    [] reply \in {"ok", "refused"} -> 1
    [] OTHER -> 0

Line == IF connected THEN 1 ELSE 0

Remaining == 4 * Ahead + Coming + Line

(* Every step there is, the line's and the device's included, lessens a    *)
(* natural number, but for the acknowledgment of an empty packet, which    *)
(* the tool sends again for ever: the safety half of UpdateEnds            *)
(* (commands.c:524-572).                                                   *)
ComesToAnEnd ==
  /\ [](Remaining \in Nat)
  /\ [][Remaining' < Remaining \/ (DataAcknowledged /\ packet = 0)]_vars

(* While packets are sent one is left to be sent.                          *)
Unsent == pc = "data" => bytes_written < Size

Measured == Inductive /\ Unsent

LEMMA MeasuredHolds == Spec => []Measured
<1>1. Init => Unsent
  BY DEF Init, Unsent
<1>2. Inductive /\ Unsent /\ [Next]_vars => Unsent'
  <2> SUFFICES ASSUME Inductive, Unsent, [Next]_vars PROVE Unsent'
    OBVIOUS
  <2>0. Size \in Nat \ {0}
    BY UpdateAssumption
  <2>1. CASE Announced
    BY <2>0, <2>1 DEF Announced, GoTo, Unsent, Inductive, Answers
  <2>2. CASE DataAcknowledged
    BY <2>2 DEF DataAcknowledged, Unsent
  <2>3. CASE Host /\ ~Announced /\ ~DataAcknowledged
    BY <2>3 DEF Host, Prepare, Send, DataTooLong, Restarted, PingMissed, PingAnswered,
                PropertyRead, Erased, StepFails, Aborted, DeviceReset, GoTo, Finish, Unsent, host
  <2>4. CASE Answer \/ Damage \/ Close \/ UNCHANGED vars
    BY <2>4 DEF Answer, Obey, Refuse, CutOff, Damage, Close, Unsent, host, vars
  <2> QED
    BY <2>1, <2>2, <2>3, <2>4 DEF Next
<1> QED
  BY <1>1, <1>2, InductiveHolds, PTL DEF Spec, Measured

AheadIs ==
  /\ Ahead \in Nat
  /\ pc \in {"abort", "reset"} => Ahead = 1
  /\ pc = "data" => Ahead = 1 + (Size - bytes_written) /\ Ahead > 1
  /\ pc = "write" => Ahead = 2 + Size
  /\ pc = "erase" => Ahead = 3 + Size
  /\ pc = "props" => Ahead = 3 + Size + (Props - count) /\ Ahead > 3 + Size
  /\ pc = "ping" => Ahead = 3 + Size + Props + (Attempts - count) /\ Ahead > 3 + Size + Props
  /\ pc = "rst" => Ahead = 4 + Size + Props + Attempts
  /\ pc = "open" => Ahead = 5 + Size + Props + Attempts
  /\ pc = "convert" => Ahead = 6 + Size + Props + Attempts
  /\ pc = "done" => Ahead = 0

ComingIs ==
  /\ Coming \in 0 .. 3 /\ Line \in 0 .. 1
  /\ reply = "idle" => Coming = 3
  /\ reply = "sent" => Coming = 2
  /\ reply \in {"ok", "refused"} => Coming = 1
  /\ reply \in {"damaged", "short", "nothing"} => Coming = 0
  /\ connected => Line = 1
  /\ ~connected => Line = 0

LEMMA AheadFacts == Measured => AheadIs
<1> SUFFICES ASSUME Measured PROVE AheadIs
  OBVIOUS
<1>1. Size \in Nat \ {0} /\ Attempts \in Nat \ {0} /\ Props \in Nat \ {0}
  BY UpdateAssumption
<1>2. /\ pc \in {"rst", "ping", "data", "props", "erase", "write", "reset", "abort",
                 "convert", "open", "done"}
      /\ count \in Int /\ bytes_written \in 0 .. Size
      /\ pc = "data" => bytes_written < Size
      /\ pc = "ping" => count < Attempts
      /\ pc = "props" => count < Props
  BY <1>1 DEF Measured, Inductive, TypeOK, Counting, Unsent, Requests, Commands
<1> QED
  BY <1>1, <1>2 DEF Ahead, AheadIs

LEMMA ComingFacts == ComingIs
BY DEF Coming, Line, ComingIs

(* A step of the tool that takes an answer, or that needs none, goes one   *)
(* place ahead.                                                            *)
LEMMA ToolGoesAhead ==
  ASSUME Measured, Measured', Host, ~Send, ~(DataAcknowledged /\ packet = 0)
  PROVE  Ahead' < Ahead
<1>0. /\ Size \in Nat \ {0} /\ Attempts \in Nat \ {0} /\ Props \in Nat \ {0}
      /\ count \in Int /\ bytes_written \in 0 .. Size /\ packet \in Nat
  BY UpdateAssumption DEF Measured, Inductive, TypeOK
<1> DEFINE A == Ahead
           B == Ahead'
<1>1. /\ A \in Nat
      /\ pc \in {"abort", "reset"} => A = 1
      /\ pc = "data" => A = 1 + (Size - bytes_written) /\ A > 1
      /\ pc = "write" => A = 2 + Size
      /\ pc = "erase" => A = 3 + Size
      /\ pc = "props" => A = 3 + Size + (Props - count) /\ A > 3 + Size
      /\ pc = "ping" => A = 3 + Size + Props + (Attempts - count) /\ A > 3 + Size + Props
      /\ pc = "rst" => A = 4 + Size + Props + Attempts
      /\ pc = "open" => A = 5 + Size + Props + Attempts
      /\ pc = "convert" => A = 6 + Size + Props + Attempts
  BY AheadFacts DEF AheadIs
<1>2. /\ B \in Nat
      /\ pc' \in {"abort", "reset"} => B = 1
      /\ pc' = "data" => B = 1 + (Size - bytes_written')
      /\ pc' = "write" => B = 2 + Size
      /\ pc' = "erase" => B = 3 + Size
      /\ pc' = "props" => B = 3 + Size + (Props - count')
      /\ pc' = "ping" => B = 3 + Size + Props + (Attempts - count')
      /\ pc' = "rst" => B = 4 + Size + Props + Attempts
      /\ pc' = "open" => B = 5 + Size + Props + Attempts
      /\ pc' = "done" => B = 0
  <2>1. (Measured => AheadIs)'
    BY AheadFacts, PTL
  <2> QED
    BY <2>1 DEF AheadIs
<1> SUFFICES B < A
  OBVIOUS
<1> HIDE DEF A, B
<1>3. CASE Prepare("convert", "open") \/ Prepare("open", "rst")
  BY <1>0, <1>1, <1>2, <1>3 DEF Prepare, GoTo, Finish
<1>4. CASE DataTooLong
  BY <1>0, <1>1, <1>2, <1>4 DEF DataTooLong, GoTo
<1>5. CASE Restarted
  <2>1. pc = "rst" => count = 0
    BY DEF Measured, Inductive, Counting
  <2> QED
    BY <1>0, <1>1, <1>2, <1>5, <2>1 DEF Restarted, GoTo
<1>6. CASE PingMissed
  BY <1>0, <1>1, <1>2, <1>6 DEF PingMissed, Finish
<1>7. CASE PingAnswered
  BY <1>0, <1>1, <1>2, <1>7 DEF PingAnswered
<1>8. CASE PropertyRead
  BY <1>0, <1>1, <1>2, <1>8 DEF PropertyRead
<1>9. CASE Erased
  BY <1>0, <1>1, <1>2, <1>9 DEF Erased, GoTo
<1>10. CASE Announced
  <2>1. pc = "write" => bytes_written = 0
    BY DEF Measured, Inductive, Answers
  <2> QED
    BY <1>0, <1>1, <1>2, <1>10, <2>1 DEF Announced, GoTo
<1>11. CASE DataAcknowledged
  <2>1. pc = "data" /\ bytes_written < Size /\ packet # 0
    BY <1>11 DEF DataAcknowledged, Measured, Unsent
  <2>2. Chunk \in Nat /\ Chunk > 0 /\ bytes_written + Chunk <= Size
    BY <1>0, <2>1 DEF Chunk
  <2>3. bytes_written' = bytes_written + Chunk /\ pc' \in {"data", "reset"}
    BY <1>11 DEF DataAcknowledged
  <2> QED
    BY <1>0, <1>1, <1>2, <2>1, <2>2, <2>3
<1>12. CASE StepFails \/ Aborted \/ DeviceReset
  BY <1>0, <1>1, <1>2, <1>12 DEF StepFails, Aborted, DeviceReset, GoTo, Finish
<1> QED
  BY <1>3, <1>4, <1>5, <1>6, <1>7, <1>8, <1>9, <1>10, <1>11, <1>12 DEF Host

(* Every step of an update but the acknowledgment of an empty packet takes *)
(* it nearer to its end, for every image, packet size, number of attempts  *)
(* and of properties (commands.c:524-572).                                 *)
THEOREM UpdateComesToAnEnd == Spec => ComesToAnEnd
<1>1. Measured => Remaining \in Nat
  <2> SUFFICES ASSUME Measured PROVE Remaining \in Nat
    OBVIOUS
  <2>1. Ahead \in Nat /\ Coming \in 0 .. 3 /\ Line \in 0 .. 1
    BY AheadFacts, ComingFacts DEF AheadIs, ComingIs
  <2> QED
    BY <2>1 DEF Remaining
<1>2. Measured /\ Measured' /\ [Next]_vars
        => [Remaining' < Remaining \/ (DataAcknowledged /\ packet = 0)]_vars
  <2> SUFFICES ASSUME Measured, Measured', Next, ~(DataAcknowledged /\ packet = 0)
               PROVE  Remaining' < Remaining
    OBVIOUS
  <2> DEFINE A == Ahead
             B == Ahead'
             C == Coming
             D == Coming'
             L == Line
             M == Line'
  <2>0. AheadIs /\ (Measured => AheadIs)' /\ ComingIs /\ ComingIs'
    <3>1. (Measured => AheadIs)'
      BY AheadFacts, PTL
    <3>2. ComingIs'
      BY ComingFacts, PTL
    <3> QED
      BY <3>1, <3>2, AheadFacts, ComingFacts
  <2>1. A \in Nat /\ B \in Nat
    BY <2>0 DEF AheadIs
  <2>2. C \in 0 .. 3 /\ D \in 0 .. 3 /\ L \in 0 .. 1 /\ M \in 0 .. 1
    BY <2>0 DEF ComingIs
  <2>3. /\ reply = "idle" => C = 3
        /\ reply = "sent" => C = 2
        /\ reply \in {"ok", "refused"} => C = 1
    BY <2>0 DEF ComingIs
  <2>4. /\ reply' = "sent" => D = 2
        /\ reply' \in {"ok", "refused"} => D = 1
        /\ reply' \in {"damaged", "short", "nothing"} => D = 0
    BY <2>0 DEF ComingIs
  <2>5. /\ connected => L = 1
        /\ ~connected' => M = 0
        /\ connected' = connected => M = L
        /\ reply' = reply => D = C
    BY <2>0 DEF Line, Coming, ComingIs
  <2>5a. UNCHANGED <<pc, count, bytes_written>> => B = A
    BY DEF Ahead
  <2>6. Host /\ ~Send => B < A
    BY ToolGoesAhead
  <2> HIDE DEF A, B, C, D, L, M
  <2>7. 4 * B + D + M < 4 * A + C + L
    <3>1. CASE Host /\ ~Send
      <4>1. B < A
        BY <2>6, <3>1
      <4>2. connected' = connected /\ (reply' = reply \/ reply \notin {"idle", "sent"})
        BY <3>1 DEF Host, Prepare, DataTooLong, Restarted, PingMissed, PingAnswered, PropertyRead,
             Erased, Announced, DataAcknowledged, StepFails, Aborted, DeviceReset, Take, MaySucceed,
             MayFail
      <4> QED
        BY <2>1, <2>2, <2>5, <4>1, <4>2
    <3>2. CASE Send
      BY <2>1, <2>2, <2>3, <2>4, <2>5, <2>5a, <3>2 DEF Send, host
    <3>3. CASE Obey \/ Refuse \/ CutOff \/ Damage
      BY <2>1, <2>2, <2>3, <2>4, <2>5, <2>5a, <3>3 DEF Obey, Refuse, CutOff, Damage, host
    <3>4. CASE Close
      BY <2>1, <2>2, <2>5, <2>5a, <3>4 DEF Close, host
    <3> QED
      BY <3>1, <3>2, <3>3, <3>4 DEF Next, Answer
  <2> QED
    BY <2>7 DEF Remaining, A, B, C, D, L, M
<1> QED
  BY <1>1, <1>2, MeasuredHolds, PTL DEF ComesToAnEnd, Spec
=============================================================================
