--------------------------- MODULE FirmwareUpdate ---------------------------
(***************************************************************************)
(* cmd_update of the IMU tool (commands.c) over the boot loader commands   *)
(* (kboot.c): convert, open, restart the device, ping, read properties,    *)
(* erase, announce, send the image packet by packet, reset.  The boot      *)
(* loader and the line are not part of the repository: a request is obeyed *)
(* or refused, an answer may be damaged, and the line may close for good.  *)
(* A request returns with as many bytes as it wants, or cut off by the end *)
(* of the line; on an open line that falls short of them it never returns, *)
(* because the read waits for nothing less (SerialPort).                   *)
(***************************************************************************)
EXTENDS Integers, Sequences

CONSTANTS
  Size,         (* bin_data->size, at least one unit                       *)
  PacketSizes,  (* the packet sizes the device may report                  *)
  MaxPayload,   (* KBOOT_MAX_PACKET_SIZE without the frame's six bytes     *)
  LengthWrap,   (* a packet's length is kept modulo this (uint16_t)        *)
  Attempts,     (* MAX_PING_ATTEMPTS                                       *)
  Props         (* how many properties are read, the packet size first     *)

ASSUME UpdateAssumption ==
  /\ Size \in Nat \ {0}
  /\ PacketSizes \subseteq Nat
  /\ MaxPayload \in Nat \ {0}
  /\ LengthWrap \in Nat /\ MaxPayload < LengthWrap
  /\ Attempts \in Nat \ {0}
  /\ Props \in Nat \ {0}

VARIABLES
  pc,            (* the request the tool is at, or "convert", "open", "done" *)
  count,         (* pings sent, properties read                            *)
  reply,         (* "idle", "sent", or what has come back                  *)
  packet,        (* packet_size                                            *)
  bytes_written,
  result,        (* 1 while the command runs                               *)
  seen,          (* a receive buffer with a good answer is on the stack    *)
  connected,     (* the line                                               *)
  flash,         (* the device's program memory                            *)
  writing,       (* the device waits for data                              *)
  refused        (* history: requests the device refused                   *)

host   == <<pc, count, packet, bytes_written, result, seen>>
device == <<flash, writing, refused>>
vars   == <<host, reply, connected, device>>

(* The first n units of the image; they are told apart by their places.    *)
Part(n) == [i \in 1 .. n |-> i]
Image == Part(Size)
OldFirmware == <<0>>

Commands == {"props", "erase", "write", "reset", "abort"}
Requests == {"rst", "ping", "data"} \cup Commands

Init ==
  /\ pc = "convert" /\ count = 0 /\ reply = "idle" /\ packet = 0
  /\ bytes_written = 0 /\ result = 1 /\ seen = FALSE
  /\ connected = TRUE /\ flash = OldFirmware /\ writing = FALSE /\ refused = {}

-----------------------------------------------------------------------------
Finish(r) ==
  /\ pc' = "done" /\ result' = r
  /\ UNCHANGED <<count, packet, bytes_written>>

GoTo(step) ==
  /\ pc' = step
  /\ UNCHANGED <<count, packet, bytes_written, result>>

(* hex2bin_convert, serial_port_open and serial_port_configure.            *)
Prepare(from, to) ==
  /\ pc = from
  /\ GoTo(to) \/ Finish(-1)
  /\ UNCHANGED <<reply, seen, connected, device>>

Chunk == IF Size - bytes_written < packet THEN Size - bytes_written ELSE packet

(* kboot_send_data hands the length on as a uint16_t.                      *)
Wire == Chunk % LengthWrap

(* The data of the next packet.                                            *)
Data == [i \in 1 .. Wire |-> bytes_written + i]

Send ==
  /\ pc \in Requests /\ reply = "idle"
  /\ pc = "data" => Wire <= MaxPayload
  /\ reply' = "sent"
  /\ UNCHANGED <<host, connected, device>>

(* create_framing_packet has no room for the packet.                       *)
DataTooLong ==
  /\ pc = "data" /\ reply = "idle" /\ Wire > MaxPayload
  /\ GoTo("abort")
  /\ UNCHANGED <<reply, seen, connected, device>>

-----------------------------------------------------------------------------
(* The device obeys.  It cannot program what was not erased.               *)
Obey ==
  /\ connected /\ reply = "sent"
  /\ pc = "data" => writing
  /\ flash' =
       IF pc = "erase" THEN <<>>
       ELSE IF pc = "data" /\ flash # OldFirmware
         THEN flash \o Data
       ELSE flash
  /\ writing' = (pc = "write" \/ (writing /\ pc \notin {"rst", "reset", "abort"}))
  /\ reply' = "ok"
  /\ UNCHANGED <<host, connected, refused>>

Refuse ==
  /\ connected /\ reply = "sent"
  /\ reply' = "refused"
  /\ refused' = refused \cup {pc}
  /\ UNCHANGED <<host, connected, flash, writing>>

Damage ==
  /\ reply \in {"ok", "refused"}
  /\ reply' = "damaged"
  /\ UNCHANGED <<host, connected, device>>

Close ==
  /\ connected
  /\ connected' = FALSE
  /\ UNCHANGED <<host, reply, device>>

(* The read ends with some bytes, or with less than two.                   *)
CutOff ==
  /\ ~connected /\ reply = "sent"
  /\ reply' \in {"short", "nothing"}
  /\ UNCHANGED <<host, connected, device>>

-----------------------------------------------------------------------------
(* kboot_send_command takes any undamaged frame for success; the status in *)
(* it is not looked at.  Where less than two bytes came it checks a length *)
(* that has wrapped around and judges what is left in its buffer: that may *)
(* be the last good answer.  kboot_ping and kboot_send_data look at what   *)
(* they got.                                                               *)
MaySucceed ==
  \/ reply = "ok"
  \/ pc \in Commands /\ (reply = "refused" \/ (reply = "nothing" /\ seen))

MayFail ==
  \/ reply \in {"damaged", "short", "nothing"}
  \/ pc \notin Commands /\ reply = "refused"

Take ==
  /\ reply' = "idle"
  /\ seen' = (seen \/ (pc \in Commands /\ reply \in {"ok", "refused"}))
  /\ UNCHANGED <<connected, device>>

(* The answer to AT+RST is not looked at.  Its read wants a buffer of 2047 *)
(* bytes: whatever the device sends that is shorter keeps the tool here.   *)
Restarted ==
  /\ pc = "rst" /\ (MaySucceed \/ MayFail)
  /\ GoTo("ping")
  /\ Take

(* Mutant: the pings are not counted.                                      *)
PingMissedForEver ==
  /\ pc = "ping" /\ MayFail
  /\ GoTo("ping")
  /\ Take

PingMissed ==
  /\ pc = "ping" /\ MayFail
  /\ IF count + 1 < Attempts
       THEN count' = count + 1 /\ UNCHANGED <<pc, packet, bytes_written, result>>
       ELSE Finish(-1)
  /\ Take

PingAnswered ==
  /\ pc = "ping" /\ MaySucceed
  /\ pc' = "props" /\ count' = 0
  /\ UNCHANGED <<packet, bytes_written, result>>
  /\ Take

PropertyRead ==
  /\ pc = "props" /\ MaySucceed
  /\ count' = count + 1
  /\ pc' = IF count + 1 = Props THEN "erase" ELSE "props"
  /\ IF count = 0 THEN packet' \in PacketSizes ELSE UNCHANGED packet
  /\ UNCHANGED <<bytes_written, result>>
  /\ Take

Erased ==
  /\ pc = "erase" /\ MaySucceed
  /\ GoTo("write")
  /\ Take

Announced ==
  /\ pc = "write" /\ MaySucceed
  /\ GoTo("data")
  /\ Take

(* Mutant: a remainder shorter than a packet is not sent.                  *)
DataAcknowledgedRounding ==
  /\ pc = "data" /\ MaySucceed
  /\ bytes_written' = bytes_written + Chunk
  /\ pc' = IF bytes_written' + packet <= Size THEN "data" ELSE "reset"
  /\ UNCHANGED <<count, packet, result>>
  /\ Take

DataAcknowledged ==
  /\ pc = "data" /\ MaySucceed
  /\ bytes_written' = bytes_written + Chunk
  /\ pc' = IF bytes_written' < Size THEN "data" ELSE "reset"
  /\ UNCHANGED <<count, packet, result>>
  /\ Take

(* Mutant: a failed packet is sent again.                                  *)
StepFailsRetry ==
  /\ pc \in {"props", "erase", "write", "data"} /\ MayFail
  /\ GoTo(IF pc = "data" THEN "data" ELSE "abort")
  /\ Take

(* Mutant: the device is not reset after a failure.                        *)
StepFailsSilently ==
  /\ pc \in {"props", "erase", "write", "data"} /\ MayFail
  /\ Finish(-1)
  /\ Take

StepFails ==
  /\ pc \in {"props", "erase", "write", "data"} /\ MayFail
  /\ GoTo("abort")
  /\ Take

Aborted ==
  /\ pc = "abort" /\ (MaySucceed \/ MayFail)
  /\ Finish(-1)
  /\ Take

DeviceReset ==
  /\ pc = "reset"
  /\ (MaySucceed /\ Finish(0)) \/ (MayFail /\ Finish(-1))
  /\ Take

Host ==
  \/ Prepare("convert", "open") \/ Prepare("open", "rst")
  \/ Send \/ DataTooLong
  \/ Restarted \/ PingMissed \/ PingAnswered \/ PropertyRead
  \/ Erased \/ Announced \/ DataAcknowledged
  \/ StepFails \/ Aborted \/ DeviceReset

Answer == Obey \/ Refuse \/ CutOff

Next == Host \/ Answer \/ Damage \/ Close

(* The tool runs, and the end of the line ends a request.  Nothing says    *)
(* that a device on an open line sends what a request waits for.           *)
Spec == Init /\ [][Next]_vars /\ WF_vars(Host) /\ WF_vars(CutOff)

-----------------------------------------------------------------------------
(* Every variable keeps its range; no more is written than there is.       *)
TypeOK ==
  /\ pc \in Requests \cup {"convert", "open", "done"}
  /\ count \in 0 .. Attempts + Props
  /\ reply \in {"idle", "sent", "ok", "refused", "damaged", "short", "nothing"}
  /\ packet \in PacketSizes \cup {0}
  /\ bytes_written \in 0 .. Size
  /\ result \in {-1, 0, 1}
  /\ seen \in BOOLEAN /\ connected \in BOOLEAN /\ writing \in BOOLEAN
  /\ flash = OldFirmware \/ flash \in Seq(1 .. Size)
  /\ refused \subseteq Requests

(* While packets are sent, what the device holds is the image as far as    *)
(* the tool has counted it, or the one packet further whose acknowledgment *)
(* is on its way: no packet is skipped, doubled or reordered.  This is so  *)
(* even if the line closes, once a packet was acknowledged: only before    *)
(* that can the tool run ahead on answers left in its buffer.  It needs a  *)
(* packet size whose length is not cut off (commands.c:563-572,            *)
(* kboot.c:101, 187).                                                      *)
InLockstep ==
  (/\ pc \in {"data", "reset"} /\ (connected \/ bytes_written > 0)
   /\ "erase" \notin refused /\ packet < LengthWrap) =>
    \/ flash = Part(bytes_written)
    \/ pc = "data" /\ reply # "idle" /\ flash = Part(bytes_written + Chunk)

(* An update that reports success on a device that did not refuse to erase *)
(* has left the whole image there, in order, unless the packet size does   *)
(* not fit its field (commands.c:563-596).                                 *)
SuccessIsComplete ==
  (result = 0 /\ "erase" \notin refused /\ packet < LengthWrap) => flash = Image

(* An update that ends does not leave the device waiting for data, unless  *)
(* the line is gone or the reset itself was refused (commands.c:542-570).  *)
NotLeftWriting ==
  (pc = "done" /\ connected /\ refused \cap {"abort", "reset"} = {}) => ~writing

(* The command comes to an end, or it sends empty packets for ever because *)
(* the packet size it read is zero, or it waits for ever on an open line   *)
(* for an answer that does not come or is shorter than its read wants, as  *)
(* the one to AT+RST is (commands.c:515-572, serial_port.c:197-250).  No   *)
(* pattern of failures, refusals and damaged answers keeps it otherwise.   *)
UpdateEnds ==
  \/ <>(pc = "done")
  \/ <>[](pc = "data" /\ packet = 0)
  \/ <>[](connected /\ reply = "sent")

(* The message at the end, "Firmware Update successfully!", is true        *)
(* (commands.c:596).                                                       *)
SuccessIsTrue == (result = 0) => flash = Image
=============================================================================
