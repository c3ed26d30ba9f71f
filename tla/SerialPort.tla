----------------------------- MODULE SerialPort -----------------------------
(***************************************************************************)
(* serial_port.c: one caller that reads from, and asks on, an open port    *)
(* whose device sends bytes at any time.  A byte is its place in the       *)
(* stream (modulo Wrap) and whether it completes the expected answer; the  *)
(* text of the answer counts as one byte.                                  *)
(*                                                                         *)
(* The port is opened with O_NDELAY and the select() of the read loop is   *)
(* commented out: read() with nothing waiting is EAGAIN, and the loop goes *)
(* round again.  That is a step that changes nothing.                      *)
(***************************************************************************)
EXTENDS Integers, Sequences

CONSTANTS
  Size,      (* bytes of the caller's buffer                               *)
  MaxLine,   (* bytes the line may hold                                    *)
  Timeout,   (* timeout_ms                                                 *)
  Wrap       (* places in the stream are counted modulo Wrap               *)

ASSUME PortAssumption ==
  /\ Size \in Nat \ {0, 1}
  /\ MaxLine \in Nat \ {0}
  /\ Timeout \in Nat \ {0}
  /\ Wrap \in Nat /\ Wrap > Size + MaxLine

VARIABLES
  input,    (* bytes that wait in the line, history: arrived since a flush *)
  next,     (* place of the next byte to arrive                            *)
  up,       (* the device: "up", "closed" or "error", as read() tells it   *)
  idle,     (* milliseconds since the last byte, as far as Timeout         *)
  pc,       (* "idle", "flush" and "write" of a request, "recv"            *)
  ask,      (* the call is serial_send_then_recv_str                       *)
  size,     (* bytes the loop wants                                        *)
  buf,      (* bytes it has                                                *)
  ret,      (* what the last call returned                                 *)
  taken     (* history: place of the last byte before those of buf         *)

line == <<input, next, up, idle>>
call == <<pc, ask, size, buf, ret, taken>>
vars == <<line, call>>

Succ(n) == (n + 1) % Wrap

(* The place of the last of some bytes, or p if there are none.            *)
LastOf(bytes, p) == IF bytes = << >> THEN p ELSE bytes[Len(bytes)].n

Init ==
  /\ input = << >> /\ next = 1 /\ up = "up" /\ idle = 0
  /\ pc = "idle" /\ ask = FALSE /\ size = 0 /\ buf = << >> /\ ret = 0 /\ taken = 0

-----------------------------------------------------------------------------
(* The line.                                                               *)
Arrive(ok) ==
  /\ up = "up" /\ Len(input) < MaxLine
  /\ input' = Append(input, [n |-> next, ok |-> ok, new |-> TRUE])
  /\ next' = Succ(next)
  /\ idle' = 0
  /\ UNCHANGED <<up, call>>

(* It is disconnected; what waits is still read.                           *)
HangUp(how) ==
  /\ up = "up"
  /\ up' = how
  /\ UNCHANGED <<input, next, idle, call>>

Tick ==
  /\ idle < Timeout
  /\ idle' = idle + 1
  /\ UNCHANGED <<input, next, up, call>>

-----------------------------------------------------------------------------
(* serial_port_read: what it is given is a descriptor and a buffer.        *)
Read ==
  /\ pc = "idle"
  /\ pc' = "recv" /\ ask' = FALSE /\ size' = Size
  /\ buf' = << >>
  /\ taken' = LastOf(buf, taken)
  /\ UNCHANGED <<line, ret>>

(* Mutant: no room for the terminator.                                     *)
AskWholeBuffer ==
  /\ pc = "idle"
  /\ pc' = "flush" /\ ask' = TRUE /\ size' = Size
  /\ buf' = << >>
  /\ taken' = LastOf(buf, taken)
  /\ input' = [i \in DOMAIN input |-> [input[i] EXCEPT !.new = FALSE]]
  /\ UNCHANGED <<next, up, idle, ret>>

(* serial_send_then_recv_str leaves room for the terminator.  The bytes    *)
(* that wait now are not the answer (history).                             *)
Ask ==
  /\ pc = "idle"
  /\ pc' = "flush" /\ ask' = TRUE /\ size' = Size - 1
  /\ buf' = << >>
  /\ taken' = LastOf(buf, taken)
  /\ input' = [i \in DOMAIN input |-> [input[i] EXCEPT !.new = FALSE]]
  /\ UNCHANGED <<next, up, idle, ret>>

(* Mutant: what waits is not thrown away.                                  *)
FlushNothing ==
  /\ pc = "flush"
  /\ pc' = "write"
  /\ UNCHANGED <<line, ask, size, buf, ret, taken>>

Flush ==
  /\ pc = "flush"
  /\ pc' = "write"
  /\ input' = << >>
  /\ taken' = LastOf(input, taken)
  /\ UNCHANGED <<next, up, idle, ask, size, buf, ret>>

(* serial_port_write: everything is written and drained, or the call is    *)
(* over.                                                                   *)
WriteAll ==
  /\ pc = "write"
  /\ pc' = "recv"
  /\ UNCHANGED <<line, ask, size, buf, ret, taken>>

WriteFails ==
  /\ pc = "write"
  /\ pc' = "idle" /\ ret' = -1
  /\ UNCHANGED <<line, ask, size, buf, taken>>

(* Mutant: every read() starts at the beginning of the buffer.             *)
ReceiveOver(k) ==
  /\ pc = "recv" /\ Len(buf) < size
  /\ k \in 1 .. Len(input) /\ k <= size - Len(buf)
  /\ buf' = SubSeq(input, 1, k)
  /\ input' = SubSeq(input, k + 1, Len(input))
  /\ UNCHANGED <<next, up, idle, pc, ask, size, ret, taken>>

(* read() returns k of the waiting bytes, behind those already read.       *)
Receive(k) ==
  /\ pc = "recv" /\ Len(buf) < size
  /\ k \in 1 .. Len(input) /\ k <= size - Len(buf)
  /\ buf' = buf \o SubSeq(input, 1, k)
  /\ input' = SubSeq(input, k + 1, Len(input))
  /\ UNCHANGED <<next, up, idle, pc, ask, size, ret, taken>>

ReceiveFails ==
  /\ pc = "recv" /\ Len(buf) < size /\ up = "error" /\ input = << >>
  /\ pc' = "idle" /\ ret' = -1
  /\ UNCHANGED <<line, ask, size, buf, taken>>

(* The bytes of buf are the result; a request returns them only if the     *)
(* expected answer is among them.                                          *)
Result ==
  IF ask => \E i \in DOMAIN buf : buf[i].ok THEN Len(buf) ELSE -1

(* Mutant: the loop ends at a full buffer only.                            *)
DoneFull ==
  /\ pc = "recv" /\ Len(buf) = size
  /\ pc' = "idle" /\ ret' = Result
  /\ UNCHANGED <<line, ask, size, buf, taken>>

(* The loop ends with a full buffer, or at read() = 0 of a closed port.    *)
Done ==
  /\ pc = "recv"
  /\ Len(buf) = size \/ (up = "closed" /\ input = << >>)
  /\ pc' = "idle" /\ ret' = Result
  /\ UNCHANGED <<line, ask, size, buf, taken>>

Step ==
  \/ Flush \/ WriteAll \/ WriteFails
  \/ \E k \in 1 .. Size : Receive(k)
  \/ ReceiveFails \/ Done

Arriving == \E ok \in BOOLEAN : Arrive(ok)

Next == Arriving \/ (\E how \in {"closed", "error"} : HangUp(how)) \/ Tick \/ Read \/ Ask \/ Step

(* The caller's thread runs and time passes; the device owes nothing.      *)
Spec == Init /\ [][Next]_vars /\ WF_vars(Step) /\ WF_vars(Tick)

(* The device sends for as long as it is connected.                        *)
SpecFed == Spec /\ WF_vars(Arriving)

-----------------------------------------------------------------------------
Bytes == [n : 0 .. Wrap - 1, ok : BOOLEAN, new : BOOLEAN]

(* Every variable keeps its range; no call holds more than it asked for.   *)
TypeOK ==
  /\ input \in Seq(Bytes) /\ Len(input) <= MaxLine
  /\ next \in 0 .. Wrap - 1 /\ taken \in 0 .. Wrap - 1
  /\ up \in {"up", "closed", "error"} /\ ask \in BOOLEAN
  /\ idle \in 0 .. Timeout
  /\ pc \in {"idle", "flush", "write", "recv"}
  /\ size \in 0 .. Size
  /\ buf \in Seq(Bytes) /\ Len(buf) <= size
  /\ ret \in -1 .. Size

(* The terminator of a request's answer has its place in the buffer        *)
(* (serial_port.c:307-315).                                                *)
TerminatorFits == (ask /\ pc = "idle") => Len(buf) + 1 <= Size

(* The bytes are the stream between the places before and after, each the  *)
(* successor of the one in front of it.                                    *)
Follow(before, bytes, after) ==
  /\ Succ(LastOf(bytes, before)) = after
  /\ \A i \in DOMAIN bytes :
       bytes[i].n = Succ(IF i = 1 THEN before ELSE bytes[i - 1].n)

(* No byte is lost, doubled or reordered, except what a flush throws away: *)
(* what the calls took, the buffer and the line are the stream             *)
(* (serial_port.c:197-250).                                                *)
StreamKept == Follow(taken, buf \o input, next)

(* A request that succeeds has seen its answer arrive after the old input  *)
(* was thrown away (serial_port.c:286, 318-323).                           *)
AnswerIsNew ==
  (pc = "idle" /\ ask /\ ret > 0) => \E i \in DOMAIN buf : buf[i].ok /\ buf[i].new

(* While the device sends, or once it is gone, every call returns          *)
(* (serial_port.c:197-250).                                                *)
CallsReturn == (pc # "idle") ~> (pc = "idle")

(* The comment on the read: an idle line ends it (serial_port.c:166-176).  *)
IdleEndsRead ==
  (pc = "recv" /\ idle = Timeout) ~> (pc = "idle" \/ idle < Timeout)
=============================================================================
