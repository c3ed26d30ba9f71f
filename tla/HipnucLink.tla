----------------------------- MODULE HipnucLink -----------------------------
(***************************************************************************)
(* The decoder at the end of a serial line from the sensor, which sends    *)
(* one frame after the other.  For a while the line loses bytes and adds   *)
(* others; one day it settles.                                             *)
(***************************************************************************)
EXTENDS HipnucDec

CONSTANTS
  Frames,     (* the frames the sensor sends, undamaged                   *)
  Noise,      (* the bytes a disturbance adds                             *)
  MaxFaults   (* bound on the bytes lost or added                         *)

(* What decode_hipnuc accepts, when it is given all of it and no more.     *)
Undamaged(f) ==
  /\ f \in Seq(Byte) /\ Len(f) \in CH_HDR_SIZE .. MaxRaw
  /\ f[1] = Sync1 /\ f[2] = Sync2
  /\ Len(f) = CH_HDR_SIZE + U2(f[3], f[4])
  /\ Crc([i \in 1 .. Len(f) - 2 |-> IF i <= 4 THEN f[i] ELSE f[i + 2]]) = U2(f[5], f[6])

ASSUME LinkAssumption ==
  (\A f \in Frames : Undamaged(f)) /\ Noise \subseteq Byte /\ MaxFaults \in Nat

VARIABLES
  frame,      (* the frame being sent                                     *)
  pos,        (* how many of its bytes were sent                          *)
  faults,     (* bytes lost or added so far                               *)
  clean       (* the line has settled                                     *)

line_vars == <<nbyte, len, buf, ret, frame, pos, faults, clean>>

LineInit ==
  /\ DecoderInit
  /\ frame \in Frames
  /\ pos = 0
  /\ faults = 0
  /\ clean = FALSE

(* The sensor sends the next byte, of a new frame after the last one.      *)
Advance ==
  IF pos < Len(frame)
    THEN pos' = pos + 1 /\ UNCHANGED frame
    ELSE pos' = 1 /\ frame' \in Frames

Transmit ==
  /\ Advance
  /\ hipnuc_input(frame'[pos'])
  /\ UNCHANGED <<faults, clean>>

Fault ==
  /\ ~clean
  /\ faults < MaxFaults
  /\ faults' = faults + 1
  /\ UNCHANGED clean

Lose ==
  /\ Fault
  /\ Advance
  /\ UNCHANGED decoder

Disturb ==
  /\ Fault
  /\ \E b \in Noise : hipnuc_input(b)
  /\ UNCHANGED <<frame, pos>>

Settle ==
  /\ ~clean
  /\ clean' = TRUE
  /\ UNCHANGED <<decoder, frame, pos, faults>>

LineNext == Transmit \/ Lose \/ Disturb \/ Settle

(* The sensor keeps sending.                                               *)
LineSpec == LineInit /\ [][LineNext]_line_vars /\ WF_line_vars(Transmit)

-----------------------------------------------------------------------------
(* The decoder gathers the very frame that is being sent.                  *)
InStep ==
  /\ clean
  /\ nbyte = IF pos \in {1, Len(frame)} THEN 0 ELSE pos
  /\ pos = 1 => buf[1] = Sync1
  /\ \A i \in 1 .. nbyte : buf[i - 1] = frame[i]

(* Once in step on a settled line the decoder stays so, and reports every  *)
(* frame with its last byte, at no other time (hipnuc_dec.c:190-207).      *)
StaysInStep ==
  [][InStep /\ clean' =>
       InStep' /\ (UNCHANGED pos \/ (ret' > 0 <=> pos' = Len(frame')))]_line_vars

(* After the line has settled, frames keep being delivered, as long as no  *)
(* frame holds a pair of sync codes beyond its first two bytes: a false    *)
(* start costs a bounded stretch and is never repeated for ever            *)
(* (hipnuc_dec.c:180-208).                                                 *)
Resynchronises == <>clean => []<>(ret > 0)
=============================================================================
