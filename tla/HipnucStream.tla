---------------------------- MODULE HipnucStream ----------------------------
(***************************************************************************)
(* The decoder fed with any stream of bytes: frames, noise, frames cut     *)
(* short or damaged.  Two history variables record what it was given and   *)
(* which stretches of it were taken for a frame.                           *)
(***************************************************************************)
EXTENDS HipnucDec

CONSTANT MaxStream      (* bound on the length of the stream               *)

ASSUME StreamAssumption == MaxStream \in Nat

VARIABLES
  stream,     (* every byte so far                                        *)
  segments    (* the stretches taken for a frame, each with the verdict   *)

vars == <<nbyte, len, buf, ret, stream, segments>>

Init ==
  /\ DecoderInit
  /\ stream = <<>>
  /\ segments = <<>>

(* Where the frame being gathered began.                                   *)
Start == Len(stream) - nbyte + 1

(* The last byte that belongs to a segment.                                *)
Consumed == IF segments = <<>> THEN 0 ELSE segments[Len(segments)].last

Receive(b) ==
  /\ Len(stream) < MaxStream
  /\ hipnuc_input(b)
  /\ stream' = Append(stream, b)
  /\ segments' = IF nbyte > 0 /\ nbyte' = 0
                   THEN Append(segments, [first |-> Start, last |-> Len(stream'),
                                          ok |-> ret' > 0])
                   ELSE segments

Next == \E b \in Byte : Receive(b)

Spec == Init /\ [][Next]_vars

-----------------------------------------------------------------------------
Segment == [first : Nat, last : Nat, ok : BOOLEAN]

(* Every variable keeps its type's range; in particular no call writes     *)
(* outside the buffer (hipnuc_dec.c:188).                                  *)
TypeOK ==
  /\ nbyte \in 0 .. MaxRaw - 1
  /\ len \in Nat
  /\ buf \in [0 .. MaxRaw - 1 -> Byte]
  /\ ret \in {-1, 0, 1}
  /\ stream \in Seq(Byte)
  /\ segments \in Seq(Segment)

SyncAt(s, i) == s[i] = Sync1 /\ s[i + 1] = Sync2

(* Positions i to j of s are one undamaged frame.                          *)
Intact(s, i, j) ==
  /\ i + CH_HDR_SIZE - 1 <= j
  /\ SyncAt(s, i)
  /\ LET n == U2(s[i + 2], s[i + 3])
     IN /\ n <= MaxRaw - CH_HDR_SIZE
        /\ j = i + CH_HDR_SIZE - 1 + n
        /\ Crc([k \in 1 .. 4 + n |-> IF k <= 4 THEN s[i + k - 1] ELSE s[i + k + 1]])
             = U2(s[i + 4], s[i + 5])

(* Segments do not overlap and lie in the order of the stream, and         *)
(* hipnuc_input reports a frame exactly for those that are undamaged       *)
(* (hipnuc_dec.c:153,175).                                                 *)
DeliversIntactFrames ==
  \A k \in 1 .. Len(segments) :
    LET g == segments[k]
    IN /\ (IF k = 1 THEN 0 ELSE segments[k - 1].last) < g.first
       /\ g.first <= g.last /\ g.last <= Len(stream)
       /\ g.ok <=> Intact(stream, g.first, g.last)

(* An undamaged frame anywhere in the stream is delivered, unless its      *)
(* first byte was swallowed by something that began less than a buffer     *)
(* earlier and looked like a frame (hipnuc_dec.c:163-168,180-205).         *)
MissesNothingElse ==
  \A i, j \in 1 .. Len(stream) :
    Intact(stream, i, j) =>
      \/ \E k \in 1 .. Len(segments) : segments[k] = [first |-> i, last |-> j, ok |-> TRUE]
      \/ \E k \in 1 .. Len(segments) : /\ i - MaxRaw < segments[k].first
                                         /\ segments[k].first < i /\ i <= segments[k].last
      \/ nbyte > 0 /\ i - MaxRaw < Start /\ Start < i

-----------------------------------------------------------------------------
(* The inductive invariant: the buffer mirrors the end of the stream, and  *)
(* every pair of sync codes lies in a segment or in the current frame.     *)
Gathering ==
  nbyte > 0 =>
    /\ nbyte >= 2
    /\ nbyte >= CH_HDR_SIZE =>
         /\ len = U2(buf[2], buf[3])
         /\ len <= MaxRaw - CH_HDR_SIZE
         /\ nbyte < len + CH_HDR_SIZE
    /\ Start > Consumed
    /\ \A i \in 0 .. nbyte - 1 : buf[i] = stream[Start + i]
    /\ buf[0] = Sync1 /\ buf[1] = Sync2

Hunting ==
  nbyte = 0 => IF Len(stream) > Consumed THEN buf[1] = stream[Len(stream)]
                                         ELSE buf[1] # Sync1

PairsAccounted ==
  \A i \in 1 .. Len(stream) - 1 :
    SyncAt(stream, i) =>
      \/ \E k \in 1 .. Len(segments) : segments[k].first <= i /\ i <= segments[k].last
      \/ nbyte > 0 /\ Start <= i

(* What a segment k of st is: a header and, if its length field is in      *)
(* range, as many bytes more as it says; accepted iff undamaged.           *)
Shaped(st, sg, k) ==
  LET g == sg[k]
      n == U2(st[g.first + 2], st[g.first + 3])
  IN /\ (IF k = 1 THEN 0 ELSE sg[k - 1].last) < g.first
     /\ SyncAt(st, g.first)
     /\ g.first + CH_HDR_SIZE - 1 <= g.last
     /\ g.last = g.first + CH_HDR_SIZE - 1
          + (IF n <= MaxRaw - CH_HDR_SIZE THEN n ELSE 0)
     /\ g.last <= Len(st)
     /\ g.ok <=> Intact(st, g.first, g.last)

SegmentShape == \A k \in 1 .. Len(segments) : Shaped(stream, segments, k)

Inductive == TypeOK /\ Gathering /\ Hunting /\ PairsAccounted /\ SegmentShape
=============================================================================
