----------------------------- MODULE HipnucDec -----------------------------
(***************************************************************************)
(* The byte decoder of the IMU's binary protocol (hipnuc_dec.c): it hunts  *)
(* for the two sync codes, gathers a header of six bytes (sync codes,      *)
(* length and CRC, little endian), then as many payload bytes as the       *)
(* header says, and checks the CRC.  There is one action for each way a    *)
(* call of hipnuc_input can return; parse_data is in HipnucReader.         *)
(***************************************************************************)
EXTENDS Integers, Sequences

CONSTANTS
  Byte,       (* the bytes the line may carry                             *)
  MaxRaw,     (* HIPNUC_MAX_RAW_SIZE                                      *)
  Sync1,      (* CHSYNC1                                                  *)
  Sync2,      (* CHSYNC2                                                  *)
  Crc(_)      (* the checksum of a sequence of bytes; nothing here
                 depends on which function it is                          *)

CH_HDR_SIZE == 6

ASSUME DecoderAssumption ==
  /\ Byte \subseteq Nat
  /\ MaxRaw \in Nat /\ MaxRaw >= CH_HDR_SIZE
  /\ {0, Sync1, Sync2} \subseteq Byte
  /\ Sync1 # Sync2 /\ Sync1 # 0

VARIABLES
  nbyte,      (* bytes in buf; 0 while hunting                            *)
  len,        (* payload length of the frame being gathered               *)
  buf,        (* the raw buffer                                           *)
  ret         (* what the last call of hipnuc_input returned              *)

decoder == <<nbyte, len, buf, ret>>

DecoderInit ==
  /\ nbyte = 0
  /\ len = 0
  /\ buf = [i \in 0 .. MaxRaw - 1 |-> 0]
  /\ ret = 0

U2(lo, hi) == lo + 256 * hi

(* A fault the runs must notice: a failed pair is dropped with its second  *)
(* byte, which may itself be the first sync code.                          *)
HuntInPairs(b) ==
  /\ nbyte = 0
  /\ buf' = [buf EXCEPT ![0] = buf[1], ![1] = IF buf[1] = Sync1 /\ b # Sync2 THEN 0 ELSE b]
  /\ nbyte' = IF buf[1] = Sync1 /\ b = Sync2 THEN 2 ELSE 0
  /\ ret' = 0
  /\ UNCHANGED len

(* sync_hipnuc                                                             *)
Hunt(b) ==
  /\ nbyte = 0
  /\ buf' = [buf EXCEPT ![0] = buf[1], ![1] = b]
  /\ nbyte' = IF buf[1] = Sync1 /\ b = Sync2 THEN 2 ELSE 0
  /\ ret' = 0
  /\ UNCHANGED len

(* buf[nbyte++] = b; the length field is read when the header is complete. *)
Store(b) ==
  /\ nbyte > 0
  /\ buf' = [buf EXCEPT ![nbyte] = b]
  /\ len' = IF nbyte + 1 = CH_HDR_SIZE THEN U2(buf'[2], buf'[3]) ELSE len

(* A fault the runs must notice: the limit forgets the header.             *)
LengthErrorLoose == nbyte + 1 = CH_HDR_SIZE /\ len' > MaxRaw

LengthError == nbyte + 1 = CH_HDR_SIZE /\ len' > MaxRaw - CH_HDR_SIZE

(* A fault the runs must notice: the old length is used for a new header.  *)
IncompleteStale == nbyte + 1 < CH_HDR_SIZE \/ nbyte + 1 < len + CH_HDR_SIZE

Incomplete == nbyte + 1 < CH_HDR_SIZE \/ nbyte + 1 < len' + CH_HDR_SIZE

(* A fault the runs must notice: the header is not checksummed.            *)
BodyPayloadOnly == [i \in 1 .. len' |-> buf'[i + 5]]

(* The checksummed bytes: the header without its CRC field, the payload.   *)
Body == [i \in 1 .. 4 + len' |-> IF i <= 4 THEN buf'[i - 1] ELSE buf'[i + 1]]

CrcMatches == Crc(Body) = U2(buf'[4], buf'[5])

(* A fault the runs must notice: a length error does not restart the hunt. *)
BadLengthStuck(b) ==
  /\ Store(b)
  /\ LengthError
  /\ nbyte' = nbyte
  /\ ret' = -1

BadLength(b) ==
  /\ Store(b)
  /\ LengthError
  /\ nbyte' = 0
  /\ ret' = -1

Gather(b) ==
  /\ Store(b)
  /\ ~LengthError
  /\ Incomplete
  /\ nbyte' = nbyte + 1
  /\ ret' = 0

(* decode_hipnuc                                                           *)
Finish(b) ==
  /\ Store(b)
  /\ ~LengthError
  /\ ~Incomplete
  /\ nbyte' = 0
  /\ ret' = IF CrcMatches THEN 1 ELSE -1

hipnuc_input(b) == Hunt(b) \/ BadLength(b) \/ Gather(b) \/ Finish(b)
=============================================================================
