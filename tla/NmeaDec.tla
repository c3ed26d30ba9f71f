------------------------------ MODULE NmeaDec ------------------------------
(***************************************************************************)
(* The byte decoder of NMEA sentences (nmea_dec.c).  It hunts for "$G" or  *)
(* "$P", gathers bytes to the end of the line and then reads the sentence  *)
(* in place: the checksum up to '*', the digits after it, the fields       *)
(* between commas, each cut off by a NUL.  The buffer is read as a C       *)
(* string although nothing terminates it: what follows a sentence is what  *)
(* longer ones left there, then the message type.                          *)
(*                                                                         *)
(* Of the fields only where they end is kept, not what dec_gga, dec_rmc    *)
(* and dec_sxt convert them to.                                            *)
(***************************************************************************)
EXTENDS Integers, Sequences, FiniteSets

CONSTANTS
  Byte,             (* the bytes the line may carry                        *)
  NUL, Dollar, Comma, Star, LF,
  Talkers,          (* what may follow '$': 'G' and 'P'                    *)
  Digits,           (* hexadecimal digits                                  *)
  MaxRaw,           (* MAXRAWLEN                                           *)
  MaxField,         (* MAXFIELD                                            *)
  HeaderLen,        (* bytes of the header, five                           *)
  Xor(_),           (* checksum of a sequence of bytes                     *)
  Hex(_),           (* strtol(, 16) of a sequence of bytes                 *)
  Kind(_)           (* message type a header stands for, or NUL            *)

Kinds == {NUL} \cup {Kind(h) : h \in [1 .. HeaderLen -> Byte]}

(* strtol reads no further than the first byte that is not a digit, but    *)
(* skips blanks, a line feed among them, in front of one.                  *)
ASSUME NmeaAssumption ==
  /\ {NUL, Dollar, Comma, Star, LF} \cup Talkers \subseteq Byte
  /\ Dollar \notin Talkers \cup {NUL, LF} /\ LF \notin Talkers
  /\ {Comma, Star} \cap Kinds = {}
  /\ HeaderLen \in Nat \ {0}
  /\ MaxRaw \in Nat /\ MaxRaw >= HeaderLen + 2
  /\ MaxField \in Nat \ {0}
  /\ \A n \in 1 .. MaxRaw - 2 : \A s \in [1 .. n -> Byte \cup Kinds], k \in 1 .. n :
       s[1] \in Digits /\ s[k] = LF => Hex(s) = Hex(SubSeq(s, 1, k - 1))

VARIABLES
  nbyte,      (* bytes gathered; 0 while hunting                           *)
  buf,        (* the raw buffer                                            *)
  msg_type,   (* the member behind it                                      *)
  ret,        (* what the last call returned                               *)
  cuts,       (* history: where the last sentence accepted was cut         *)
  line        (* history: the line so far, from where it may be a sentence *)

vars == <<nbyte, buf, msg_type, ret, cuts, line>>

Init ==
  /\ nbyte = 0 /\ buf = [i \in 0 .. MaxRaw - 1 |-> NUL] /\ msg_type = NUL
  /\ ret = 0 /\ cuts = {} /\ line = << >>

-----------------------------------------------------------------------------
(* The string that begins in a buffer m, as C reads it.                    *)
At(m, i) == IF i < MaxRaw THEN m[i] ELSE IF i = MaxRaw THEN msg_type ELSE NUL

(* Where it first holds c, or ends.                                        *)
Stop(m, i, c) ==
  CHOOSE e \in i .. MaxRaw + 2 :
    /\ At(m, e) \in {c, NUL}
    /\ \A k \in i .. e - 1 : At(m, k) \notin {c, NUL}

Text(m, i, j) == [k \in 1 .. j - i + 1 |-> At(m, i + k - 1)]

(* Mutant: the sum begins at the dollar sign.                              *)
ChecksumFromDollar(m) ==
  LET star == Stop(m, 1, Star)
  IN Xor(Text(m, 0, star - 1)) = Hex(Text(m, star + 1, Stop(m, star + 1, NUL) - 1))

ChecksumOK(m) ==
  LET star == Stop(m, 1, Star)
  IN Xor(Text(m, 1, star - 1)) = Hex(Text(m, star + 1, Stop(m, star + 1, NUL) - 1))

(* A field ends at a comma or, if there is none before the string's end,   *)
(* at a star.                                                              *)
Separators(m) ==
  LET text == 0 .. Stop(m, 0, NUL) - 1
  IN {i \in text : \/ At(m, i) = Comma
                   \/ At(m, i) = Star /\ \A k \in text : k > i => At(m, k) # Comma}

(* At most MAXFIELD fields are kept.                                       *)
Cuts(m) == {i \in Separators(m) : Cardinality({k \in Separators(m) : k <= i}) <= MaxField}

-----------------------------------------------------------------------------
(* The line from its first sync; one that outgrows the buffer is given up  *)
(* with the byte that does not fit.                                        *)
Synced(l) == Len(l) >= 2 /\ l[1] = Dollar /\ l[2] \in Talkers

Ended == line # << >> /\ line[Len(line)] = LF

Extend(b) ==
  line' = IF line = << >> \/ Ended THEN <<b>>
          ELSE IF ~Synced(line) THEN <<line[Len(line)], b>>
          ELSE IF Len(line) = MaxRaw /\ b # LF THEN << >>
          ELSE Append(line, b)

(* sync_nmea                                                               *)
Hunt(b) ==
  /\ nbyte = 0
  /\ buf' = [buf EXCEPT ![0] = buf[1], ![1] = b]
  /\ nbyte' = IF buf[1] = Dollar /\ b \in Talkers THEN 2 ELSE 0
  /\ ret' = 0
  /\ UNCHANGED <<msg_type, cuts>>

(* There is no room: the line is given up, and this byte with it.          *)
Overlong(b) ==
  /\ nbyte >= MaxRaw
  /\ nbyte' = 0 /\ ret' = -1
  /\ UNCHANGED <<buf, msg_type, cuts>>

(* Mutant: the buffer may be overrun by one.                               *)
RoomLoose == nbyte > 0 /\ nbyte <= MaxRaw

Room == nbyte > 0 /\ nbyte < MaxRaw

Gather(b) ==
  /\ Room /\ b # LF
  /\ buf' = [buf EXCEPT ![nbyte] = b]
  /\ nbyte' = nbyte + 1 /\ ret' = 0
  /\ UNCHANGED <<msg_type, cuts>>

(* parse_nmea: nothing is cut if the checksum is wrong.                    *)
Parse(b) ==
  /\ Room /\ b = LF
  /\ nbyte' = 0
  /\ LET m == [buf EXCEPT ![nbyte] = b]
         ends == IF ChecksumOK(m) THEN Cuts(m) ELSE {}
         kind == IF ends = {} THEN NUL ELSE Kind([i \in 1 .. HeaderLen |-> buf'[i]])
     IN /\ buf' = [i \in DOMAIN m |-> IF i \in ends THEN NUL ELSE m[i]]
        /\ ret' = IF kind = NUL THEN 0 ELSE 1
        /\ msg_type' = IF kind = NUL THEN msg_type ELSE kind
        /\ cuts' = IF kind = NUL THEN cuts ELSE ends

input_nmea(b) == Hunt(b) \/ Overlong(b) \/ Gather(b) \/ Parse(b)

Next == \E b \in Byte : input_nmea(b) /\ Extend(b)

Spec == Init /\ [][Next]_vars

-----------------------------------------------------------------------------
(* Every variable keeps its range; no call writes outside the buffer       *)
(* (nmea_dec.c:256-262).                                                   *)
TypeOK ==
  /\ nbyte \in 0 .. MaxRaw
  /\ buf \in [0 .. MaxRaw - 1 -> Byte]
  /\ ret \in {-1, 0, 1}
  /\ cuts \subseteq 0 .. MaxRaw - 1
  /\ msg_type \in Kinds
  /\ line \in Seq(Byte)

(* The line just read is a sentence: the checksum behind its star is that  *)
(* of what is in front of it.                                              *)
Checked(star) ==
  /\ line[star] = Star /\ \A i \in 1 .. star - 1 : line[i] \notin {Star, NUL}
  /\ Xor(SubSeq(line, 2, star - 1)) = Hex(SubSeq(line, star + 1, Len(line) - 1))

Sentence == Ended /\ Synced(line) /\ Len(line) <= MaxRaw

(* ... with a whole header, and a digit in the checksum.                   *)
Complete ==
  \E star \in HeaderLen + 2 .. Len(line) - 2 :
    /\ Checked(star) /\ line[star + 1] \in Digits
    /\ \A i \in star + 1 .. Len(line) : line[i] \notin {NUL, Comma, Star}

Header == SubSeq(line, 2, 1 + HeaderLen)

(* Whatever came before, a complete sentence of a known kind that fits is  *)
(* accepted, and cut at its own commas (nmea_dec.c:188-241, 245-272).      *)
CompleteAccepted ==
  (Sentence /\ Complete /\ Kind(Header) # NUL /\ \A i \in 1 .. HeaderLen : Header[i] # Comma)
    => /\ ret = 1
       /\ LET commas == {i \in 0 .. Len(line) - 1 : line[i + 1] = Comma}
          IN Cardinality(commas) <= MaxField => commas \subseteq cuts

(* "1 if a complete NMEA message is parsed" (nmea_dec.h:124).              *)
AcceptedIsComplete == (Sentence /\ ret = 1) => \E star \in DOMAIN line : Checked(star)

(* The decoder accumulates a sentence, "then parses the sentence"          *)
(* (nmea_dec.h:119): its fields lie within it.                             *)
FieldsAreOwn == (Sentence /\ Complete /\ ret = 1) => \A i \in cuts : i < Len(line)
=============================================================================
