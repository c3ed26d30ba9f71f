---------------------------- MODULE NmeaDecProofs ----------------------------
(***************************************************************************)
(* Proofs about the NMEA decoder, for every set of bytes, size of the      *)
(* buffer and checksum function.                                           *)
(***************************************************************************)
EXTENDS NmeaDec, WellFoundedInduction, FiniteSetTheorems, TLAPS

(* A set of natural numbers that is not empty has a least element.         *)
LEMMA Least ==
  ASSUME NEW S, S \subseteq Nat, S # {}
  PROVE  \E x \in S : \A y \in S : x <= y
<1> DEFINE Below == {ss \in Nat \X Nat : ss[1] < ss[2]}
<1>1. IsWellFoundedOn(Below, Nat)
  BY NatLessThanWellFounded, Zenon DEF OpToRel
<1>2. PICK x \in S : \A y \in S : <<y, x>> \notin Below
  BY <1>1, WFMin
<1>3. ASSUME NEW y \in S PROVE x <= y
  <2>1. x \in Nat /\ y \in Nat /\ <<y, x>> \notin Below
    BY <1>2
  <2>2. ~(y < x)
    BY <2>1, Zenon
  <2> QED BY <2>1, <2>2
<1> QED BY <1>3

-----------------------------------------------------------------------------
(* What the reader sees behind the buffer is typed, and ends.              *)
LEMMA AtType ==
  ASSUME NEW m \in [0 .. MaxRaw - 1 -> Byte], msg_type \in Kinds, NEW i \in Nat
  PROVE  /\ At(m, i) \in Byte \cup Kinds
         /\ i > MaxRaw => At(m, i) = NUL
         /\ At(m, i) \in {Comma, Star} => i < MaxRaw
<1> NUL \in Byte /\ NUL \in Kinds /\ {Comma, Star} \cap Kinds = {} /\ MaxRaw \in Nat
  BY NmeaAssumption DEF Kinds
<1> QED BY DEF At

(* A search for a byte ends at the first position that holds it or NUL.    *)
LEMMA StopIs ==
  ASSUME NEW m \in [0 .. MaxRaw - 1 -> Byte], msg_type \in Kinds,
         NEW i \in 0 .. MaxRaw + 1, NEW c
  PROVE  /\ Stop(m, i, c) \in i .. MaxRaw + 1
         /\ At(m, Stop(m, i, c)) \in {c, NUL}
         /\ \A k \in i .. Stop(m, i, c) - 1 : At(m, k) \notin {c, NUL}
<1> DEFINE Found == {e \in i .. MaxRaw + 2 : At(m, e) \in {c, NUL}}
<1>0. MaxRaw \in Nat
  BY NmeaAssumption
<1>1. MaxRaw + 1 \in Found
  BY <1>0, AtType
<1>2. Found \subseteq Nat
  BY <1>0
<1>3. PICK first \in Found : \A e \in Found : first <= e
  <2> HIDE DEF Found
  <2> QED BY <1>1, <1>2, Least
<1>4. \A k \in i .. first - 1 : At(m, k) \notin {c, NUL}
  <2> TAKE k \in i .. first - 1
  <2>1. k \in i .. MaxRaw + 2 /\ ~(first <= k)
    BY <1>0, <1>3
  <2> QED BY <2>1, <1>3
<1>5. /\ Stop(m, i, c) \in i .. MaxRaw + 2
      /\ At(m, Stop(m, i, c)) \in {c, NUL}
      /\ \A k \in i .. Stop(m, i, c) - 1 : At(m, k) \notin {c, NUL}
  BY <1>3, <1>4 DEF Stop
<1>6. At(m, MaxRaw + 1) = NUL
  BY <1>0, AtType
<1> QED BY <1>0, <1>5, <1>6

(* No field ends behind the buffer.                                        *)
LEMMA CutsInBuffer ==
  ASSUME NEW m \in [0 .. MaxRaw - 1 -> Byte], msg_type \in Kinds
  PROVE  /\ Separators(m) \subseteq 0 .. MaxRaw - 1
         /\ Cuts(m) \subseteq Separators(m)
<1>0. MaxRaw \in Nat
  BY NmeaAssumption
<1>1. Stop(m, 0, NUL) \in 0 .. MaxRaw + 1
  BY <1>0, StopIs
<1>2. ASSUME NEW i \in Separators(m) PROVE i \in 0 .. MaxRaw - 1
  <2>1. i \in 0 .. Stop(m, 0, NUL) - 1 /\ At(m, i) \in {Comma, Star}
    BY DEF Separators
  <2>2. i \in Nat
    BY <1>1, <2>1
  <2> QED BY <1>0, <2>1, <2>2, AtType
<1> QED BY <1>2 DEF Cuts

-----------------------------------------------------------------------------
(* A buffer m that begins with a sentence l whose star is at `star'.       *)
Holds(m, l, star) ==
  /\ m \in [0 .. MaxRaw - 1 -> Byte] /\ l \in Seq(Byte)
  /\ Len(l) <= MaxRaw /\ l[Len(l)] = LF
  /\ star \in HeaderLen + 2 .. Len(l) - 2
  /\ \A i \in 1 .. Len(l) : m[i - 1] = l[i]
  /\ l[star] = Star /\ \A i \in 1 .. star - 1 : l[i] \notin {Star, NUL}
  /\ l[star + 1] \in Digits /\ \A i \in star + 1 .. Len(l) : l[i] \notin {NUL, Comma, Star}

LEMMA HeldAt ==
  ASSUME NEW m, NEW l, NEW star, Holds(m, l, star), msg_type \in Kinds
  PROVE  /\ MaxRaw \in Nat /\ HeaderLen \in Nat \ {0} /\ Len(l) \in Nat
         /\ \A i \in 0 .. Len(l) - 1 : At(m, i) = l[i + 1] /\ At(m, i) # NUL
<1>1. MaxRaw \in Nat /\ HeaderLen \in Nat \ {0}
  BY NmeaAssumption
<1>2. Star # NUL
  BY NmeaAssumption DEF Kinds
<1>3. Len(l) \in Nat
  BY DEF Holds
<1>4. ASSUME NEW i \in 0 .. Len(l) - 1 PROVE At(m, i) = l[i + 1] /\ At(m, i) # NUL
  <2>1. At(m, i) = m[i] /\ m[i] = l[i + 1]
    <3>1. i < MaxRaw /\ i + 1 \in 1 .. Len(l) /\ (i + 1) - 1 = i
      BY <1>1, <1>3 DEF Holds
    <3> QED BY <3>1 DEF At, Holds
  <2>2. i + 1 \in 1 .. star - 1 \/ i + 1 = star \/ i + 1 \in star + 1 .. Len(l)
    BY <1>1, <1>3 DEF Holds
  <2> QED BY <2>1, <2>2, <1>2 DEF Holds
<1> QED BY <1>1, <1>3, <1>4

(* Its checksum is read from the line alone: the text summed is the one in *)
(* front of the star, and what follows the line feed is not a digit of it. *)
LEMMA SumOfLine ==
  ASSUME NEW m, NEW l, NEW star, Holds(m, l, star), msg_type \in Kinds,
         Xor(SubSeq(l, 2, star - 1)) = Hex(SubSeq(l, star + 1, Len(l) - 1))
  PROVE  ChecksumOK(m)
<1> DEFINE end == Stop(m, star, NUL)
           n == end - star
           s == Text(m, star, end - 1)
           k == Len(l) - star
<1>1. /\ MaxRaw \in Nat /\ HeaderLen \in Nat \ {0} /\ Len(l) \in Nat
      /\ \A i \in 0 .. Len(l) - 1 : At(m, i) = l[i + 1] /\ At(m, i) # NUL
  BY HeldAt
<1>2. star \in HeaderLen + 2 .. Len(l) - 2 /\ Len(l) <= MaxRaw /\ m \in [0 .. MaxRaw - 1 -> Byte]
  BY DEF Holds
<1>3. Stop(m, 1, Star) = star - 1
  <2>0. 1 \in 0 .. MaxRaw + 1
    BY <1>1
  <2>1. /\ Stop(m, 1, Star) \in 1 .. MaxRaw + 1
        /\ At(m, Stop(m, 1, Star)) \in {Star, NUL}
        /\ \A j \in 1 .. Stop(m, 1, Star) - 1 : At(m, j) \notin {Star, NUL}
    BY <2>0, <1>2, StopIs
  <2>2. At(m, star - 1) = Star
    BY <1>1, <1>2 DEF Holds
  <2>3. \A j \in 1 .. star - 2 : At(m, j) \notin {Star, NUL}
    <3> TAKE j \in 1 .. star - 2
    <3>1. At(m, j) = l[j + 1] /\ j + 1 \in 1 .. star - 1
      BY <1>1, <1>2
    <3> QED BY <3>1 DEF Holds
  <2>4. Stop(m, 1, Star) \in Nat /\ star - 1 \in Nat /\ star - 1 >= 1
    BY <2>1, <1>1, <1>2
  <2>5. ~(star - 1 < Stop(m, 1, Star))
    <3> SUFFICES ASSUME star - 1 < Stop(m, 1, Star) PROVE FALSE
      OBVIOUS
    <3>1. star - 1 \in 1 .. Stop(m, 1, Star) - 1
      BY <2>4
    <3> QED BY <3>1, <2>1, <2>2
  <2>6. ~(Stop(m, 1, Star) < star - 1)
    <3> SUFFICES ASSUME Stop(m, 1, Star) < star - 1 PROVE FALSE
      OBVIOUS
    <3>1. Stop(m, 1, Star) \in 1 .. star - 2
      BY <2>1, <2>4, <1>1, <1>2
    <3> QED BY <3>1, <2>1, <2>3
  <2> QED BY <2>4, <2>5, <2>6
<1>4. Text(m, 1, star - 2) = SubSeq(l, 2, star - 1)
  <2>1. SubSeq(l, 2, star - 1) = [j \in 1 .. star - 2 |-> l[j + 1]]
    BY <1>1, <1>2 DEF Holds
  <2>2. Text(m, 1, star - 2) = [j \in 1 .. star - 2 |-> At(m, j)]
    BY <1>1, <1>2 DEF Text
  <2>3. \A j \in 1 .. star - 2 : At(m, j) = l[j + 1]
    BY <1>1, <1>2
  <2> QED BY <2>1, <2>2, <2>3
<1>5. /\ end \in star .. MaxRaw + 1
      /\ At(m, end) = NUL
  <2>1. star \in 0 .. MaxRaw + 1
    BY <1>1, <1>2
  <2> QED BY <2>1, <1>2, StopIs
<1>6. n \in 1 .. MaxRaw - 2 /\ k \in 1 .. n
  BY <1>1, <1>2, <1>5
<1>7. s = [j \in 1 .. n |-> At(m, star + j - 1)]
  BY <1>1, <1>2, <1>5 DEF Text
<1>8. s \in [1 .. n -> Byte \cup Kinds]
  <2>1. \A j \in 1 .. n : At(m, star + j - 1) \in Byte \cup Kinds
    BY <1>1, <1>2, <1>6, AtType
  <2> QED BY <1>7, <2>1
<1>9. /\ s[1] \in Digits
      /\ s[k] = LF
  <2>1. s[1] = At(m, star) /\ s[k] = At(m, Len(l) - 1)
    BY <1>1, <1>2, <1>6, <1>7
  <2>2. At(m, star) = l[star + 1] /\ At(m, Len(l) - 1) = l[Len(l)]
    BY <1>1, <1>2
  <2> QED BY <2>1, <2>2 DEF Holds
<1>10. SubSeq(s, 1, k - 1) = SubSeq(l, star + 1, Len(l) - 1)
  <2>1. s \in Seq(Byte \cup Kinds) /\ Len(s) = n
    BY <1>6, <1>8
  <2>2. SubSeq(s, 1, k - 1) = [j \in 1 .. k - 1 |-> s[j]]
    BY <2>1, <1>6
  <2>3. SubSeq(l, star + 1, Len(l) - 1) = [j \in 1 .. k - 1 |-> l[star + j]]
    BY <1>1, <1>2 DEF Holds
  <2>4. \A j \in 1 .. k - 1 : s[j] = l[star + j]
    <3> TAKE j \in 1 .. k - 1
    <3>1. s[j] = At(m, star + j - 1) /\ star + j - 1 \in 0 .. Len(l) - 1
      BY <1>1, <1>2, <1>6, <1>7
    <3>2. star + j - 1 + 1 = star + j
      BY <1>1, <1>2
    <3> QED BY <3>1, <3>2, <1>1
  <2> QED BY <2>2, <2>3, <2>4
<1>11. Hex(s) = Hex(SubSeq(s, 1, k - 1))
  <2> HIDE DEF s, n, k
  <2> QED BY <1>6, <1>8, <1>9, NmeaAssumption
<1>12. star - 1 - 1 = star - 2 /\ star - 1 + 1 = star
  BY <1>1, <1>2
<1> QED BY <1>3, <1>4, <1>10, <1>11, <1>12 DEF ChecksumOK

(* Some field is cut off; every comma of the line is a cut when they are   *)
(* no more than the fields kept; the header is left alone.                 *)
LEMMA CutsOfLine ==
  ASSUME NEW m, NEW l, NEW star, Holds(m, l, star), msg_type \in Kinds
  PROVE  /\ Cuts(m) # {}
         /\ LET commas == {i \in 0 .. Len(l) - 1 : l[i + 1] = Comma}
            IN Cardinality(commas) <= MaxField => commas \subseteq Cuts(m)
         /\ \A i \in 1 .. HeaderLen : l[i + 1] # Comma => i \notin Cuts(m)
<1> DEFINE text == 0 .. Stop(m, 0, NUL) - 1
           commas == {i \in 0 .. Len(l) - 1 : l[i + 1] = Comma}
           Upto(i) == {k \in Separators(m) : k <= i}
<1>1. /\ MaxRaw \in Nat /\ HeaderLen \in Nat \ {0} /\ Len(l) \in Nat
      /\ \A i \in 0 .. Len(l) - 1 : At(m, i) = l[i + 1] /\ At(m, i) # NUL
  BY HeldAt
<1>2. star \in HeaderLen + 2 .. Len(l) - 2 /\ Len(l) <= MaxRaw /\ m \in [0 .. MaxRaw - 1 -> Byte]
  BY DEF Holds
<1>3. MaxField \in Nat \ {0}
  BY NmeaAssumption
<1>4. Stop(m, 0, NUL) \in 0 .. MaxRaw + 1 /\ 0 .. Len(l) - 1 \subseteq text
  <2>1. Stop(m, 0, NUL) \in 0 .. MaxRaw + 1 /\ At(m, Stop(m, 0, NUL)) = NUL
    BY <1>1, <1>2, StopIs
  <2> QED BY <2>1, <1>1
<1>5. Separators(m) \subseteq 0 .. MaxRaw - 1
  BY <1>2, CutsInBuffer
<1>6. Separators(m) # {}
  <2>1. CASE \E i \in text : At(m, i) = Comma
    BY <2>1 DEF Separators
  <2>2. CASE \A i \in text : At(m, i) # Comma
    <3>1. star - 1 \in text /\ At(m, star - 1) = Star
      <4>1. star - 1 \in 0 .. Len(l) - 1 /\ star - 1 + 1 = star
        BY <1>1, <1>2
      <4> QED BY <4>1, <1>1, <1>4 DEF Holds
    <3> QED BY <2>2, <3>1 DEF Separators
  <2> QED BY <2>1, <2>2
<1>7. Cuts(m) # {}
  <2>1. PICK i \in Separators(m) : \A k \in Separators(m) : i <= k
    BY <1>1, <1>5, <1>6, Least
  <2>2. Upto(i) = {i}
    BY <2>1, <1>5, <1>1
  <2>3. Cardinality(Upto(i)) = 1
    BY <2>2, FS_Singleton
  <2> QED BY <2>3, <1>3 DEF Cuts
<1>8. ASSUME Cardinality(commas) <= MaxField PROVE commas \subseteq Cuts(m)
  <2> SUFFICES ASSUME NEW i \in commas PROVE i \in Cuts(m)
    OBVIOUS
  <2>1. i \in text /\ At(m, i) = Comma
    BY <1>1, <1>4
  <2>2. i \in Separators(m)
    BY <2>1 DEF Separators
  <2>3. Upto(i) \subseteq commas
    <3> SUFFICES ASSUME NEW k \in Separators(m), k <= i PROVE k \in commas
      OBVIOUS
    <3>1. k \in 0 .. Len(l) - 1
      BY <1>1, <1>5
    <3>2. At(m, k) = Comma
      BY <2>1, <1>1, <3>1 DEF Separators
    <3> QED BY <3>1, <3>2, <1>1
  <2>4. IsFiniteSet(commas)
    <3>1. IsFiniteSet(0 .. Len(l) - 1)
      BY <1>1, FS_Interval
    <3> QED BY <3>1, FS_Subset
  <2>5. Cardinality(Upto(i)) <= Cardinality(commas)
    <3> HIDE DEF commas, Upto
    <3> QED BY <2>3, <2>4, FS_Subset
  <2>6. Cardinality(Upto(i)) \in Nat /\ Cardinality(commas) \in Nat
    <3> HIDE DEF commas, Upto
    <3> QED BY <2>3, <2>4, FS_Subset, FS_CardinalityType
  <2> QED BY <2>2, <2>5, <2>6, <1>3, <1>8 DEF Cuts
<1>9. ASSUME NEW i \in 1 .. HeaderLen, l[i + 1] # Comma PROVE i \notin Cuts(m)
  <2>1. At(m, i) = l[i + 1] /\ i + 1 \in 1 .. star - 1
    BY <1>1, <1>2
  <2>2. At(m, i) # Star
    BY <2>1 DEF Holds
  <2> QED BY <1>9, <2>1, <2>2 DEF Cuts, Separators
<1> QED BY <1>7, <1>8, <1>9

-----------------------------------------------------------------------------
(* While a line may still be a sentence the buffer holds it; otherwise the *)
(* decoder hunts, and remembers of the line its last byte only.            *)
Tracks ==
  /\ (line = << >> \/ Ended) => nbyte = 0 /\ buf[1] # Dollar
  /\ (line # << >> /\ ~Ended) =>
       IF Synced(line)
       THEN nbyte = Len(line) /\ \A i \in 1 .. Len(line) : buf[i - 1] = line[i]
       ELSE nbyte = 0 /\ buf[1] = line[Len(line)]

Inductive == TypeOK /\ Tracks /\ CompleteAccepted

(* The sizes and the bytes that tell the actions apart.                    *)
LEMMA Given ==
  /\ MaxRaw \in Nat /\ HeaderLen \in Nat \ {0} /\ MaxRaw >= HeaderLen + 2
  /\ {NUL, Dollar, LF} \cup Talkers \subseteq Byte /\ NUL \in Kinds
  /\ Dollar \notin Talkers \cup {NUL, LF} /\ LF \notin Talkers
BY NmeaAssumption DEF Kinds

LEMMA InitInductive == Init => Inductive
<1> USE Given
<1> SUFFICES ASSUME Init PROVE Inductive
  OBVIOUS
<1>1. TypeOK
  BY DEF Init, TypeOK
<1>2. Tracks
  BY DEF Init, Tracks
<1>3. CompleteAccepted
  BY DEF Init, CompleteAccepted, Sentence, Ended
<1> QED BY <1>1, <1>2, <1>3 DEF Inductive

(* What a line feed leaves in the buffer: the line, with NULs for cuts.    *)
LEMMA ParseType ==
  ASSUME TypeOK, NEW b \in Byte, Parse(b)
  PROVE  /\ buf' \in [0 .. MaxRaw - 1 -> Byte] /\ msg_type' \in Kinds
         /\ ret' \in {0, 1} /\ cuts' \subseteq 0 .. MaxRaw - 1
         /\ buf'[1] \in {buf[1], b, NUL} /\ (nbyte > 1 => buf'[1] \in {buf[1], NUL})
<1> DEFINE m == [buf EXCEPT ![nbyte] = b]
           ends == IF ChecksumOK(m) THEN Cuts(m) ELSE {}
           h == [i \in 1 .. HeaderLen |-> buf'[i]]
           kind == IF ends = {} THEN NUL ELSE Kind(h)
<1>1. m \in [0 .. MaxRaw - 1 -> Byte] /\ m[1] \in {buf[1], b} /\ (nbyte > 1 => m[1] = buf[1])
  BY Given DEF TypeOK, Parse, Room
<1>2. ends \subseteq 0 .. MaxRaw - 1
  <2> HIDE DEF m
  <2> QED BY <1>1, CutsInBuffer DEF TypeOK
<1>3. /\ buf' = [i \in DOMAIN m |-> IF i \in ends THEN NUL ELSE m[i]]
      /\ ret' = IF kind = NUL THEN 0 ELSE 1
      /\ msg_type' = IF kind = NUL THEN msg_type ELSE kind
      /\ cuts' = IF kind = NUL THEN cuts ELSE ends
  BY Zenon DEF Parse
<1>4. buf' \in [0 .. MaxRaw - 1 -> Byte] /\ buf'[1] \in {m[1], NUL}
  <2> HIDE DEF m, ends
  <2> QED BY <1>1, <1>3, Given
<1>5. h \in [1 .. HeaderLen -> Byte]
  BY <1>4, Given
<1>6. kind \in Kinds
  <2> HIDE DEF h, ends
  <2> QED BY <1>5, Given DEF Kinds
<1> HIDE DEF m, ends, kind
<1>7. msg_type' \in Kinds /\ ret' \in {0, 1} /\ cuts' \subseteq 0 .. MaxRaw - 1
  BY <1>2, <1>3, <1>6 DEF TypeOK
<1> QED BY <1>1, <1>4, <1>7

LEMMA LineType ==
  ASSUME TypeOK, NEW b \in Byte, Extend(b)
  PROVE  line' \in Seq(Byte)
<1>1. line \in Seq(Byte)
  BY DEF TypeOK
<1>2. line # << >> => line[Len(line)] \in Byte
  BY <1>1
<1> QED BY <1>1, <1>2 DEF Extend

LEMMA StepType ==
  ASSUME TypeOK, NEW b \in Byte, input_nmea(b), Extend(b)
  PROVE  TypeOK'
<1> USE Given
<1>1. line' \in Seq(Byte)
  BY LineType
<1>2. CASE Hunt(b)
  BY <1>1, <1>2 DEF TypeOK, Hunt
<1>3. CASE Overlong(b)
  BY <1>1, <1>3 DEF TypeOK, Overlong
<1>4. CASE Gather(b)
  BY <1>1, <1>4 DEF TypeOK, Gather, Room
<1>5. CASE Parse(b)
  <2>1. nbyte' = 0
    BY <1>5 DEF Parse
  <2> QED BY <1>1, <1>5, <2>1, ParseType DEF TypeOK
<1> QED BY <1>2, <1>3, <1>4, <1>5 DEF input_nmea

(* A byte that begins a line, or follows one that is no sentence so far.   *)
LEMMA HuntTracks ==
  ASSUME TypeOK, Tracks, NEW b \in Byte, Hunt(b), Extend(b)
  PROVE  Tracks'
<1> USE Given
<1>1. line \in Seq(Byte) /\ buf \in [0 .. MaxRaw - 1 -> Byte] /\ nbyte = 0
  BY DEF TypeOK, Hunt
<1>2. buf'[0] = buf[1] /\ buf'[1] = b
  BY <1>1 DEF Hunt
<1>3. CASE line = << >> \/ Ended
  <2>1. line' = <<b>> /\ nbyte' = 0
    BY <1>3 DEF Extend, Tracks, Hunt
  <2>2. Len(line') = 1 /\ line'[1] = b /\ line' # << >>
    BY <2>1
  <2> QED BY <1>2, <2>1, <2>2 DEF Tracks, Ended, Synced
<1>4. CASE line # << >> /\ ~Ended
  <2> DEFINE last == line[Len(line)]
  <2>1. ~Synced(line) /\ buf[1] = last
    BY <1>1, <1>4 DEF Tracks, Synced
  <2>2. line' = <<last, b>>
    BY <1>4, <2>1 DEF Extend
  <2>3. Len(line') = 2 /\ line'[1] = last /\ line'[2] = b /\ line' # << >>
    BY <2>2
  <2>4. Synced(line)' <=> nbyte' = 2
    BY <2>1, <2>3 DEF Synced, Hunt
  <2>5. nbyte' \in {0, 2}
    BY DEF Hunt
  <2>6. CASE b = LF
    BY <1>2, <2>1, <2>3, <2>5, <2>6 DEF Tracks, Ended, Hunt
  <2>7. CASE b # LF
    <3>1. \A i \in 1 .. Len(line') : buf'[i - 1] = line'[i]
      BY <1>2, <2>1, <2>3
    <3> QED BY <1>2, <2>3, <2>4, <2>5, <2>7, <3>1 DEF Tracks, Ended
  <2> QED BY <2>6, <2>7
<1> QED BY <1>3, <1>4

(* A line that is gathered is a sync, and grows by the byte.               *)
LEMMA GatheredLine ==
  ASSUME TypeOK, Tracks, nbyte # 0
  PROVE  /\ line # << >> /\ ~Ended /\ Synced(line) /\ nbyte = Len(line) /\ Len(line) >= 2
         /\ \A i \in 1 .. Len(line) : buf[i - 1] = line[i]
         /\ buf[1] = line[2] /\ buf[1] # Dollar
<1>1. /\ line # << >> /\ ~Ended /\ Synced(line) /\ nbyte = Len(line)
      /\ \A i \in 1 .. Len(line) : buf[i - 1] = line[i]
  BY DEF Tracks
<1>2. Len(line) \in Nat /\ Len(line) >= 2 /\ line[2] \in Talkers
  BY <1>1 DEF Synced, TypeOK
<1>3. buf[1] = line[2]
  <2>1. 2 \in 1 .. Len(line) /\ 2 - 1 = 1
    BY <1>2
  <2> QED BY <2>1, <1>1
<1> QED BY <1>1, <1>2, <1>3, Given

LEMMA StepTracks ==
  ASSUME TypeOK, Tracks, NEW b \in Byte, input_nmea(b), Extend(b)
  PROVE  Tracks'
<1> USE Given
<1>1. line \in Seq(Byte) /\ buf \in [0 .. MaxRaw - 1 -> Byte] /\ nbyte \in 0 .. MaxRaw
  BY DEF TypeOK
<1>2. CASE Hunt(b)
  BY <1>2, HuntTracks
<1>3. CASE Overlong(b)
  <2>1. nbyte = MaxRaw /\ nbyte # 0 /\ nbyte' = 0 /\ buf' = buf
    BY <1>1, <1>3 DEF Overlong
  <2>2. Len(line) = MaxRaw /\ line # << >> /\ ~Ended /\ Synced(line) /\ buf[1] # Dollar
    BY <2>1, GatheredLine
  <2>3. line' = << >> \/ (b = LF /\ line' = Append(line, b))
    BY <2>2 DEF Extend
  <2>4. line' = << >> \/ Ended'
    BY <1>1, <2>3 DEF Ended
  <2> QED BY <2>1, <2>2, <2>4 DEF Tracks
<1>4. CASE Gather(b) \/ Parse(b)
  <2>1. nbyte # 0 /\ nbyte < MaxRaw
    BY <1>4 DEF Gather, Parse, Room
  <2>2. /\ line # << >> /\ ~Ended /\ Synced(line) /\ nbyte = Len(line) /\ Len(line) >= 2
        /\ \A i \in 1 .. Len(line) : buf[i - 1] = line[i]
        /\ buf[1] # Dollar
    BY <2>1, GatheredLine
  <2>3. line' = Append(line, b)
    BY <2>1, <2>2 DEF Extend
  <2>4. /\ Len(line') = Len(line) + 1 /\ line' # << >>
        /\ line'[Len(line) + 1] = b
        /\ \A i \in 1 .. Len(line) : line'[i] = line[i]
    BY <1>1, <2>3
  <2>5. CASE Gather(b)
    <3>1. ~Ended' /\ nbyte' = Len(line')
      BY <2>2, <2>4, <2>5 DEF Ended, Gather
    <3>2. Synced(line)'
      BY <1>1, <2>2, <2>4 DEF Synced
    <3>3. \A i \in 1 .. Len(line') : buf'[i - 1] = line'[i]
      <4> TAKE i \in 1 .. Len(line')
      <4>1. buf' = [buf EXCEPT ![nbyte] = b] /\ nbyte \in 0 .. MaxRaw - 1
        BY <1>1, <2>1, <2>5 DEF Gather
      <4>2. CASE i = Len(line')
        BY <1>1, <2>2, <2>4, <4>1, <4>2
      <4>3. CASE i # Len(line')
        BY <1>1, <2>2, <2>4, <4>1, <4>3
      <4> QED BY <4>2, <4>3
    <3> QED BY <2>4, <3>1, <3>2, <3>3 DEF Tracks
  <2>6. CASE Parse(b)
    <3>1. Ended' /\ nbyte' = 0
      BY <2>4, <2>6 DEF Ended, Parse
    <3>2. buf'[1] # Dollar
      BY <2>2, <2>6, ParseType
    <3> QED BY <3>1, <3>2 DEF Tracks
  <2> QED BY <1>4, <2>5, <2>6
<1> QED BY <1>2, <1>3, <1>4 DEF input_nmea

(* Only the line feed that fits ends a sentence.                           *)
LEMMA SentenceByParse ==
  ASSUME TypeOK, Tracks, NEW b \in Byte, input_nmea(b), Extend(b), Sentence'
  PROVE  /\ Parse(b) /\ b = LF /\ line' = Append(line, b) /\ nbyte = Len(line)
         /\ \A i \in 1 .. Len(line) : buf[i - 1] = line[i]
<1> USE Given
<1>1. line \in Seq(Byte) /\ nbyte \in 0 .. MaxRaw
  BY DEF TypeOK
<1>2. ~Hunt(b)
  <2> SUFFICES ASSUME Hunt(b) PROVE FALSE
    OBVIOUS
  <2>1. line' = <<b>> \/ line' = <<line[Len(line)], b>>
    BY DEF Extend, Tracks, Synced, Hunt, TypeOK
  <2>2. line' # <<b>>
    BY DEF Sentence, Synced
  <2> QED BY <2>1, <2>2 DEF Sentence, Synced, Ended
<1>3. nbyte # 0
  BY <1>1, <1>2 DEF input_nmea, Overlong, Gather, Parse, Room
<1>4. /\ line # << >> /\ ~Ended /\ Synced(line) /\ nbyte = Len(line)
      /\ \A i \in 1 .. Len(line) : buf[i - 1] = line[i]
  BY <1>3, GatheredLine
<1>5. line' = Append(line, b)
  BY <1>4 DEF Extend, Sentence, Ended
<1>6. Len(line) < MaxRaw /\ b = LF
  BY <1>1, <1>5 DEF Sentence, Ended
<1> QED BY <1>2, <1>4, <1>5, <1>6 DEF input_nmea, Overlong, Gather

LEMMA StepAccepted ==
  ASSUME TypeOK, Tracks, NEW b \in Byte, input_nmea(b), Extend(b)
  PROVE  CompleteAccepted'
<1> USE Given
<1> SUFFICES ASSUME Sentence', Complete', (Kind(Header) # NUL)',
                    (\A i \in 1 .. HeaderLen : Header[i] # Comma)'
             PROVE  /\ ret' = 1
                    /\ LET commas == {i \in 0 .. Len(line') - 1 : line'[i + 1] = Comma}
                       IN Cardinality(commas) <= MaxField => commas \subseteq cuts'
  BY DEF CompleteAccepted
<1> DEFINE l == line'
           m == [buf EXCEPT ![nbyte] = b]
           h == [i \in 1 .. HeaderLen |-> buf'[i]]
<1>1. line \in Seq(Byte) /\ l \in Seq(Byte) /\ buf \in [0 .. MaxRaw - 1 -> Byte]
  BY LineType DEF TypeOK
<1>2. /\ Parse(b) /\ b = LF /\ l = Append(line, b) /\ nbyte = Len(line)
      /\ \A i \in 1 .. Len(line) : buf[i - 1] = line[i]
  BY SentenceByParse
<1>3. Len(l) = Len(line) + 1 /\ Len(l) <= MaxRaw /\ l[Len(l)] = LF
  BY <1>1, <1>2 DEF Sentence
<1>4. m \in [0 .. MaxRaw - 1 -> Byte] /\ \A i \in 1 .. Len(l) : m[i - 1] = l[i]
  <2>1. nbyte \in 0 .. MaxRaw - 1
    BY <1>1, <1>2, <1>3
  <2>2. \A i \in 1 .. Len(line) : l[i] = line[i]
    BY <1>1, <1>2
  <2>3. ASSUME NEW i \in 1 .. Len(l) PROVE m[i - 1] = l[i]
    <3>1. CASE i = Len(l)
      BY <1>1, <1>2, <1>3, <2>1, <3>1
    <3>2. CASE i # Len(l)
      BY <1>1, <1>2, <1>3, <2>1, <2>2, <3>2
    <3> QED BY <3>1, <3>2
  <2> QED BY <1>1, <2>1, <2>3
<1>5. PICK star \in HeaderLen + 2 .. Len(l) - 2 :
        /\ l[star] = Star /\ \A i \in 1 .. star - 1 : l[i] \notin {Star, NUL}
        /\ Xor(SubSeq(l, 2, star - 1)) = Hex(SubSeq(l, star + 1, Len(l) - 1))
        /\ l[star + 1] \in Digits
        /\ \A i \in star + 1 .. Len(l) : l[i] \notin {NUL, Comma, Star}
  BY DEF Complete, Checked
<1> HIDE DEF l, m
<1>6. Holds(m, l, star)
  BY <1>1, <1>3, <1>4, <1>5 DEF Holds
<1>7. msg_type \in Kinds
  BY DEF TypeOK
<1>8. ChecksumOK(m)
  BY <1>5, <1>6, <1>7, SumOfLine
<1>9. /\ Cuts(m) # {}
      /\ LET commas == {i \in 0 .. Len(l) - 1 : l[i + 1] = Comma}
         IN Cardinality(commas) <= MaxField => commas \subseteq Cuts(m)
      /\ \A i \in 1 .. HeaderLen : l[i + 1] # Comma => i \notin Cuts(m)
  BY <1>6, <1>7, CutsOfLine
<1>10. /\ buf' = [i \in DOMAIN m |-> IF i \in Cuts(m) THEN NUL ELSE m[i]]
       /\ ret' = IF Kind(h) = NUL THEN 0 ELSE 1
       /\ cuts' = IF Kind(h) = NUL THEN cuts ELSE Cuts(m)
  BY <1>2, <1>8, <1>9, Zenon DEF Parse, m
<1>11. SubSeq(l, 2, 1 + HeaderLen) = [i \in 1 .. HeaderLen |-> l[i + 1]]
  BY <1>1, <1>3, <1>5
<1>12. Header' = SubSeq(l, 2, 1 + HeaderLen)
  BY DEF Header, l
<1>13. h = Header'
  <2>1. ASSUME NEW i \in 1 .. HeaderLen PROVE buf'[i] = l[i + 1]
    <3>1. Header'[i] # Comma
      BY <2>1
    <3>2. l[i + 1] # Comma
      BY <1>11, <1>12, <3>1
    <3>3. i \in DOMAIN m /\ m[i] = l[i + 1]
      BY <1>1, <1>3, <1>4, <1>5
    <3> QED BY <1>9, <1>10, <3>2, <3>3
  <2> QED BY <1>11, <1>12, <2>1
<1>14. Kind(h) # NUL
  BY <1>13
<1> QED BY <1>9, <1>10, <1>14 DEF l

LEMMA StepInductive == Inductive /\ [Next]_vars => Inductive'
<1> SUFFICES ASSUME Inductive, [Next]_vars PROVE Inductive'
  OBVIOUS
<1>1. CASE Next
  <2>1. PICK b \in Byte : input_nmea(b) /\ Extend(b)
    BY <1>1 DEF Next
  <2> QED BY <2>1, StepType, StepTracks, StepAccepted DEF Inductive
<1>2. CASE UNCHANGED vars
  BY <1>2 DEF Inductive, TypeOK, Tracks, CompleteAccepted, Sentence, Complete, Checked,
              Header, Ended, Synced, vars
<1> QED BY <1>1, <1>2

LEMMA AlwaysInductive == Spec => []Inductive
<1>1. Init => Inductive
  BY InitInductive
<1>2. Inductive /\ [Next]_vars => Inductive'
  BY StepInductive
<1> QED BY <1>1, <1>2, PTL DEF Spec

(* No call writes outside the buffer, nor cuts a field behind it           *)
(* (nmea_dec.c:205-219, 256-262).                                          *)
THEOREM TypeCorrect == Spec => []TypeOK
<1>1. Inductive => TypeOK
  BY DEF Inductive
<1> QED BY <1>1, AlwaysInductive, PTL

(* Whatever the buffer held before, a complete sentence of a known kind is *)
(* accepted and cut at its own commas (nmea_dec.c:188-241).                *)
THEOREM SentencesAccepted == Spec => []CompleteAccepted
<1>1. Inductive => CompleteAccepted
  BY DEF Inductive
<1> QED BY <1>1, AlwaysInductive, PTL

=============================================================================
