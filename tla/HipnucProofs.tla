---------------------------- MODULE HipnucProofs ----------------------------
(***************************************************************************)
(* What the IMU's byte decoder does with any stream, for every buffer      *)
(* size, byte alphabet, pair of sync codes and checksum; at the end, what  *)
(* it does on a line that carries frames (HipnucLink).                     *)
(***************************************************************************)
EXTENDS HipnucStream, HipnucLink, TLAPS

LEMMA BytesAreNumbers == Byte \subseteq Nat
BY DecoderAssumption

LEMMA SequenceElements ==
  ASSUME NEW S, NEW s \in Seq(S)
  PROVE  Len(s) \in Nat /\ \A i \in 1 .. Len(s) : s[i] \in S
OBVIOUS

LEMMA AppendElements ==
  ASSUME NEW S, NEW s \in Seq(S), NEW x \in S
  PROVE  /\ Append(s, x) \in Seq(S)
         /\ Len(Append(s, x)) = Len(s) + 1
         /\ \A i \in 1 .. Len(s) : Append(s, x)[i] = s[i]
         /\ Append(s, x)[Len(s) + 1] = x
OBVIOUS

(* The checksummed part of a frame of n payload bytes at position i.       *)
Checked(s, i, n) == [k \in 1 .. 4 + n |-> IF k <= 4 THEN s[i + k - 1] ELSE s[i + k + 1]]

(* Whether a stretch is a frame depends on its own bytes only.             *)
LEMMA IntactLocal ==
  ASSUME NEW s \in Seq(Byte), NEW t \in Seq(Byte), NEW i \in Nat, NEW j \in Nat,
         \A k \in i .. j : s[k] = t[k],
         \A k \in i .. j : s[k] \in Nat
  PROVE  Intact(s, i, j) <=> Intact(t, i, j)
<1>1. CASE i + CH_HDR_SIZE - 1 <= j
  <2> DEFINE n == U2(s[i + 2], s[i + 3])
  <2>1. /\ s[i] = t[i] /\ s[i + 1] = t[i + 1] /\ s[i + 2] = t[i + 2]
        /\ s[i + 3] = t[i + 3] /\ s[i + 4] = t[i + 4] /\ s[i + 5] = t[i + 5]
        /\ n \in Nat /\ n = U2(t[i + 2], t[i + 3])
    BY SMTT(30), <1>1 DEF CH_HDR_SIZE, U2
  <2> HIDE DEF n
  <2>2. ASSUME j = i + CH_HDR_SIZE - 1 + n
        PROVE  Checked(s, i, n) = Checked(t, i, n)
    <3>1. \A k \in 1 .. 4 + n : (IF k <= 4 THEN s[i + k - 1] ELSE s[i + k + 1])
                                  = (IF k <= 4 THEN t[i + k - 1] ELSE t[i + k + 1])
      <4> TAKE k \in 1 .. 4 + n
      <4>1. k <= 4 => i + k - 1 \in i .. j
        BY <2>1, <2>2 DEF CH_HDR_SIZE
      <4>2. k > 4 => i + k + 1 \in i .. j
        BY <2>1, <2>2 DEF CH_HDR_SIZE
      <4>3. k \in Int
        BY <2>1
      <4> QED BY <4>1, <4>2, <4>3
    <3> QED BY <3>1 DEF Checked
  <2>3. Intact(s, i, j) <=>
          /\ SyncAt(s, i) /\ n <= MaxRaw - CH_HDR_SIZE /\ j = i + CH_HDR_SIZE - 1 + n
          /\ Crc(Checked(s, i, n)) = U2(s[i + 4], s[i + 5])
    BY <1>1 DEF Intact, Checked, n
  <2>4. Intact(t, i, j) <=>
          /\ SyncAt(t, i) /\ n <= MaxRaw - CH_HDR_SIZE /\ j = i + CH_HDR_SIZE - 1 + n
          /\ Crc(Checked(t, i, n)) = U2(t[i + 4], t[i + 5])
    BY <1>1, <2>1 DEF Intact, Checked
  <2>5. SyncAt(s, i) <=> SyncAt(t, i)
    BY <2>1 DEF SyncAt
  <2> QED BY <2>1, <2>2, <2>3, <2>4, <2>5
<1>2. CASE ~(i + CH_HDR_SIZE - 1 <= j)
  BY <1>2 DEF Intact
<1> QED BY <1>1, <1>2

(* A segment stays what it is when the stream grows.                       *)
LEMMA ShapedStable ==
  ASSUME NEW s \in Seq(Byte), NEW b \in Byte, NEW sg \in Seq(Segment),
         NEW k \in 1 .. Len(sg), Shaped(s, sg, k)
  PROVE  Shaped(Append(s, b), sg, k)
<1> DEFINE t == Append(s, b)
           f == sg[k].first
           l == sg[k].last
           n == U2(s[f + 2], s[f + 3])
<1>1. /\ t \in Seq(Byte) /\ Len(t) = Len(s) + 1 /\ Len(s) \in Nat
      /\ \A i \in 1 .. Len(s) : t[i] = s[i] /\ s[i] \in Nat
  <2>1. \A i \in 1 .. Len(s) : s[i] \in Byte
    BY SequenceElements
  <2>2. /\ t \in Seq(Byte) /\ Len(t) = Len(s) + 1
        /\ \A i \in 1 .. Len(s) : t[i] = s[i]
    BY AppendElements
  <2>3. Len(s) \in Nat
    BY SequenceElements
  <2> HIDE DEF t
  <2> QED BY <2>1, <2>2, <2>3, BytesAreNumbers
<1> HIDE DEF t
<1>2. \A i \in 1 .. Len(sg) : sg[i] \in Segment
  BY SequenceElements
<1>3. /\ f \in Nat /\ l \in Nat
      /\ f > 0 /\ l >= f + 5 /\ l <= Len(s)
  <2>1. f \in Nat /\ l \in Nat
    BY <1>2 DEF Segment
  <2>2. k # 1 => sg[k - 1].last \in Nat
    BY <1>2 DEF Segment
  <2> QED BY <2>1, <2>2 DEF Shaped, CH_HDR_SIZE
<1> HIDE DEF f, l
<1>4. \A i \in f .. l : s[i] = t[i] /\ s[i] \in Nat
  BY <1>1, <1>2, <1>3
<1>5. Intact(s, f, l) <=> Intact(t, f, l)
  BY <1>1, <1>3, <1>4, IntactLocal
<1>6. SyncAt(t, f) /\ n = U2(t[f + 2], t[f + 3])
  <2>1. t[f] = s[f] /\ t[f + 1] = s[f + 1] /\ t[f + 2] = s[f + 2] /\ t[f + 3] = s[f + 3]
    BY <1>3, <1>4
  <2> QED BY <2>1 DEF Shaped, SyncAt, f
<1>7. l <= Len(t)
  BY <1>1, <1>3
<1>8. /\ (IF k = 1 THEN 0 ELSE sg[k - 1].last) < f
      /\ f + CH_HDR_SIZE - 1 <= l
      /\ l = f + CH_HDR_SIZE - 1 + (IF n <= MaxRaw - CH_HDR_SIZE THEN n ELSE 0)
      /\ sg[k].ok <=> Intact(s, f, l)
  BY DEF Shaped, f, l
<1> HIDE DEF n
<1> QED BY <1>5, <1>6, <1>7, <1>8 DEF Shaped, f, l, t

(* The invariant implies the properties the runs check.                    *)
LEMMA SafetyFromInductive ==
  ASSUME Inductive
  PROVE  DeliversIntactFrames /\ MissesNothingElse
<1>1. /\ stream \in Seq(Byte) /\ segments \in Seq(Segment)
      /\ \A i \in 1 .. Len(stream) : stream[i] \in Nat
  BY BytesAreNumbers, SequenceElements DEF Inductive, TypeOK
<1>0. nbyte \in Nat /\ Len(stream) \in Nat /\ Len(segments) \in Nat
      /\ MaxRaw \in Nat /\ MaxRaw >= CH_HDR_SIZE
  BY <1>1, SequenceElements, DecoderAssumption DEF Inductive, TypeOK
<1>2. \A k \in 1 .. Len(segments) :
        /\ segments[k] \in Segment
        /\ Shaped(stream, segments, k)
  BY <1>1 DEF Inductive, SegmentShape
<1>3. DeliversIntactFrames
  <2> USE DEF DeliversIntactFrames
  <2> TAKE k \in 1 .. Len(segments)
  <2> DEFINE g == segments[k]
  <2>1. /\ (IF k = 1 THEN 0 ELSE segments[k - 1].last) < g.first
        /\ g.first + CH_HDR_SIZE - 1 <= g.last
        /\ g.last <= Len(stream)
        /\ g.ok <=> Intact(stream, g.first, g.last)
    BY <1>2 DEF Shaped
  <2>2. g.first \in Nat /\ g.last \in Nat
    BY <1>2 DEF Segment
  <2> QED BY <2>1, <2>2 DEF CH_HDR_SIZE
<1>4. MissesNothingElse
  <2> SUFFICES ASSUME NEW i \in 1 .. Len(stream), NEW j \in 1 .. Len(stream),
                      Intact(stream, i, j),
                      ~\E k \in 1 .. Len(segments) :
                         /\ i - MaxRaw < segments[k].first
                         /\ segments[k].first < i /\ i <= segments[k].last,
                      ~(nbyte > 0 /\ i - MaxRaw < Start /\ Start < i)
               PROVE  \E k \in 1 .. Len(segments) :
                        segments[k] = [first |-> i, last |-> j, ok |-> TRUE]
    BY DEF MissesNothingElse
  <2> DEFINE n == U2(stream[i + 2], stream[i + 3])
  <2>1. /\ i + 5 <= j /\ SyncAt(stream, i) /\ n \in Nat
        /\ n <= MaxRaw - CH_HDR_SIZE /\ j = i + 5 + n
    <3>1. i + 5 <= j /\ SyncAt(stream, i) /\ n <= MaxRaw - CH_HDR_SIZE /\ j = i + 5 + n
      BY <1>0 DEF Intact, CH_HDR_SIZE
    <3>2. stream[i + 2] \in Nat /\ stream[i + 3] \in Nat
      BY <1>0, <1>1, <3>1
    <3> QED BY <3>1, <3>2 DEF U2
  <2>2. CASE nbyte > 0 /\ Start <= i
    <3>0. nbyte < MaxRaw
      BY <1>0 DEF Inductive, TypeOK
    <3>1. nbyte \in Nat /\ Start = i /\ nbyte = Len(stream) - i + 1
      BY <2>2, <1>0, <3>0 DEF Start
    <3>2. nbyte >= CH_HDR_SIZE /\ nbyte >= n + CH_HDR_SIZE
      BY <3>1, <2>1, <1>1 DEF CH_HDR_SIZE
    <3>3. len = U2(buf[2], buf[3]) /\ nbyte < len + CH_HDR_SIZE
          /\ buf[2] = stream[i + 2] /\ buf[3] = stream[i + 3]
      BY <2>2, <3>1, <3>2 DEF Inductive, Gathering, CH_HDR_SIZE
    <3> QED BY <2>1, <3>1, <3>2, <3>3 DEF CH_HDR_SIZE
  <2>3. CASE \E k \in 1 .. Len(segments) : segments[k].first <= i /\ i <= segments[k].last
    <3>1. PICK k \in 1 .. Len(segments) : segments[k].first <= i /\ i <= segments[k].last
      BY <2>3
    <3>2. segments[k].first = i
      <4>1. segments[k].first \in Nat /\ segments[k].last \in Nat
        BY <1>2 DEF Segment
      <4>2. segments[k].last <= segments[k].first + MaxRaw - 1
        <5> DEFINE f == segments[k].first
                   e == segments[k].last
                   m == U2(stream[f + 2], stream[f + 3])
        <5>1. f \in Nat /\ e \in Nat /\ f + 5 <= e /\ e <= Len(stream)
          BY <1>2, <4>1 DEF Shaped, CH_HDR_SIZE
        <5>2. e = f + 5 + (IF m <= MaxRaw - 6 THEN m ELSE 0)
          BY <1>2, <4>1 DEF Shaped, CH_HDR_SIZE
        <5> HIDE DEF f, e
        <5>3. f + 2 \in 1 .. Len(stream) /\ f + 3 \in 1 .. Len(stream)
          BY <1>0, <5>1
        <5>4. m \in Nat
          BY <1>1, <5>3 DEF U2
        <5> HIDE DEF m
        <5>5. e <= f + MaxRaw - 1
          BY <1>0, <5>1, <5>2, <5>4 DEF CH_HDR_SIZE
        <5> QED
          BY <5>5 DEF e, f
      <4> QED
        BY <1>0, <3>1, <4>1, <4>2
    <3>3. segments[k].last = j /\ segments[k].ok
      BY <1>2, <2>1, <3>2 DEF Shaped, CH_HDR_SIZE
    <3> QED BY <1>2, <3>2, <3>3 DEF Segment
  <2>4. i \in 1 .. Len(stream) - 1
    BY <1>0, <2>1
  <2> QED BY <2>1, <2>2, <2>3, <2>4 DEF Inductive, PairsAccounted
<1> QED BY <1>3, <1>4

(***************************************************************************)
(* The invariant is inductive.                                             *)
(***************************************************************************)

(* What every call starts from.                                            *)
LEMMA Before ==
  ASSUME Inductive
  PROVE  /\ nbyte \in Nat /\ nbyte < MaxRaw /\ MaxRaw \in Nat /\ MaxRaw >= CH_HDR_SIZE
         /\ CH_HDR_SIZE = 6 /\ len \in Nat
         /\ Len(stream) \in Nat /\ Len(segments) \in Nat
         /\ \A i \in 1 .. Len(stream) : stream[i] \in Byte
         /\ \A k \in 1 .. Len(segments) : segments[k] \in Segment
         /\ Consumed \in Nat /\ Consumed <= Len(stream)
<1>1. stream \in Seq(Byte) /\ segments \in Seq(Segment)
  BY DEF Inductive, TypeOK
<1>2. /\ Len(stream) \in Nat /\ Len(segments) \in Nat
      /\ \A i \in 1 .. Len(stream) : stream[i] \in Byte
      /\ \A k \in 1 .. Len(segments) : segments[k] \in Segment
  BY <1>1, SequenceElements
<1>3. MaxRaw \in Nat /\ MaxRaw >= CH_HDR_SIZE /\ CH_HDR_SIZE = 6
  BY DecoderAssumption DEF CH_HDR_SIZE
<1>4. nbyte \in Nat /\ nbyte < MaxRaw /\ len \in Nat
  BY <1>3 DEF Inductive, TypeOK
<1>5. Consumed \in Nat /\ Consumed <= Len(stream)
  <2>1. CASE segments = <<>>
    BY <1>2, <2>1 DEF Consumed
  <2>2. CASE segments # <<>>
    <3>1. Len(segments) \in 1 .. Len(segments)
      BY <1>1, <1>2, <2>2
    <3>2. Consumed = segments[Len(segments)].last
      BY <2>2 DEF Consumed
    <3> QED BY <1>2, <3>1, <3>2 DEF Segment, Inductive, SegmentShape, Shaped
  <2> QED BY <2>1, <2>2
<1> QED BY <1>2, <1>3, <1>4, <1>5

(* What every call does to the history.                                    *)
LEMMA History ==
  ASSUME Inductive, NEW b \in Byte, Receive(b)
  PROVE  /\ stream' \in Seq(Byte) /\ Len(stream') = Len(stream) + 1
         /\ \A i \in 1 .. Len(stream) : stream'[i] = stream[i]
         /\ stream'[Len(stream) + 1] = b
         /\ \A k \in 1 .. Len(segments) : Shaped(stream', segments, k)
         /\ \A i \in 1 .. Len(stream) - 1 : SyncAt(stream', i) <=> SyncAt(stream, i)
<1>1. stream \in Seq(Byte) /\ segments \in Seq(Segment) /\ stream' = Append(stream, b)
  BY DEF Inductive, TypeOK, Receive
<1>2. /\ stream' \in Seq(Byte) /\ Len(stream') = Len(stream) + 1
      /\ \A i \in 1 .. Len(stream) : stream'[i] = stream[i]
      /\ stream'[Len(stream) + 1] = b
  BY <1>1, AppendElements
<1>3. \A k \in 1 .. Len(segments) : Shaped(stream', segments, k)
  <2> TAKE k \in 1 .. Len(segments)
  <2>1. Shaped(stream, segments, k)
    BY DEF Inductive, SegmentShape
  <2> QED BY <1>1, <2>1, ShapedStable
<1>4. \A i \in 1 .. Len(stream) - 1 : SyncAt(stream', i) <=> SyncAt(stream, i)
  BY <1>1, <1>2, SequenceElements DEF SyncAt
<1> QED BY <1>2, <1>3, <1>4

(* Which pairs of sync codes a call has to account for.                    *)
LEMMA PairsAfter ==
  ASSUME Inductive, NEW b \in Byte, Receive(b),
         \A i \in 1 .. Len(stream) : SyncAt(stream', i) =>
           \/ \E k \in 1 .. Len(segments') : segments'[k].first <= i /\ i <= segments'[k].last
           \/ nbyte' > 0 /\ Start' <= i
  PROVE  PairsAccounted'
<1>1. Len(stream') - 1 = Len(stream)
  BY Before, History
<1> QED BY <1>1 DEF PairsAccounted

LEMMA HuntStep ==
  ASSUME Inductive, NEW b \in Byte, Receive(b), Hunt(b)
  PROVE  Inductive'
<1>1. /\ nbyte = 0 /\ ret' = 0 /\ len' = len /\ segments' = segments
      /\ buf' = [buf EXCEPT ![0] = buf[1], ![1] = b]
      /\ nbyte' = IF buf[1] = Sync1 /\ b = Sync2 THEN 2 ELSE 0
  BY DEF Hunt, Receive
<1>2. /\ buf \in [0 .. MaxRaw - 1 -> Byte] /\ stream \in Seq(Byte)
      /\ segments \in Seq(Segment) /\ Consumed' = Consumed
  BY <1>1 DEF Inductive, TypeOK, Consumed
<1>3. buf' \in [0 .. MaxRaw - 1 -> Byte] /\ buf'[0] = buf[1] /\ buf'[1] = b
  BY <1>1, <1>2, Before
<1>4. TypeOK'
  BY <1>1, <1>2, <1>3, Before, History DEF TypeOK
<1>5. nbyte' > 0 => /\ nbyte' = 2 /\ buf[1] = Sync1 /\ b = Sync2
                    /\ Len(stream) > Consumed /\ buf[1] = stream[Len(stream)]
  BY <1>1, Before DEF Inductive, Hunting
<1>6. nbyte' > 0 => Start' = Len(stream)
  BY <1>5, Before, History DEF Start
<1>7. Gathering'
  <2> SUFFICES ASSUME nbyte' > 0 PROVE Gathering'
    BY DEF Gathering
  <2>1. \A i \in 0 .. 1 : buf'[i] = stream'[Start' + i]
    <3>1. stream'[Len(stream)] = stream[Len(stream)] /\ stream'[Len(stream) + 1] = b
      BY <1>5, Before, History
    <3> QED BY <1>3, <1>5, <1>6, <3>1, Before
  <2> QED BY <1>2, <1>3, <1>5, <1>6, <2>1, Before DEF Gathering
<1>8. Hunting'
  BY <1>2, <1>3, Before, History DEF Hunting
<1>9. PairsAccounted'
  <2> SUFFICES ASSUME NEW i \in 1 .. Len(stream), SyncAt(stream', i)
               PROVE  \/ \E k \in 1 .. Len(segments) :
                           segments[k].first <= i /\ i <= segments[k].last
                      \/ nbyte' > 0 /\ Start' <= i
    BY <1>1, Before, History DEF PairsAccounted
  <2>1. CASE i # Len(stream)
    <3>1. i \in 1 .. Len(stream) - 1
      BY <2>1, Before
    <3>2. SyncAt(stream, i)
      BY <3>1, History
    <3> QED BY <1>1, <3>1, <3>2 DEF Inductive, PairsAccounted
  <2>2. CASE i = Len(stream)
    <3>1. stream[Len(stream)] = Sync1 /\ b = Sync2
      BY <2>2, Before, History DEF SyncAt
    <3>2. CASE Len(stream) > Consumed
      <4>1. buf[1] = Sync1
        BY <1>1, <3>1, <3>2 DEF Inductive, Hunting
      <4> QED BY <1>1, <1>6, <2>2, <3>1, <4>1
    <3>3. CASE Len(stream) <= Consumed
      <4>1. Consumed = i /\ segments # <<>>
        BY <2>2, <3>3, Before DEF Consumed
      <4>2. Len(segments) \in 1 .. Len(segments) /\ Consumed = segments[Len(segments)].last
        BY <1>2, <4>1, Before DEF Consumed
      <4>3. segments[Len(segments)].first <= segments[Len(segments)].last
        <5> DEFINE k == Len(segments)
        <5>1. Shaped(stream, segments, k)
          BY <4>2 DEF Inductive, SegmentShape
        <5>2. segments[k].first + CH_HDR_SIZE - 1 <= segments[k].last
          BY <5>1 DEF Shaped
        <5>3. segments[k] \in Segment
          BY <4>2, Before
        <5>4. segments[k].first \in Nat /\ segments[k].last \in Nat
          BY <5>3 DEF Segment
        <5> QED
          BY <5>2, <5>4, Before
      <4> QED BY <4>1, <4>2, <4>3, Before
    <3> QED BY <3>2, <3>3, Before
  <2> QED BY <2>1, <2>2
<1>10. SegmentShape'
  BY <1>1, History DEF SegmentShape
<1> QED BY <1>4, <1>7, <1>8, <1>9, <1>10 DEF Inductive

(* A byte stored while a frame is gathered.                                *)
LEMMA StoreFacts ==
  ASSUME Inductive, NEW b \in Byte, Receive(b), Store(b)
  PROVE  /\ nbyte >= 2 /\ Start \in Nat /\ Start > Consumed /\ Start > 0
         /\ Start + nbyte = Len(stream) + 1
         /\ buf' \in [0 .. MaxRaw - 1 -> Byte]
         /\ buf'[0] = Sync1 /\ buf'[1] = Sync2
         /\ \A i \in 0 .. nbyte : buf'[i] = stream'[Start + i]
         /\ len' \in Nat
         /\ nbyte + 1 >= CH_HDR_SIZE =>
              /\ len' = U2(buf'[2], buf'[3])
              /\ nbyte >= CH_HDR_SIZE => len' = len
<1>1. /\ nbyte > 0 /\ buf' = [buf EXCEPT ![nbyte] = b]
      /\ len' = IF nbyte + 1 = CH_HDR_SIZE THEN U2(buf'[2], buf'[3]) ELSE len
  BY DEF Store
<1>2. /\ nbyte >= 2 /\ Start > Consumed /\ buf[0] = Sync1 /\ buf[1] = Sync2
      /\ \A i \in 0 .. nbyte - 1 : buf[i] = stream[Start + i]
      /\ nbyte >= CH_HDR_SIZE => len = U2(buf[2], buf[3])
  BY <1>1 DEF Inductive, Gathering
<1>3. Start \in Nat /\ Start > 0 /\ Start + nbyte = Len(stream) + 1
  BY <1>2, Before DEF Start
<1>4. buf \in [0 .. MaxRaw - 1 -> Byte]
  BY DEF Inductive, TypeOK
<1>5. /\ buf' \in [0 .. MaxRaw - 1 -> Byte]
      /\ buf'[nbyte] = b
      /\ \A i \in 0 .. nbyte - 1 : buf'[i] = buf[i]
  <2>1. nbyte \in 0 .. MaxRaw - 1
    BY Before
  <2> QED BY <1>1, <1>4, <2>1
<1>6. \A i \in 0 .. nbyte : buf'[i] = stream'[Start + i]
  <2> TAKE i \in 0 .. nbyte
  <2>1. CASE i = nbyte
    BY <2>1, <1>3, <1>5, History
  <2>2. CASE i # nbyte
    <3>1. i \in 0 .. nbyte - 1 /\ Start + i \in 1 .. Len(stream)
      BY <2>2, <1>3, Before
    <3> QED BY <3>1, <1>2, <1>5, History
  <2> QED BY <2>1, <2>2
<1>7. len' \in Nat
  <2>1. buf'[2] \in Nat /\ buf'[3] \in Nat
    <3>1. buf'[2] \in Byte /\ buf'[3] \in Byte
      <4>1. buf' \in [0 .. MaxRaw - 1 -> Byte]
        BY <1>5
      <4>2. 2 \in 0 .. MaxRaw - 1 /\ 3 \in 0 .. MaxRaw - 1
        BY Before
      <4> QED BY <4>1, <4>2
    <3> QED BY <3>1, BytesAreNumbers
  <2> QED BY SMTT(30), <1>1, <2>1, Before DEF U2
<1>8. nbyte + 1 >= CH_HDR_SIZE => /\ len' = U2(buf'[2], buf'[3])
                                  /\ nbyte >= CH_HDR_SIZE => len' = len
  <2>1. nbyte >= CH_HDR_SIZE => buf'[2] = buf[2] /\ buf'[3] = buf[3]
    BY <1>5, Before
  <2> QED BY <1>1, <1>2, <2>1, Before
<1>9. buf'[0] = Sync1 /\ buf'[1] = Sync2
  BY SMTT(30), <1>2, <1>5, Before
<1> QED BY <1>2, <1>3, <1>5, <1>6, <1>7, <1>8, <1>9

LEMMA GatherStep ==
  ASSUME Inductive, NEW b \in Byte, Receive(b), Gather(b)
  PROVE  Inductive'
<1>1. /\ Store(b) /\ ~LengthError /\ Incomplete
      /\ nbyte' = nbyte + 1 /\ ret' = 0 /\ segments' = segments
  BY Before DEF Gather, Receive
<1>2. Start' = Start /\ Consumed' = Consumed
  BY <1>1, Before, History DEF Start, Consumed
<1>3. nbyte' < MaxRaw
  <2>1. /\ nbyte \in Nat /\ MaxRaw \in Nat /\ MaxRaw >= 6 /\ CH_HDR_SIZE = 6 /\ len' \in Nat
        /\ nbyte >= CH_HDR_SIZE => len' = len
    BY <1>1, StoreFacts, Before
  <2>2. nbyte >= CH_HDR_SIZE => len <= MaxRaw - CH_HDR_SIZE
    BY <2>1 DEF Inductive, Gathering
  <2>3. nbyte + 1 = 6 => len' <= MaxRaw - 6
    BY <1>1, <2>1 DEF LengthError
  <2>4. nbyte + 1 < 6 \/ nbyte + 1 < len' + 6
    BY <1>1, <2>1 DEF Incomplete
  <2>5. \A n \in Nat : n < 5 \/ n + 1 = 6 \/ n >= 6
    OBVIOUS
  <2>6. CASE nbyte < 5
    BY <1>1, <2>1, <2>6
  <2>7. CASE nbyte >= 5
    <3>1. len' <= MaxRaw - 6
      BY <2>1, <2>2, <2>3, <2>5, <2>7
    <3>2. \A n, l, m \in Nat : n >= 5 /\ l <= m - 6 /\ (n + 1 < 6 \/ n + 1 < l + 6) => n + 1 < m
      OBVIOUS
    <3>3. nbyte + 1 < MaxRaw
      BY <2>1, <2>4, <2>7, <3>1, <3>2
    <3> QED BY <1>1, <3>3
  <2> QED BY <2>1, <2>6, <2>7
<1>4. TypeOK'
  BY <1>1, <1>3, StoreFacts, Before, History DEF TypeOK, Inductive
<1>5. Gathering'
  <2>1. nbyte' >= CH_HDR_SIZE =>
          /\ len' = U2(buf'[2], buf'[3])
          /\ len' <= MaxRaw - CH_HDR_SIZE
          /\ nbyte' < len' + CH_HDR_SIZE
    BY SMTT(30), <1>1, StoreFacts, Before DEF LengthError, Incomplete, Inductive, Gathering
  <2>2. \A i \in 0 .. nbyte' - 1 : buf'[i] = stream'[Start' + i]
    BY <1>1, <1>2, StoreFacts, Before
  <2> QED BY <1>1, <1>2, <2>1, <2>2, StoreFacts, Before DEF Gathering
<1>6. Hunting'
  BY <1>1, Before DEF Hunting
<1>7. PairsAccounted'
  <2> SUFFICES ASSUME NEW i \in 1 .. Len(stream), SyncAt(stream', i)
               PROVE  \/ \E k \in 1 .. Len(segments) :
                           segments[k].first <= i /\ i <= segments[k].last
                      \/ nbyte' > 0 /\ Start' <= i
    BY <1>1, PairsAfter
  <2>1. CASE i # Len(stream)
    <3>1. i \in 1 .. Len(stream) - 1
      BY <2>1, Before
    <3>2. SyncAt(stream, i)
      BY <3>1, History
    <3> QED BY SMTT(30), <1>1, <1>2, <3>1, <3>2, Before DEF Inductive, PairsAccounted
  <2>2. CASE i = Len(stream)
    BY <1>1, <1>2, <2>2, StoreFacts, Before
  <2> QED BY <2>1, <2>2
<1>8. SegmentShape'
  BY <1>1, History DEF SegmentShape
<1> QED BY <1>4, <1>5, <1>6, <1>7, <1>8 DEF Inductive

(* A segment ends: what is left to show is that the new one has its shape. *)
LEMMA SegmentEnds ==
  ASSUME Inductive, NEW b \in Byte, Receive(b), Store(b),
         nbyte + 1 >= CH_HDR_SIZE, nbyte' = 0, ret' \in {-1, 1},
         nbyte + 1 = CH_HDR_SIZE
           + (IF len' <= MaxRaw - CH_HDR_SIZE THEN len' ELSE 0),
         ret' > 0 <=> Intact(stream', Start, Len(stream'))
  PROVE  Inductive'
<1> DEFINE g == [first |-> Start, last |-> Len(stream'), ok |-> ret' > 0]
<1>1. segments' = Append(segments, g)
  BY SMTT(30), StoreFacts, Before DEF Receive
<1>2. g \in Segment /\ segments \in Seq(Segment)
  BY StoreFacts, Before, History DEF Segment, Inductive, TypeOK
<1>3. /\ segments' \in Seq(Segment) /\ Len(segments') = Len(segments) + 1
      /\ \A k \in 1 .. Len(segments) : segments'[k] = segments[k]
      /\ segments'[Len(segments) + 1] = g
  <2> HIDE DEF g
  <2> QED BY <1>1, <1>2, AppendElements
<1>4. Consumed' = Len(stream')
  BY <1>3, Before DEF Consumed
<1>5. TypeOK'
  BY SMTT(30), <1>3, StoreFacts, Before, History DEF TypeOK
<1>6. Gathering'
  BY DEF Gathering
<1>7. Hunting'
  <2>1. Len(stream') \in Nat
    BY Before, History
  <2> QED BY <1>4, <2>1, StoreFacts, DecoderAssumption DEF Hunting
<1>8. PairsAccounted'
  <2> SUFFICES ASSUME NEW i \in 1 .. Len(stream), SyncAt(stream', i)
               PROVE  \E k \in 1 .. Len(segments') :
                        segments'[k].first <= i /\ i <= segments'[k].last
    BY PairsAfter
  <2>1. CASE Start <= i
    <3>1. g.first <= i /\ i <= g.last
      BY <2>1, Before, History
    <3>2. Len(segments) + 1 \in 1 .. Len(segments')
      BY <1>3, Before
    <3> QED BY <1>3, <3>1, <3>2
  <2>2. CASE ~(Start <= i)
    <3>1. i \in 1 .. Len(stream) - 1 /\ SyncAt(stream, i)
      <4>1. i # Len(stream)
        BY <2>2, StoreFacts, Before
      <4>2. i \in 1 .. Len(stream) - 1
        BY <4>1, Before
      <4> QED BY <4>2, History
    <3>2. PICK k \in 1 .. Len(segments) : segments[k].first <= i /\ i <= segments[k].last
      BY <2>2, <3>1 DEF Inductive, PairsAccounted
    <3>3. k \in 1 .. Len(segments') /\ segments'[k] = segments[k]
      BY <1>3, Before
    <3> QED BY <3>2, <3>3
  <2> QED BY <2>1, <2>2
<1>9. SegmentShape'
  <2> SUFFICES ASSUME NEW k \in 1 .. Len(segments')
               PROVE  Shaped(stream', segments', k)
    BY DEF SegmentShape
  <2>1. CASE k \in 1 .. Len(segments)
    <3>1. Shaped(stream', segments, k)
      BY <2>1, History
    <3>2. segments'[k] = segments[k] /\ (k # 1 => segments'[k - 1] = segments[k - 1])
      BY <2>1, <1>3, Before
    <3> QED BY <3>1, <3>2 DEF Shaped
  <2>2. CASE k = Len(segments) + 1
    <3>1. (IF k = 1 THEN 0 ELSE segments'[k - 1].last) < g.first
      <4>1. CASE k = 1
        BY <4>1, StoreFacts
      <4>2. CASE k # 1
        <5>1. Len(segments) \in 1 .. Len(segments) /\ segments # <<>>
          BY <2>2, <4>2, <1>2, Before
        <5>2. segments'[k - 1] = segments[Len(segments)]
          BY <2>2, <5>1, <1>3, Before
        <5> QED BY <4>2, <5>1, <5>2, StoreFacts DEF Consumed
      <4> QED BY <4>1, <4>2
    <3>2. SyncAt(stream', g.first)
      <4>1. stream'[Start + 0] = Sync1 /\ stream'[Start + 1] = Sync2
        <5>1. 0 \in 0 .. nbyte /\ 1 \in 0 .. nbyte
          BY StoreFacts, Before
        <5> QED BY <5>1, StoreFacts
      <4> QED BY <4>1, StoreFacts DEF SyncAt
    <3>3. U2(stream'[g.first + 2], stream'[g.first + 3]) = len'
      <4>1. 2 \in 0 .. nbyte /\ 3 \in 0 .. nbyte
        BY Before
      <4>2. buf'[2] = stream'[Start + 2] /\ buf'[3] = stream'[Start + 3]
        BY <4>1, StoreFacts
      <4> QED BY <4>2, StoreFacts
    <3>4. g.last = g.first + CH_HDR_SIZE - 1
                     + (IF len' <= MaxRaw - CH_HDR_SIZE THEN len' ELSE 0)
          /\ g.first + CH_HDR_SIZE - 1 <= g.last
      <4>1. Len(stream') = Start + nbyte
        BY StoreFacts, Before, History
      <4>2. len' \in Nat /\ Start \in Nat /\ CH_HDR_SIZE = 6
        BY StoreFacts, Before
      <4>3. g.first = Start /\ g.last = Len(stream')
        OBVIOUS
      <4>4. nbyte \in Nat /\ MaxRaw \in Nat
        BY Before
      <4> DEFINE extra == IF len' <= MaxRaw - CH_HDR_SIZE THEN len' ELSE 0
      <4>5. extra \in Nat /\ nbyte + 1 = CH_HDR_SIZE + extra
        BY <4>2
      <4> HIDE DEF g, extra
      <4>6. g.last = g.first + CH_HDR_SIZE - 1 + extra /\ g.first + CH_HDR_SIZE - 1 <= g.last
        BY <4>1, <4>2, <4>3, <4>4, <4>5
      <4> QED BY <4>6 DEF extra
    <3>5. segments'[k] = g
      BY <2>2, <1>3
    <3>6. /\ g.last <= Len(stream')
          /\ g.ok <=> Intact(stream', g.first, g.last)
      <4>1. g.first = Start /\ g.last = Len(stream') /\ (g.ok <=> ret' > 0)
        OBVIOUS
      <4>2. Len(stream') \in Nat
        BY Before, History
      <4> HIDE DEF g
      <4> QED BY <4>1, <4>2
    <3> HIDE DEF g
    <3> QED BY <3>1, <3>2, <3>3, <3>4, <3>5, <3>6 DEF Shaped
  <2> QED BY <2>1, <2>2, <1>3, Before
<1> QED BY <1>5, <1>6, <1>7, <1>8, <1>9 DEF Inductive

LEMMA BadLengthStep ==
  ASSUME Inductive, NEW b \in Byte, Receive(b), BadLength(b)
  PROVE  Inductive'
<1>1. Store(b) /\ nbyte + 1 = CH_HDR_SIZE /\ len' > MaxRaw - CH_HDR_SIZE
      /\ nbyte' = 0 /\ ret' = -1
  BY DEF BadLength, LengthError
<1>2. ~Intact(stream', Start, Len(stream'))
  <2>1. 2 \in 0 .. nbyte /\ 3 \in 0 .. nbyte
    BY <1>1, Before
  <2>2. U2(stream'[Start + 2], stream'[Start + 3]) = len'
    <3>1. buf'[2] = stream'[Start + 2] /\ buf'[3] = stream'[Start + 3]
      BY <1>1, <2>1, StoreFacts
    <3>2. len' = U2(buf'[2], buf'[3])
      BY <1>1, StoreFacts, Before
    <3> QED BY <3>1, <3>2
  <2>3. ~(len' <= MaxRaw - CH_HDR_SIZE)
    BY <1>1, StoreFacts, Before
  <2> QED BY <2>2, <2>3 DEF Intact
<1>3. nbyte + 1 >= CH_HDR_SIZE
      /\ nbyte + 1 = CH_HDR_SIZE + (IF len' <= MaxRaw - CH_HDR_SIZE THEN len' ELSE 0)
  BY <1>1, StoreFacts, Before
<1> QED BY <1>1, <1>2, <1>3, SegmentEnds

LEMMA FinishStep ==
  ASSUME Inductive, NEW b \in Byte, Receive(b), Finish(b)
  PROVE  Inductive'
<1>1. /\ Store(b) /\ ~LengthError /\ ~Incomplete
      /\ nbyte' = 0 /\ ret' = (IF CrcMatches THEN 1 ELSE -1)
  BY DEF Finish
<1>2. nbyte + 1 >= CH_HDR_SIZE /\ nbyte + 1 >= len' + CH_HDR_SIZE
  BY <1>1, StoreFacts, Before DEF Incomplete
<1>3. len' <= MaxRaw - CH_HDR_SIZE /\ nbyte + 1 = len' + CH_HDR_SIZE
  <2>1. CASE nbyte + 1 = CH_HDR_SIZE
    BY <1>1, <1>2, <2>1, StoreFacts, Before DEF LengthError
  <2>2. CASE nbyte >= CH_HDR_SIZE
    <3>1. len' = len
      BY <1>1, <1>2, <2>2, StoreFacts
    <3>2. len <= MaxRaw - CH_HDR_SIZE /\ nbyte < len + CH_HDR_SIZE
      BY <2>2, Before DEF Inductive, Gathering
    <3> QED BY <1>2, <3>1, <3>2, Before
  <2> QED BY <1>2, <2>1, <2>2, Before
<1>4. /\ \A i \in 0 .. nbyte : buf'[i] = stream'[Start + i]
      /\ buf'[0] = Sync1 /\ buf'[1] = Sync2
      /\ Start \in Nat /\ len' \in Nat /\ Len(stream') = Start + nbyte
      /\ len' = U2(buf'[2], buf'[3])
  BY <1>1, <1>2, StoreFacts, Before, History
<1>5. /\ buf'[4] = stream'[Start + 4] /\ buf'[5] = stream'[Start + 5]
      /\ len' = U2(stream'[Start + 2], stream'[Start + 3])
      /\ stream'[Start] = Sync1 /\ stream'[Start + 1] = Sync2
  <2>1. \A i \in 0 .. 5 : i \in 0 .. nbyte
    BY <1>2, Before
  <2>2. stream'[Start + 0] = Sync1 /\ Start + 0 = Start
    BY <1>4, <2>1
  <2> QED BY <1>4, <2>1, <2>2
<1>6. Body = Checked(stream', Start, len')
  <2>1. \A k \in 1 .. 4 + len' :
          (IF k <= 4 THEN buf'[k - 1] ELSE buf'[k + 1])
            = (IF k <= 4 THEN stream'[Start + k - 1] ELSE stream'[Start + k + 1])
    <3> TAKE k \in 1 .. 4 + len'
    <3>1. k \in Int /\ nbyte = len' + 5 /\ nbyte \in Nat
      <4>1. nbyte \in Nat /\ CH_HDR_SIZE = 6
        BY Before
      <4> QED BY SMTT(30), <1>3, <1>4, <4>1
    <3>2. k <= 4 => k - 1 \in 0 .. nbyte /\ Start + (k - 1) = Start + k - 1
      BY <1>4, <3>1
    <3>3. k > 4 => k + 1 \in 0 .. nbyte /\ Start + (k + 1) = Start + k + 1
      BY <1>4, <3>1
    <3> QED BY <1>4, <3>1, <3>2, <3>3
  <2> QED BY <2>1 DEF Body, Checked
<1>7. Intact(stream', Start, Len(stream')) <=> CrcMatches
  <2>1. CrcMatches <=> Crc(Checked(stream', Start, len'))
                         = U2(stream'[Start + 4], stream'[Start + 5])
    BY <1>5, <1>6 DEF CrcMatches
  <2>2. /\ Start + CH_HDR_SIZE - 1 <= Len(stream')
        /\ SyncAt(stream', Start)
        /\ len' <= MaxRaw - CH_HDR_SIZE
        /\ Len(stream') = Start + CH_HDR_SIZE - 1 + len'
    <3>1. nbyte \in Nat /\ CH_HDR_SIZE = 6 /\ Len(stream') = Start + nbyte
      BY <1>4, Before
    <3>2. SyncAt(stream', Start)
      BY <1>5 DEF SyncAt
    <3> QED BY <1>3, <1>4, <3>1, <3>2
  <2> QED BY <1>5, <2>1, <2>2 DEF Intact, Checked
<1>8. ret' \in {-1, 1} /\ (ret' > 0 <=> CrcMatches)
  BY <1>1
<1>9. nbyte + 1 = CH_HDR_SIZE + (IF len' <= MaxRaw - CH_HDR_SIZE THEN len' ELSE 0)
  BY <1>3, <1>4, Before
<1>10. ret' > 0 <=> Intact(stream', Start, Len(stream'))
  BY <1>7, <1>8
<1> QED BY <1>1, <1>2, <1>8, <1>9, <1>10, SegmentEnds

(* The buffer mirrors the end of the stream, and every pair of sync codes  *)
(* is accounted for, whatever bytes arrive (hipnuc_dec.c:177-208).         *)
THEOREM InductiveHolds == Spec => []Inductive
<1>1. Init => Inductive
  <2> SUFFICES ASSUME Init PROVE Inductive
    OBVIOUS
  <2>1. /\ nbyte = 0 /\ len = 0 /\ ret = 0 /\ stream = <<>> /\ segments = <<>>
        /\ buf = [i \in 0 .. MaxRaw - 1 |-> 0]
    BY DEF Init, DecoderInit
  <2>2. MaxRaw \in Nat /\ MaxRaw >= 6 /\ 0 \in Byte /\ Sync1 # 0
    BY DecoderAssumption DEF CH_HDR_SIZE
  <2>3. TypeOK
    BY <2>1, <2>2 DEF TypeOK
  <2>4. Gathering /\ Hunting
    BY <2>1, <2>2 DEF Gathering, Hunting, Consumed
  <2>5. PairsAccounted /\ SegmentShape
    BY <2>1 DEF PairsAccounted, SegmentShape
  <2> QED BY <2>3, <2>4, <2>5 DEF Inductive
<1>2. Inductive /\ [Next]_vars => Inductive'
  <2> SUFFICES ASSUME Inductive, [Next]_vars PROVE Inductive'
    OBVIOUS
  <2>1. CASE Next
    <3>1. PICK b \in Byte : Receive(b)
      BY <2>1 DEF Next
    <3> QED BY <3>1, HuntStep, GatherStep, BadLengthStep, FinishStep DEF Receive, hipnuc_input
  <2>2. CASE UNCHANGED vars
    BY <2>2 DEF vars, Inductive, TypeOK, Gathering, Hunting, PairsAccounted, SegmentShape,
                Start, Consumed
  <2> QED BY <2>1, <2>2
<1> QED BY <1>1, <1>2, PTL DEF Spec

(* The decoder never writes outside its buffer and counts no further than  *)
(* its end, for every stream and buffer size (hipnuc_dec.c:188-203).       *)
THEOREM WithinBuffer == Spec => []TypeOK
<1>1. Inductive => TypeOK
  BY DEF Inductive
<1> QED BY <1>1, InductiveHolds, PTL

(* It reports exactly the undamaged frames among what it took for frames,  *)
(* for every checksum (hipnuc_dec.c:146-208).                              *)
THEOREM FramesDelivered == Spec => []DeliversIntactFrames
<1>1. Inductive => DeliversIntactFrames
  BY SafetyFromInductive DEF Inductive
<1> QED BY <1>1, InductiveHolds, PTL

(* It misses an undamaged frame only when something before it that looked  *)
(* like a frame swallowed its beginning (hipnuc_dec.c:163-208).            *)
THEOREM NothingElseMissed == Spec => []MissesNothingElse
<1>1. Inductive => MissesNothingElse
  BY SafetyFromInductive DEF Inductive
<1> QED BY <1>1, InductiveHolds, PTL

-----------------------------------------------------------------------------
(***************************************************************************)
(* The decoder at the end of a line, whatever the frames and the noise.    *)
(***************************************************************************)

(* The decoder at the end of a line: it has not begun a frame or has its   *)
(* sync codes, and knows how long it is once the header is there.          *)
LinkInductive ==
  /\ frame \in Frames /\ pos \in 0 .. Len(frame)
  /\ buf \in [0 .. MaxRaw - 1 -> Byte]
  /\ nbyte \in 0 .. MaxRaw - 1 /\ nbyte # 1 /\ len \in Nat
  /\ nbyte >= CH_HDR_SIZE =>
       len = U2(buf[2], buf[3]) /\ len <= MaxRaw - CH_HDR_SIZE /\ nbyte < len + CH_HDR_SIZE

LEMMA LinkInput ==
  ASSUME LinkInductive, NEW b \in Byte, hipnuc_input(b)
  PROVE  /\ buf' \in [0 .. MaxRaw - 1 -> Byte]
         /\ nbyte' \in 0 .. MaxRaw - 1 /\ nbyte' # 1 /\ len' \in Nat
         /\ nbyte' >= CH_HDR_SIZE =>
              /\ len' = U2(buf'[2], buf'[3]) /\ len' <= MaxRaw - CH_HDR_SIZE
              /\ nbyte' < len' + CH_HDR_SIZE
<1> USE DecoderAssumption, BytesAreNumbers DEF LinkInductive, CH_HDR_SIZE
<1>1. CASE Hunt(b)
  BY <1>1 DEF Hunt
<1>2. CASE Store(b)
  <2>1. buf' \in [0 .. MaxRaw - 1 -> Byte] /\ buf' = [buf EXCEPT ![nbyte] = b] /\ nbyte >= 2
    BY <1>2 DEF Store
  <2>2. buf'[2] \in Nat /\ buf'[3] \in Nat
    BY <2>1
  <2>3. U2(buf'[2], buf'[3]) \in Nat
    BY <2>2 DEF U2
  <2>4. len' = IF nbyte + 1 = 6 THEN U2(buf'[2], buf'[3]) ELSE len
    BY <1>2 DEF Store, U2
  <2>5. len' \in Nat
    BY <2>3, <2>4
  <2>6. nbyte >= 6 => len' = U2(buf'[2], buf'[3])
    BY <2>1, <2>4
  <2>7. CASE BadLength(b) \/ Finish(b)
    BY <2>1, <2>5, <2>7 DEF BadLength, Finish
  <2>8. CASE Gather(b)
    BY <2>1, <2>4, <2>5, <2>6, <2>8 DEF Gather, Incomplete, LengthError
  <2> QED BY <2>7, <2>8, <1>2 DEF hipnuc_input, Hunt, Store
<1> QED BY <1>1, <1>2 DEF hipnuc_input, BadLength, Gather, Finish

LEMMA LinkInit ==
  ASSUME LineInit
  PROVE  LinkInductive
<1>1. Len(frame) \in Nat
  BY LinkAssumption DEF LineInit, Undamaged
<1>2. buf \in [0 .. MaxRaw - 1 -> Byte] /\ nbyte = 0 /\ len = 0
  BY DecoderAssumption DEF LineInit, DecoderInit
<1> QED BY <1>1, <1>2, DecoderAssumption DEF LineInit, LinkInductive, CH_HDR_SIZE

(* The byte sent next is one of the frame.                                 *)
LEMMA LinkAdvance ==
  ASSUME LinkInductive, Advance
  PROVE  /\ frame' \in Frames /\ pos' \in 1 .. Len(frame') /\ Undamaged(frame')
         /\ frame'[pos'] \in Byte
<1>1. frame' \in Frames
  BY DEF Advance, LinkInductive
<1>2. Undamaged(frame) /\ Undamaged(frame')
  BY <1>1, LinkAssumption DEF LinkInductive
<1>3. Len(frame) \in Nat /\ Len(frame') \in Nat /\ Len(frame') >= 1 /\ frame' \in Seq(Byte)
  BY <1>2, DecoderAssumption DEF Undamaged, CH_HDR_SIZE
<1>4. pos' \in 1 .. Len(frame')
  BY <1>3 DEF Advance, LinkInductive
<1> QED BY <1>1, <1>2, <1>3, <1>4

LEMMA LinkStep ==
  ASSUME LinkInductive, [LineNext]_line_vars
  PROVE  LinkInductive'
<1>1. CASE Transmit
  <2>1. Advance /\ hipnuc_input(frame'[pos'])
    BY <1>1 DEF Transmit
  <2>2. frame' \in Frames /\ pos' \in 1 .. Len(frame') /\ frame'[pos'] \in Byte
    BY <2>1, LinkAdvance
  <2>3. pos' \in 0 .. Len(frame')
    BY <2>2
  <2> QED BY <2>1, <2>2, <2>3, LinkInput DEF LinkInductive
<1>2. CASE Lose
  <2>1. frame' \in Frames /\ pos' \in 1 .. Len(frame')
    BY <1>2, LinkAdvance DEF Lose
  <2>2. pos' \in 0 .. Len(frame')
    BY <2>1
  <2> QED BY <1>2, <2>1, <2>2 DEF Lose, decoder, LinkInductive
<1>3. CASE Disturb
  <2>1. PICK b \in Noise : hipnuc_input(b)
    BY <1>3 DEF Disturb
  <2>2. b \in Byte /\ UNCHANGED <<frame, pos>>
    BY <1>3, LinkAssumption DEF Disturb
  <2> QED BY <2>1, <2>2, LinkInput DEF LinkInductive
<1>4. CASE Settle
  BY <1>4 DEF Settle, decoder, LinkInductive
<1>5. CASE UNCHANGED line_vars
  BY <1>5 DEF line_vars, LinkInductive
<1> QED BY <1>1, <1>2, <1>3, <1>4, <1>5 DEF LineNext

LEMMA LinkAlways == LineSpec => []LinkInductive
<1>1. LineInit => LinkInductive
  BY LinkInit
<1>2. LinkInductive /\ [LineNext]_line_vars => LinkInductive'
  BY LinkStep
<1> QED BY <1>1, <1>2, PTL DEF LineSpec

(* The first byte of a frame is the first sync code, and not the second.   *)
LEMMA FirstByte ==
  ASSUME LinkInductive, InStep, Transmit, pos \in {0, Len(frame)}
  PROVE  InStep' /\ ret' = 0 /\ pos' < Len(frame')
<1>1. /\ Advance /\ hipnuc_input(frame'[pos']) /\ clean /\ clean' = clean
      /\ nbyte = 0
  BY DEF Transmit, InStep
<1>2. Undamaged(frame) /\ Undamaged(frame')
  BY <1>1, LinkAdvance, LinkAssumption DEF LinkInductive
<1>3. Len(frame') \in Nat /\ Len(frame') >= 6 /\ Len(frame) \in Nat /\ Len(frame) >= 6
  BY <1>2, DecoderAssumption DEF Undamaged, CH_HDR_SIZE
<1>4. pos' = 1 /\ frame'[pos'] = Sync1
  BY <1>1, <1>2, <1>3 DEF Advance, Undamaged
<1>5. Hunt(Sync1)
  BY <1>1, <1>4 DEF hipnuc_input, BadLength, Gather, Finish, Store
<1>6. nbyte' = 0 /\ ret' = 0 /\ buf'[1] = Sync1
  BY <1>5, DecoderAssumption DEF Hunt, LinkInductive, CH_HDR_SIZE
<1>7. clean' /\ (nbyte = IF pos \in {1, Len(frame)} THEN 0 ELSE pos)'
  BY <1>1, <1>4, <1>6
<1>8. (\A i \in 1 .. nbyte : buf[i - 1] = frame[i])'
  BY <1>6
<1>9. InStep'
  BY <1>6, <1>7, <1>8 DEF InStep
<1>10. pos' < Len(frame')
  BY <1>3, <1>4
<1> QED BY <1>6, <1>9, <1>10

LEMMA SecondByte ==
  ASSUME LinkInductive, InStep, Transmit, pos = 1
  PROVE  InStep' /\ ret' = 0 /\ pos' < Len(frame')
<1>1. /\ Advance /\ hipnuc_input(frame'[pos']) /\ clean /\ clean' = clean
      /\ nbyte = 0 /\ buf[1] = Sync1
  BY DEF Transmit, InStep
<1>2. Undamaged(frame)
  BY LinkAssumption DEF LinkInductive
<1>3. Len(frame) \in Nat /\ Len(frame) >= 6
  BY <1>2, DecoderAssumption DEF Undamaged, CH_HDR_SIZE
<1>4. pos' = 2 /\ frame' = frame /\ frame[1] = Sync1 /\ frame[2] = Sync2
  BY <1>1, <1>2, <1>3 DEF Advance, Undamaged
<1>5. Hunt(Sync2)
  BY <1>1, <1>4 DEF hipnuc_input, BadLength, Gather, Finish, Store
<1>6. nbyte' = 2 /\ ret' = 0 /\ buf'[0] = Sync1 /\ buf'[1] = Sync2
  BY <1>1, <1>5, DecoderAssumption DEF Hunt, LinkInductive, CH_HDR_SIZE
<1>7. \A i \in 1 .. 2 : buf'[i - 1] = frame[i]
  BY <1>4, <1>6
<1> DEFINE n == Len(frame)
<1>8. clean' /\ nbyte' = IF pos' \in {1, n} THEN 0 ELSE pos'
  <2>1. n \in Nat /\ n >= 6
    BY <1>3
  <2> HIDE DEF n
  <2> QED BY <1>1, <1>4, <1>6, <2>1
<1>9. (\A i \in 1 .. nbyte : buf[i - 1] = frame[i])'
  BY <1>4, <1>6, <1>7
<1>10. InStep'
  BY <1>4, <1>6, <1>8, <1>9 DEF InStep
<1>11. pos' < Len(frame')
  BY <1>3, <1>4
<1> QED BY <1>6, <1>10, <1>11

(* A later byte is gathered; the last one completes a frame whose checksum *)
(* is right.                                                               *)
LEMMA LaterByte ==
  ASSUME LinkInductive, InStep, Transmit, pos \in 2 .. Len(frame) - 1
  PROVE  InStep' /\ (ret' > 0 <=> pos' = Len(frame'))
<1> DEFINE b == frame[pos + 1]
<1>1. /\ Advance /\ hipnuc_input(frame'[pos']) /\ clean /\ clean' = clean
      /\ \A i \in 1 .. nbyte : buf[i - 1] = frame[i]
  BY DEF Transmit, InStep
<1>2. Undamaged(frame)
  BY LinkAssumption DEF LinkInductive
<1>3. Len(frame) \in Nat /\ Len(frame) >= 6 /\ Len(frame) <= MaxRaw /\ MaxRaw \in Nat
  BY <1>2, DecoderAssumption DEF Undamaged, CH_HDR_SIZE
<1>4. nbyte = pos /\ pos' = pos + 1 /\ frame' = frame
  BY <1>1, <1>3 DEF InStep, Advance
<1>5. /\ buf' = [buf EXCEPT ![pos] = b]
      /\ len' = IF pos + 1 = 6 THEN U2(buf'[2], buf'[3]) ELSE len
      /\ BadLength(b) \/ Gather(b) \/ Finish(b)
  BY <1>1, <1>4 DEF hipnuc_input, Hunt, BadLength, Gather, Finish,
                    Store, CH_HDR_SIZE, U2, U2
<1>6. \A i \in 1 .. pos + 1 : buf'[i - 1] = frame[i]
  BY <1>1, <1>3, <1>4, <1>5 DEF LinkInductive
<1>7. pos + 1 >= 6 => len' = Len(frame) - 6
  <2> SUFFICES ASSUME pos + 1 >= 6 PROVE len' = Len(frame) - 6
    OBVIOUS
  <2>1. buf'[2] = frame[3] /\ buf'[3] = frame[4]
    BY <1>6, <1>3
  <2>2. U2(frame[3], frame[4]) = Len(frame) - 6
    <3>1. frame[3] \in Nat /\ frame[4] \in Nat
      <4>1. frame \in Seq(Byte) /\ 3 \in 1 .. Len(frame) /\ 4 \in 1 .. Len(frame)
        BY <1>2, <1>3 DEF Undamaged
      <4>2. frame[3] \in Byte /\ frame[4] \in Byte
        BY <4>1
      <4> QED BY <4>2, BytesAreNumbers
    <3> QED BY <1>2, <1>3, <3>1 DEF Undamaged, CH_HDR_SIZE, U2
  <2>3. CASE pos + 1 = 6
    BY <1>5, <2>1, <2>2, <2>3
  <2>4. CASE pos + 1 > 6
    <3>1. len' = len /\ len = U2(buf[2], buf[3]) /\ buf[2] = frame[3] /\ buf[3] = frame[4]
      BY <1>1, <1>3, <1>4, <1>5, <2>4 DEF LinkInductive, CH_HDR_SIZE
    <3> QED BY <3>1, <2>2
  <2> QED BY <2>3, <2>4, <1>3
<1>8. ~LengthError /\ (Incomplete <=> pos + 1 < Len(frame))
  BY <1>3, <1>4, <1>7 DEF LengthError, Incomplete, CH_HDR_SIZE
<1>9. CASE pos + 1 < Len(frame)
  <2>1. nbyte' = pos + 1 /\ ret' = 0
    BY <1>4, <1>5, <1>8, <1>9 DEF BadLength, Gather, Finish
  <2> QED BY <1>1, <1>3, <1>4, <1>6, <1>9, <2>1 DEF InStep
<1>10. CASE pos + 1 = Len(frame)
  <2>1. Finish(b)
    BY <1>5, <1>8, <1>10 DEF BadLength, Gather
  <2>2. 4 + len' = Len(frame) - 2
    BY <1>3, <1>7, <1>10
  <2>3. Body = [i \in 1 .. Len(frame) - 2 |-> IF i <= 4 THEN frame[i] ELSE frame[i + 2]]
    <3>1. ASSUME NEW i \in 1 .. Len(frame) - 2
          PROVE  (IF i <= 4 THEN buf'[i - 1] ELSE buf'[i + 1])
                   = IF i <= 4 THEN frame[i] ELSE frame[i + 2]
      <4>1. CASE i <= 4
        BY <1>3, <1>6, <1>10, <4>1
      <4>2. CASE i > 4
        <5>1. i + 2 \in 1 .. pos + 1 /\ (i + 2) - 1 = i + 1
          BY <1>3, <1>10, <4>2
        <5> QED BY <1>6, <4>2, <5>1
      <4> QED BY <4>1, <4>2
    <3> QED BY <2>2, <3>1 DEF Body
  <2>4. buf'[4] = frame[5] /\ buf'[5] = frame[6]
    BY <1>3, <1>6, <1>10
  <2>5. CrcMatches
    BY <1>2, <2>3, <2>4 DEF CrcMatches, Undamaged
  <2>6. nbyte' = 0 /\ ret' = 1
    BY <2>1, <2>5 DEF Finish
  <2> QED BY <1>1, <1>3, <1>4, <1>10, <2>6 DEF InStep
<1> QED BY <1>3, <1>9, <1>10

(* Once in step on a settled line the decoder stays so, and reports every  *)
(* frame with its last byte, at no other time (hipnuc_dec.c:190-207).      *)
THEOREM LinkStaysInStep == LineSpec => StaysInStep
<1> DEFINE Stays ==
             InStep /\ clean' =>
               InStep' /\ (UNCHANGED pos \/ (ret' > 0 <=> pos' = Len(frame')))
<1>1. ASSUME LinkInductive, LineNext PROVE Stays
  <2> SUFFICES ASSUME InStep
               PROVE  InStep' /\ (UNCHANGED pos \/ (ret' > 0 <=> pos' = Len(frame')))
    OBVIOUS
  <2>1. Transmit
    BY <1>1 DEF LineNext, Lose, Disturb, Settle, Fault, InStep
  <2>2. Len(frame) \in Nat /\ pos \in 0 .. Len(frame)
    BY <1>1, LinkAssumption DEF LinkInductive, Undamaged
  <2> DEFINE n == Len(frame')
  <2>3. CASE pos \in {0, Len(frame)} \/ pos = 1
    <3>1. InStep' /\ ret' = 0 /\ pos' < n
      BY <1>1, <2>1, <2>3, FirstByte, SecondByte
    <3>2. pos' \in Nat /\ n \in Nat
      <4>1. frame' \in Frames /\ pos' \in 1 .. n
        BY <1>1, <2>1, LinkAdvance DEF Transmit
      <4>2. Len(frame') \in Nat
        BY <4>1, LinkAssumption DEF Undamaged
      <4> QED BY <4>1, <4>2
    <3>3. ~(ret' > 0) /\ pos' # n
      <4> HIDE DEF n
      <4> QED BY <3>1, <3>2
    <3> QED BY <3>1, <3>3
  <2>5. CASE pos \in 2 .. Len(frame) - 1
    BY <1>1, <2>1, <2>5, LaterByte
  <2> QED BY <2>2, <2>3, <2>5
<1>2. [LineNext]_line_vars /\ LinkInductive => [Stays]_line_vars
  BY <1>1
<1>3. StaysInStep <=> [][Stays]_line_vars
  BY DEF StaysInStep
<1> QED BY <1>2, <1>3, LinkAlways, PTL DEF LineSpec

(***************************************************************************)
(* The decoder comes into step.                                            *)
(***************************************************************************)

(* The frames begin with the only pair of sync codes they hold.            *)
LoneSync ==
  \A f \in Frames : \A i \in 2 .. Len(f) - 1 : ~ (f[i] = Sync1 /\ f[i + 1] = Sync2)

(* A decoder that hunts takes no first sync code for one that was sent     *)
(* before the last byte.                                                   *)
Tidy == buf[1] = Sync1 => pos > 0 /\ frame[pos] = Sync1

(* The bytes a settled line carries at most until the decoder is in step:  *)
(* a false start may be under way, or lie in what is left of the           *)
(* disturbance; after it the decoder hunts as far as the next frame.       *)
BytesLeft ==
  CASE InStep -> 0
    [] ~ InStep /\ nbyte > 0 -> 2 * MaxRaw - nbyte
    [] ~ InStep /\ nbyte = 0 /\ Tidy -> Len(frame) - pos
    [] OTHER -> 2 * MaxRaw - 1

ComesIntoStep ==
  /\ [](clean => BytesLeft \in 0 .. 2 * MaxRaw - 1 /\ (BytesLeft = 0 <=> InStep))
  /\ [][clean /\ ~ InStep => BytesLeft' < BytesLeft]_line_vars

(* A frame that is gathered began with the sync codes.                     *)
Synced == nbyte > 0 => buf[1] = Sync2

LEMMA SyncedHolds == LineSpec => []Synced
<1>1. LineInit => Synced
  BY DEF LineInit, DecoderInit, Synced
<1>2. ASSUME LinkInductive, Synced, NEW b, hipnuc_input(b) PROVE Synced'
  <2>0. buf \in [0 .. MaxRaw - 1 -> Byte] /\ 1 \in 0 .. MaxRaw - 1 /\ 0 \in 0 .. MaxRaw - 1
    BY <1>2, DecoderAssumption DEF LinkInductive, CH_HDR_SIZE
  <2>1. CASE Hunt(b)
    <3>1. buf'[1] = b /\ (nbyte' > 0 => b = Sync2)
      BY <2>0, <2>1 DEF Hunt
    <3> QED BY <3>1 DEF Synced
  <2>2. CASE BadLength(b) \/ Finish(b)
    BY <2>2 DEF BadLength, Finish, Synced
  <2>3. CASE Gather(b)
    <3>1. nbyte \in Nat /\ nbyte > 1 /\ buf' = [buf EXCEPT ![nbyte] = b]
      BY <1>2, <2>3 DEF Gather, Store, LinkInductive
    <3>2. buf'[1] = buf[1] /\ nbyte > 0
      BY <2>0, <3>1
    <3> QED BY <1>2, <3>2 DEF Synced
  <2> QED BY <1>2, <2>1, <2>2, <2>3 DEF hipnuc_input
<1>3. LinkInductive /\ Synced /\ [LineNext]_line_vars => Synced'
  <2> SUFFICES ASSUME LinkInductive, Synced, [LineNext]_line_vars PROVE Synced'
    OBVIOUS
  <2>1. CASE Transmit
    BY <1>2, <2>1 DEF Transmit
  <2>2. CASE Disturb
    BY <1>2, <2>2 DEF Disturb
  <2>3. CASE Lose \/ Settle \/ UNCHANGED line_vars
    BY <2>3 DEF Lose, Settle, decoder, line_vars, Synced
  <2> QED BY <2>1, <2>2, <2>3 DEF LineNext
<1> QED BY <1>1, <1>3, LinkAlways, PTL DEF LineSpec

(* What the bytes left are in each of the four cases.                      *)
BytesLeftIs ==
  /\ Len(frame) \in Nat /\ Len(frame) <= MaxRaw
  /\ InStep => BytesLeft = 0
  /\ ~ InStep /\ nbyte > 0 => BytesLeft = 2 * MaxRaw - nbyte
  /\ ~ InStep /\ nbyte = 0 => pos \in 1 .. Len(frame) - 1 /\ (pos = 1 => buf[1] # Sync1)
  /\ ~ InStep /\ nbyte = 0 /\ Tidy => BytesLeft = Len(frame) - pos
  /\ ~ InStep /\ nbyte = 0 /\ ~ Tidy => BytesLeft = 2 * MaxRaw - 1

LEMMA BytesLeftFacts == LinkInductive /\ clean => BytesLeftIs
<1> SUFFICES ASSUME LinkInductive, clean PROVE BytesLeftIs
  OBVIOUS
<1>1. Undamaged(frame)
  BY LinkAssumption DEF LinkInductive
<1> DEFINE n == Len(frame)
<1>2. n \in Nat /\ n <= MaxRaw /\ n >= 6 /\ pos \in 0 .. n /\ nbyte \in Nat
  BY <1>1, DecoderAssumption DEF Undamaged, CH_HDR_SIZE, LinkInductive
<1>3. ~ InStep /\ nbyte = 0 => pos # 0 /\ pos # n /\ (pos = 1 => buf[1] # Sync1)
  <2> SUFFICES ASSUME nbyte = 0, pos = 0 \/ pos = n \/ (pos = 1 /\ buf[1] = Sync1)
               PROVE  InStep
    OBVIOUS
  <2>1. nbyte = IF pos \in {1, n} THEN 0 ELSE pos
    <3> HIDE DEF n
    <3> QED BY <1>2
  <2>2. pos = 1 => buf[1] = Sync1
    <3> HIDE DEF n
    <3> QED BY <1>2
  <2>3. \A i \in 1 .. nbyte : buf[i - 1] = frame[i]
    OBVIOUS
  <2> QED BY <2>1, <2>2, <2>3 DEF InStep
<1>4. ~ InStep /\ nbyte = 0 => pos \in 1 .. n - 1 /\ (pos = 1 => buf[1] # Sync1)
  <2> HIDE DEF n
  <2> QED BY <1>2, <1>3
<1>5. InStep => BytesLeft = 0
  BY DEF BytesLeft
<1>6. ~ InStep /\ nbyte > 0 => BytesLeft = 2 * MaxRaw - nbyte
  BY <1>2 DEF BytesLeft
<1>7. ~ InStep /\ nbyte = 0 /\ Tidy => BytesLeft = Len(frame) - pos
  BY <1>2 DEF BytesLeft
<1>8. ~ InStep /\ nbyte = 0 /\ ~ Tidy => BytesLeft = 2 * MaxRaw - 1
  BY <1>2 DEF BytesLeft
<1> QED BY <1>2, <1>4, <1>5, <1>6, <1>7, <1>8 DEF BytesLeftIs

LEMMA BytesLeftRange ==
  ASSUME LinkInductive, clean
  PROVE  BytesLeft \in 0 .. 2 * MaxRaw - 1 /\ (BytesLeft = 0 <=> InStep)
<1> DEFINE l == BytesLeft
           n == Len(frame)
<1>1. /\ n \in Nat /\ n <= MaxRaw /\ MaxRaw \in Nat /\ MaxRaw >= 6 /\ nbyte \in 0 .. MaxRaw - 1
      /\ InStep => l = 0
      /\ ~ InStep /\ nbyte > 0 => l = 2 * MaxRaw - nbyte
      /\ ~ InStep /\ nbyte = 0 => pos \in 1 .. n - 1
      /\ ~ InStep /\ nbyte = 0 /\ Tidy => l = n - pos
      /\ ~ InStep /\ nbyte = 0 /\ ~ Tidy => l = 2 * MaxRaw - 1
  BY BytesLeftFacts, DecoderAssumption DEF BytesLeftIs, LinkInductive, CH_HDR_SIZE
<1> HIDE DEF l, n
<1>2. l \in 0 .. 2 * MaxRaw - 1 /\ (l = 0 <=> InStep)
  <2>1. CASE InStep
    BY <1>1, <2>1
  <2>2. CASE ~ InStep /\ nbyte > 0
    BY <1>1, <2>2
  <2>3. CASE ~ InStep /\ nbyte = 0 /\ Tidy
    BY <1>1, <2>3
  <2>4. CASE ~ InStep /\ nbyte = 0 /\ ~ Tidy
    BY <1>1, <2>4
  <2> QED BY <1>1, <2>1, <2>2, <2>3, <2>4
<1> QED BY <1>2 DEF l

(* A byte that arrives while the decoder hunts within a frame.             *)
LEMMA HuntsOn ==
  ASSUME LoneSync, LinkInductive, clean, ~ InStep, Transmit, nbyte = 0
  PROVE  /\ frame' = frame /\ pos' = pos + 1
         /\ nbyte' = 0 => Tidy'
         /\ nbyte' \in {0, 2}
         /\ Tidy => nbyte' = 0
<1> DEFINE n == Len(frame)
<1>1. n \in Nat /\ pos \in 1 .. n - 1 /\ (pos = 1 => buf[1] # Sync1)
  BY BytesLeftFacts DEF BytesLeftIs
<1>2. /\ IF pos < n THEN pos' = pos + 1 /\ UNCHANGED frame ELSE pos' = 1 /\ frame' \in Frames
      /\ hipnuc_input(frame'[pos'])
  BY DEF Transmit, Advance
<1>3. frame' = frame /\ pos' = pos + 1 /\ pos' > 0
  <2> HIDE DEF n
  <2> QED BY <1>1, <1>2
<1> DEFINE b == frame[pos + 1]
<1>4. Hunt(b)
  BY <1>2, <1>3 DEF hipnuc_input, BadLength, Gather, Finish, Store
<1>5. buf'[1] = b /\ nbyte' = IF buf[1] = Sync1 /\ b = Sync2 THEN 2 ELSE 0
  BY <1>4, DecoderAssumption DEF Hunt, LinkInductive, CH_HDR_SIZE
<1>6. Tidy'
  BY <1>3, <1>5 DEF Tidy
<1>7. Tidy => nbyte' = 0
  <2> SUFFICES ASSUME Tidy, buf[1] = Sync1, b = Sync2 PROVE FALSE
    BY <1>5
  <2>1. frame[pos] = Sync1
    BY DEF Tidy
  <2>2. pos \in 2 .. n - 1
    <3> HIDE DEF n
    <3> QED BY <1>1
  <2>3. frame \in Frames
    BY DEF LinkInductive
  <2> QED BY <2>1, <2>2, <2>3 DEF LoneSync
<1> QED BY <1>3, <1>5, <1>6, <1>7

(* A byte that arrives while a false start is gathered.                    *)
LEMMA GathersOn ==
  ASSUME LinkInductive, Synced, Transmit, nbyte > 0
  PROVE  (nbyte' = 0 /\ Tidy') \/ nbyte' = nbyte + 1
<1>1. PICK b : BadLength(b) \/ Gather(b) \/ Finish(b)
  BY DEF Transmit, hipnuc_input, Hunt
<1>2. nbyte' = nbyte + 1 \/ nbyte' = 0
  BY <1>1 DEF BadLength, Gather, Finish
<1>3. buf'[1] = Sync2
  <2>1. buf' = [buf EXCEPT ![nbyte] = b] /\ nbyte # 1
    BY <1>1 DEF BadLength, Gather, Finish, Store, LinkInductive
  <2>2. buf \in [0 .. MaxRaw - 1 -> Byte] /\ 1 \in 0 .. MaxRaw - 1
    BY DecoderAssumption DEF LinkInductive, CH_HDR_SIZE
  <2> QED BY <2>1, <2>2 DEF Synced
<1>4. Tidy'
  BY <1>3, DecoderAssumption DEF Tidy
<1> QED BY <1>2, <1>4

(* On a settled line the decoder is in step after fewer than 2 * MaxRaw    *)
(* bytes, whatever the disturbance left in its buffer, if no frame holds a *)
(* second pair of sync codes: the safety half of Resynchronises            *)
(* (hipnuc_dec.c:180-208).                                                 *)
THEOREM LinkComesIntoStep ==
  ASSUME LoneSync
  PROVE  LineSpec => ComesIntoStep
<1>1. LinkInductive => (clean => BytesLeft \in 0 .. 2 * MaxRaw - 1 /\ (BytesLeft = 0 <=> InStep))
  BY BytesLeftRange
<1>2. LinkInductive /\ LinkInductive' /\ Synced /\ [LineNext]_line_vars
        => [clean /\ ~ InStep => BytesLeft' < BytesLeft]_line_vars
  <2> SUFFICES ASSUME LinkInductive, LinkInductive', Synced, LineNext, clean, ~ InStep
               PROVE  BytesLeft' < BytesLeft
    OBVIOUS
  <2>1. Transmit /\ clean'
    BY DEF LineNext, Lose, Disturb, Settle, Fault, Transmit
  <2> DEFINE l == BytesLeft
             m == BytesLeft'
             n == Len(frame)
             o == Len(frame')
             In == InStep'
             T == Tidy'
  <2>2. /\ MaxRaw \in Nat /\ MaxRaw >= 6 /\ nbyte \in 0 .. MaxRaw - 1
        /\ nbyte' \in 0 .. MaxRaw - 1
    BY DecoderAssumption DEF LinkInductive, CH_HDR_SIZE
  <2>3. /\ n \in Nat /\ n <= MaxRaw
        /\ nbyte > 0 => l = 2 * MaxRaw - nbyte
        /\ nbyte = 0 => pos \in 1 .. n - 1
        /\ nbyte = 0 /\ Tidy => l = n - pos
        /\ nbyte = 0 /\ ~ Tidy => l = 2 * MaxRaw - 1
    BY BytesLeftFacts DEF BytesLeftIs
  <2>4. /\ o \in Nat /\ o <= MaxRaw
        /\ In => m = 0
        /\ ~ In /\ nbyte' > 0 => m = 2 * MaxRaw - nbyte'
        /\ ~ In /\ nbyte' = 0 => pos' \in 1 .. o - 1
        /\ ~ In /\ nbyte' = 0 /\ T => m = o - pos'
    <3>1. (LinkInductive /\ clean => BytesLeftIs)'
      BY BytesLeftFacts, PTL
    <3> QED BY <2>1, <3>1 DEF BytesLeftIs
  <2>5. nbyte = 0 =>
          /\ o = n /\ pos' = pos + 1
          /\ nbyte' = 0 => T
          /\ nbyte' \in {0, 2}
          /\ Tidy => nbyte' = 0
    BY <2>1, HuntsOn
  <2>6. nbyte > 0 => (nbyte' = 0 /\ T) \/ nbyte' = nbyte + 1
    BY <2>1, GathersOn
  <2> SUFFICES m < l
    OBVIOUS
  <2> HIDE DEF l, m, n, o, In, T
  <2>7. CASE nbyte > 0
    BY <2>2, <2>3, <2>4, <2>6, <2>7
  <2>8. CASE nbyte = 0 /\ Tidy
    BY <2>2, <2>3, <2>4, <2>5, <2>8
  <2>9. CASE nbyte = 0 /\ ~ Tidy
    BY <2>2, <2>3, <2>4, <2>5, <2>9
  <2> QED BY <2>2, <2>7, <2>8, <2>9
<1> QED BY <1>1, <1>2, LinkAlways, SyncedHolds, PTL DEF LineSpec, ComesIntoStep
=============================================================================
