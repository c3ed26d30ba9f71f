-------------------------- MODULE SerialPortProofs --------------------------
(***************************************************************************)
(* Proofs about reading from, and asking on, a serial port, for every      *)
(* buffer size, line and time-out.                                         *)
(***************************************************************************)
EXTENDS SerialPort, SequenceTheorems, TLAPS

(* A request always leaves room for the terminator, and holds nothing      *)
(* before it reads.                                                        *)
Requesting ==
  /\ ask => size = Size - 1
  /\ pc \in {"flush", "write"} => ask /\ buf = << >>

(* After the flush only new bytes are there, and a result above zero was   *)
(* given for a buffer with the answer in it.                               *)
OnlyNew ==
  /\ (ask /\ pc \in {"write", "recv"}) =>
       /\ \A i \in DOMAIN buf : buf[i].new
       /\ \A i \in DOMAIN input : input[i].new
  /\ AnswerIsNew

Inductive == TypeOK /\ Requesting /\ OnlyNew /\ StreamKept

(***************************************************************************)
(* Streams.                                                                *)
(***************************************************************************)
LEMMA Places ==
  /\ Size \in Nat /\ Size >= 2 /\ Wrap \in Nat /\ Wrap > 0 /\ MaxLine \in Nat
  /\ \A n \in 0 .. Wrap - 1 : Succ(n) \in 0 .. Wrap - 1
<1>1. Size \in Nat /\ Size >= 2 /\ Wrap \in Nat /\ Wrap > 0 /\ MaxLine \in Nat
  BY PortAssumption
<1>2. ASSUME NEW n \in 0 .. Wrap - 1 PROVE Succ(n) \in 0 .. Wrap - 1
  BY <1>1 DEF Succ
<1> QED
  BY <1>1, <1>2

LEMMA LastOfPlace ==
  ASSUME NEW s \in Seq(Bytes), NEW p \in 0 .. Wrap - 1
  PROVE  LastOf(s, p) \in 0 .. Wrap - 1
<1>1. CASE s = << >>
  BY <1>1 DEF LastOf
<1>2. CASE s # << >>
  <2>1. Len(s) \in 1 .. Len(s)
    BY <1>2
  <2>2. s[Len(s)] \in Bytes
    BY <2>1, ElementOfSeq
  <2> QED
    BY <1>2, <2>2 DEF LastOf, Bytes
<1> QED
  BY <1>1, <1>2

(* One more byte at the end.                                               *)
LEMMA FollowAppend ==
  ASSUME NEW s \in Seq(Bytes), NEW b \in Bytes, NEW p, NEW q, b.n = q, Follow(p, s, q)
  PROVE  Follow(p, Append(s, b), Succ(q))
<1> DEFINE t == Append(s, b)
<1>1. /\ t \in Seq(Bytes) /\ Len(t) = Len(s) + 1 /\ t[Len(s) + 1] = b
      /\ \A i \in 1 .. Len(s) : t[i] = s[i]
      /\ DOMAIN t = 1 .. Len(s) + 1 /\ DOMAIN s = 1 .. Len(s) /\ Len(s) \in Nat /\ t # << >>
  OBVIOUS
<1> HIDE DEF t
<1>2. LastOf(t, p) = q
  BY <1>1 DEF LastOf
<1>3. ASSUME NEW i \in DOMAIN t
      PROVE  t[i].n = Succ(IF i = 1 THEN p ELSE t[i - 1].n)
  <2>1. CASE i \in 1 .. Len(s)
    <3>1. s[i].n = Succ(IF i = 1 THEN p ELSE s[i - 1].n)
      BY <1>1, <2>1 DEF Follow
    <3>2. i # 1 => i - 1 \in 1 .. Len(s)
      BY <1>1, <2>1
    <3> QED
      BY <1>1, <2>1, <3>1, <3>2
  <2>2. CASE i = Len(s) + 1
    <3>1. t[i].n = Succ(LastOf(s, p))
      BY <1>1, <2>2 DEF Follow
    <3>2. LastOf(s, p) = IF i = 1 THEN p ELSE t[i - 1].n
      <4>1. CASE s = << >>
        BY <1>1, <2>2, <4>1 DEF LastOf
      <4>2. CASE s # << >>
        <5>1. Len(s) \in 1 .. Len(s) /\ i # 1 /\ i - 1 = Len(s)
          BY <1>1, <2>2, <4>2
        <5> QED
          BY <1>1, <4>2, <5>1 DEF LastOf
      <4> QED
        BY <4>1, <4>2
    <3> QED
      BY <3>1, <3>2
  <2> QED
    BY <1>1, <2>1, <2>2
<1> QED
  BY <1>2, <1>3 DEF Follow, t

(* Without its beginning, a stream follows what the beginning ended with;  *)
(* only places count.                                                      *)
LEMMA FollowRest ==
  ASSUME NEW s \in Seq(Bytes), NEW t \in Seq(Bytes), NEW u \in Seq(Bytes), NEW p, NEW q,
         Len(u) = Len(t), \A i \in 1 .. Len(t) : u[i].n = t[i].n,
         Follow(p, s \o t, q)
  PROVE  Follow(LastOf(s, p), u, q)
<1> DEFINE w == s \o t
           before == LastOf(s, p)
<1>1. /\ w \in Seq(Bytes) /\ Len(w) = Len(s) + Len(t)
      /\ Len(s) \in Nat /\ Len(t) \in Nat
      /\ DOMAIN w = 1 .. Len(s) + Len(t) /\ DOMAIN u = 1 .. Len(t)
  BY ConcatProperties
<1>2. /\ \A i \in 1 .. Len(s) : w[i] = s[i]
      /\ \A i \in 1 .. Len(t) : w[Len(s) + i] = t[i]
  OBVIOUS
<1>3. Follow(p, w, q)
  OBVIOUS
<1> HIDE DEF w
<1>4. s # << >> => Len(s) \in 1 .. Len(s) /\ w[Len(s)] = s[Len(s)] /\ before = w[Len(s)].n
  BY <1>1, <1>2 DEF LastOf
<1>5. s = << >> => Len(s) = 0 /\ before = p
  BY DEF LastOf
<1>6. s # << >> => Len(s) # 0
  OBVIOUS
<1> HIDE DEF before
<1>7. LastOf(u, before) = LastOf(w, p)
  <2>1. CASE Len(t) = 0
    <3>1. u = << >> /\ Len(w) = Len(s)
      BY <1>1, <2>1
    <3>2. CASE s = << >>
      <4>1. w = << >>
        BY <1>1, <1>5, <3>1, <3>2
      <4> QED
        BY <1>5, <3>1, <3>2, <4>1 DEF LastOf
    <3>3. CASE s # << >>
      <4>1. w # << >>
        BY <1>1, <1>6, <3>1, <3>3
      <4> QED
        BY <1>4, <3>1, <3>3, <4>1 DEF LastOf
    <3> QED
      BY <3>2, <3>3
  <2>2. CASE Len(t) # 0
    <3>1. u # << >> /\ w # << >> /\ Len(t) \in 1 .. Len(t)
      BY <1>1, <2>2
    <3>2. w[Len(w)].n = u[Len(u)].n
      BY <1>1, <1>2, <3>1
    <3> QED
      BY <3>1, <3>2 DEF LastOf
  <2> QED
    BY <2>1, <2>2
<1>8. ASSUME NEW i \in DOMAIN u
      PROVE  u[i].n = Succ(IF i = 1 THEN before ELSE u[i - 1].n)
  <2>1. i \in 1 .. Len(t) /\ Len(s) + i \in DOMAIN w /\ u[i].n = w[Len(s) + i].n
    BY <1>1, <1>2
  <2>2. w[Len(s) + i].n = Succ(IF Len(s) + i = 1 THEN p ELSE w[Len(s) + i - 1].n)
    <3> DEFINE k == Len(s) + i
    <3>1. k \in DOMAIN w
      BY <2>1
    <3> HIDE DEF k
    <3>2. w[k].n = Succ(IF k = 1 THEN p ELSE w[k - 1].n)
      BY <1>3, <3>1 DEF Follow
    <3> QED
      BY <3>2 DEF k
  <2>3. CASE i = 1
    BY <1>1, <1>4, <1>5, <1>6, <2>1, <2>2, <2>3
  <2>4. CASE i # 1
    <3>1. i - 1 \in 1 .. Len(t) /\ Len(s) + i # 1 /\ Len(s) + (i - 1) = Len(s) + i - 1
      BY <1>1, <2>1, <2>4
    <3>2. w[Len(s) + (i - 1)].n = u[i - 1].n
      BY <1>2, <3>1
    <3> QED
      BY <2>1, <2>2, <2>4, <3>1, <3>2
  <2> QED
    BY <2>3, <2>4
<1> QED
  BY <1>3, <1>7, <1>8 DEF Follow, before

(***************************************************************************)
(* Every step keeps the invariant.                                         *)
(***************************************************************************)
LEMMA InitInductive == Init => Inductive
<1> SUFFICES ASSUME Init PROVE Inductive
  OBVIOUS
<1>1. /\ input = << >> /\ buf = << >> /\ next = 1 /\ taken = 0 /\ size = 0 /\ idle = 0
      /\ ret = 0 /\ up = "up" /\ pc = "idle" /\ ask = FALSE
  BY DEF Init
<1>2. Size \in Nat /\ MaxLine \in Nat /\ Timeout \in Nat /\ Wrap \in Nat /\ Wrap > 2
  BY PortAssumption
<1>3. << >> \in Seq(Bytes) /\ Len(<< >>) = 0
  BY EmptySeq
<1>4. TypeOK
  <2>1. /\ input \in Seq(Bytes) /\ Len(input) <= MaxLine /\ buf \in Seq(Bytes) /\ Len(buf) <= size
    BY <1>1, <1>2, <1>3
  <2>2. /\ next \in 0 .. Wrap - 1 /\ taken \in 0 .. Wrap - 1 /\ idle \in 0 .. Timeout
        /\ size \in 0 .. Size /\ ret \in -1 .. Size
    BY <1>1, <1>2
  <2> QED
    BY <1>1, <2>1, <2>2 DEF TypeOK
<1>5. Requesting /\ OnlyNew
  BY <1>1 DEF Requesting, OnlyNew, AnswerIsNew
<1>6. StreamKept
  <2>1. Succ(0) = 1
    BY <1>2 DEF Succ
  <2>2. buf \o input = << >> /\ DOMAIN << >> = {}
    BY <1>1
  <2> QED
    BY <1>1, <2>1, <2>2 DEF StreamKept, Follow, LastOf
<1> QED
  BY <1>4, <1>5, <1>6 DEF Inductive

LEMMA ArriveStep ==
  ASSUME Inductive, NEW ok \in BOOLEAN, Arrive(ok)
  PROVE  Inductive'
<1> USE DEF Inductive
<1> DEFINE b == [n |-> next, ok |-> ok, new |-> TRUE]
<1>1. b \in Bytes /\ b.n = next /\ b.new
  BY DEF TypeOK, Bytes
<1>2. input' = Append(input, b) /\ next' = Succ(next) /\ idle' = 0
      /\ UNCHANGED <<up, pc, ask, size, buf, ret, taken>>
  BY DEF Arrive, call
<1> HIDE DEF b
<1>3. input \in Seq(Bytes) /\ buf \in Seq(Bytes)
  BY DEF TypeOK
<1>4. TypeOK'
  <2>1. input' \in Seq(Bytes) /\ Len(input') <= MaxLine
    BY <1>1, <1>2, <1>3, Places DEF Arrive
  <2>2. next' \in 0 .. Wrap - 1 /\ idle' \in 0 .. Timeout
    BY <1>2, Places, PortAssumption DEF TypeOK
  <2> QED
    BY <1>2, <2>1, <2>2 DEF TypeOK
<1>5. Requesting'
  BY <1>2 DEF Requesting
<1>6. OnlyNew'
  <2>1. (\A i \in DOMAIN input : input[i].new) => \A i \in DOMAIN input' : input'[i].new
    BY <1>1, <1>2, <1>3
  <2> QED
    BY <1>2, <2>1 DEF OnlyNew, AnswerIsNew
<1>7. StreamKept'
  <2>1. (buf \o input)' = Append(buf \o input, b)
    BY <1>1, <1>2, <1>3
  <2>2. buf \o input \in Seq(Bytes)
    BY <1>3, ConcatProperties
  <2>3. Follow(taken, Append(buf \o input, b), Succ(next))
    BY <1>1, <2>2, FollowAppend DEF StreamKept
  <2> QED
    BY <1>2, <2>1, <2>3 DEF StreamKept
<1> QED
  BY <1>4, <1>5, <1>6, <1>7

(* A call begins: what the last one left in the buffer is taken.           *)
LEMMA BeginStep ==
  ASSUME Inductive, Read \/ Ask
  PROVE  Inductive'
<1> USE DEF Inductive
<1>1. /\ buf' = << >> /\ taken' = LastOf(buf, taken) /\ size' \in 0 .. Size
      /\ UNCHANGED <<next, up, idle, ret>>
  BY Places DEF Read, Ask, line
<1>2. /\ input' \in Seq(Bytes) /\ Len(input') = Len(input)
      /\ \A i \in 1 .. Len(input) : input'[i].n = input[i].n
  <2>1. CASE Read
    BY <2>1 DEF Read, line, TypeOK
  <2>2. CASE Ask
    <3>1. input' = [i \in 1 .. Len(input) |-> [input[i] EXCEPT !.new = FALSE]]
      BY <2>2 DEF Ask, TypeOK
    <3>2. \A i \in 1 .. Len(input) :
             /\ [input[i] EXCEPT !.new = FALSE] \in Bytes
             /\ [input[i] EXCEPT !.new = FALSE].n = input[i].n
      <4> SUFFICES ASSUME NEW i \in 1 .. Len(input)
                   PROVE  /\ [input[i] EXCEPT !.new = FALSE] \in Bytes
                          /\ [input[i] EXCEPT !.new = FALSE].n = input[i].n
        OBVIOUS
      <4>1. input[i] \in Bytes
        BY ElementOfSeq DEF TypeOK
      <4> QED
        BY <4>1 DEF Bytes
    <3>3. input' \in Seq(Bytes)
      BY <3>1, <3>2, IsASeq DEF TypeOK
    <3>4. Len(input') = Len(input)
      BY <3>1 DEF TypeOK
    <3> QED
      BY <3>1, <3>2, <3>3, <3>4
  <2> QED
    BY <2>1, <2>2
<1>3. TypeOK'
  <2>1. taken' \in 0 .. Wrap - 1
    BY <1>1, LastOfPlace DEF TypeOK
  <2>2. buf' \in Seq(Bytes) /\ Len(buf') = 0
    BY <1>1, EmptySeq
  <2> QED
    <3>1. pc' \in {"idle", "flush", "write", "recv"} /\ ask' \in BOOLEAN
      BY DEF Read, Ask
    <3>2. Len(buf') <= size' /\ Len(input') <= MaxLine
      BY <1>1, <1>2, <2>2, Places DEF TypeOK
    <3> QED
      BY <1>1, <1>2, <2>1, <2>2, <3>1, <3>2 DEF TypeOK
<1>4. Requesting'
  BY <1>1 DEF Requesting, Read, Ask
<1>5. OnlyNew'
  BY DEF OnlyNew, AnswerIsNew, Read, Ask
<1>6. StreamKept'
  <2>1. Follow(LastOf(buf, taken), input', next)
    <3>1. /\ buf \in Seq(Bytes) /\ input \in Seq(Bytes)
          /\ Follow(taken, buf \o input, next)
      BY DEF TypeOK, StreamKept
    <3> DEFINE u == input'
    <3>2. /\ u \in Seq(Bytes) /\ Len(u) = Len(input)
          /\ \A i \in 1 .. Len(input) : u[i].n = input[i].n
      BY <1>2
    <3> HIDE DEF u
    <3>3. Follow(LastOf(buf, taken), u, next)
      BY <3>1, <3>2, FollowRest
    <3> QED
      BY <3>3 DEF u
  <2>2. (buf \o input)' = input'
    BY <1>1, <1>2, ConcatEmptySeq
  <2> QED
    BY <1>1, <2>1, <2>2 DEF StreamKept
<1> QED
  BY <1>3, <1>4, <1>5, <1>6

(* What waits is thrown away: its last byte counts as taken.               *)
LEMMA FlushStep ==
  ASSUME Inductive, Flush
  PROVE  Inductive'
<1> USE DEF Inductive
<1>1. /\ input' = << >> /\ taken' = LastOf(input, taken) /\ pc = "flush" /\ pc' = "write"
      /\ UNCHANGED <<next, up, idle, ask, size, buf, ret>>
  BY DEF Flush
<1>2. buf = << >> /\ ask
  BY <1>1 DEF Requesting
<1>3. << >> \in Seq(Bytes) /\ Len(<< >>) = 0 /\ input \in Seq(Bytes)
  BY EmptySeq DEF TypeOK
<1>4. TypeOK'
  <2>1. taken' \in 0 .. Wrap - 1
    BY <1>1, LastOfPlace DEF TypeOK
  <2> QED
    BY <1>1, <1>3, <2>1, Places DEF TypeOK
<1>5. Requesting' /\ OnlyNew'
  BY <1>1, <1>2 DEF Requesting, OnlyNew, AnswerIsNew
<1>6. StreamKept'
  <2>1. buf \o input = input
    BY <1>2, <1>3, ConcatEmptySeq
  <2>2. Succ(LastOf(input, taken)) = next
    BY <2>1 DEF StreamKept, Follow
  <2>3. (buf \o input)' = << >>
    BY <1>1, <1>2
  <2>4. Follow(LastOf(input, taken), << >>, next)
    BY <2>2 DEF Follow, LastOf
  <2> QED
    BY <1>1, <2>3, <2>4 DEF StreamKept
<1> QED
  BY <1>4, <1>5, <1>6

(* Bytes move from the line to the buffer, in order.                       *)
LEMMA ReceiveStep ==
  ASSUME Inductive, NEW k \in 1 .. Size, Receive(k)
  PROVE  Inductive'
<1> USE DEF Inductive
<1> DEFINE front == SubSeq(input, 1, k)
           rest  == SubSeq(input, k + 1, Len(input))
<1>1. /\ buf' = buf \o front /\ input' = rest /\ k \in 1 .. Len(input) /\ k <= size - Len(buf)
      /\ pc = "recv" /\ UNCHANGED <<next, up, idle, pc, ask, size, ret, taken>>
  BY DEF Receive
<1>2. input \in Seq(Bytes) /\ buf \in Seq(Bytes) /\ Len(input) \in Nat /\ Len(buf) \in Nat
  BY DEF TypeOK
<1>3. /\ front \in Seq(Bytes) /\ Len(front) = k /\ \A i \in 1 .. k : front[i] = input[i]
      /\ rest \in Seq(Bytes) /\ Len(rest) = Len(input) - k
      /\ \A i \in 1 .. Len(input) - k : rest[i] = input[k + i]
  BY <1>1, <1>2, SMTT(30)
<1>4. front \o rest = input
  <2>1. 1 \in 1 .. Len(input) + 1 /\ k \in 1 - 1 .. Len(input) /\ Len(input) \in k .. Len(input)
    BY <1>1, <1>2
  <2>2. SubSeq(input, 1, k) \o SubSeq(input, k + 1, Len(input)) = SubSeq(input, 1, Len(input))
    BY <1>2, <2>1, ConcatAdjacentSubSeq
  <2> QED
    BY <1>2, <2>2, SubSeqFull
<1> HIDE DEF front, rest
<1>5. /\ buf' \in Seq(Bytes) /\ Len(buf') = Len(buf) + k
      /\ \A i \in 1 .. Len(buf) + k : buf'[i] = IF i <= Len(buf) THEN buf[i] ELSE front[i - Len(buf)]
  <2> DEFINE long == buf \o front
  <2>1. /\ long \in Seq(Bytes) /\ Len(long) = Len(buf) + Len(front)
        /\ \A i \in 1 .. Len(buf) + Len(front) :
             long[i] = IF i <= Len(buf) THEN buf[i] ELSE front[i - Len(buf)]
    BY <1>2, <1>3, ConcatProperties, Zenon
  <2> QED
    BY <1>1, <1>3, <2>1, Zenon
<1>6. TypeOK'
  <2>1. Len(buf') <= size /\ Len(input') <= MaxLine
    BY <1>1, <1>2, <1>3, <1>5, Places DEF TypeOK
  <2> QED
    BY <1>1, <1>3, <1>5, <2>1 DEF TypeOK
<1>7. Requesting'
  BY <1>1 DEF Requesting
<1>8. OnlyNew'
  <2>1. ASSUME ask 
               PROVE  /\ \A i \in DOMAIN buf' : buf'[i].new
                      /\ \A i \in DOMAIN input' : input'[i].new
    <3>1. /\ \A i \in 1 .. Len(buf) : buf[i].new
          /\ \A i \in 1 .. Len(input) : input[i].new
      BY <1>1, <1>2, <2>1 DEF OnlyNew
    <3>2. ASSUME NEW i \in 1 .. Len(buf) + k PROVE buf'[i].new
      <4>1. CASE i <= Len(buf)
        BY <1>2, <1>5, <3>1, <4>1
      <4>2. CASE ~ (i <= Len(buf))
        <5>1. i - Len(buf) \in 1 .. k /\ i - Len(buf) \in 1 .. Len(input)
          BY <1>1, <1>2, <4>2
        <5> QED
          BY <1>3, <1>5, <3>1, <4>2, <5>1
      <4> QED
        BY <4>1, <4>2
    <3>3. ASSUME NEW i \in 1 .. Len(input) - k PROVE input'[i].new
      <4>1. k + i \in 1 .. Len(input)
        BY <1>1, <1>2
      <4> QED
        BY <1>1, <1>3, <3>1, <4>1
    <3>4. DOMAIN buf' = 1 .. Len(buf) + k /\ DOMAIN input' = 1 .. Len(input) - k
      BY <1>1, <1>3, <1>5, LenProperties
    <3> QED
      BY <3>2, <3>3, <3>4
  <2> QED
    BY <1>1, <2>1 DEF OnlyNew, AnswerIsNew
<1>9. StreamKept'
  <2>1. (buf \o front) \o rest = buf \o (front \o rest)
    BY <1>2, <1>3, ConcatAssociative
  <2>2. (buf \o input)' = buf \o input
    BY <1>1, <1>4, <2>1
  <2> QED
    BY <1>1, <2>2 DEF StreamKept
<1> QED
  BY <1>6, <1>7, <1>8, <1>9

(* A call ends.                                                            *)
LEMMA EndStep ==
  ASSUME Inductive, WriteFails \/ ReceiveFails \/ Done
  PROVE  Inductive'
<1> USE DEF Inductive
<1>1. pc' = "idle" /\ UNCHANGED <<line, ask, size, buf, taken>>
  BY DEF WriteFails, ReceiveFails, Done
<1>2. ret' = -1 \/ (Done /\ ret' = Result)
  BY Zenon DEF WriteFails, ReceiveFails, Done
<1>3. Len(buf) \in 0 .. Size /\ size \in 0 .. Size /\ Size \in Nat
  BY Places DEF TypeOK
<1>4. ret' \in -1 .. Size
  BY <1>2, <1>3 DEF Result
<1>5. TypeOK'
  BY <1>1, <1>4 DEF TypeOK, line
<1>6. Requesting' /\ StreamKept'
  BY <1>1 DEF Requesting, StreamKept, line
<1>7. OnlyNew'
  <2> SUFFICES ASSUME ask, ret' > 0
               PROVE  \E i \in DOMAIN buf : buf[i].ok /\ buf[i].new
    BY <1>1 DEF OnlyNew, AnswerIsNew, line
  <2>1. Done /\ ret' = Result
    BY <1>2
  <2>2. \E i \in DOMAIN buf : buf[i].ok
    BY <2>1 DEF Result
  <2> QED
    BY <2>1, <2>2 DEF Done, OnlyNew
<1> QED
  BY <1>5, <1>6, <1>7

(* Every reachable state satisfies the invariant.                          *)
THEOREM InductiveHolds == Spec => []Inductive
<1>1. Inductive /\ [Next]_vars => Inductive'
  <2> SUFFICES ASSUME Inductive, [Next]_vars PROVE Inductive'
    OBVIOUS
  <2>1. CASE Arriving
    BY <2>1, ArriveStep DEF Arriving
  <2>2. ASSUME NEW how \in {"closed", "error"}, HangUp(how) PROVE Inductive'
    BY <2>2 DEF HangUp, call, Inductive, TypeOK, Requesting, OnlyNew, AnswerIsNew, StreamKept
  <2>3. CASE Tick
    <3>1. idle' \in 0 .. Timeout /\ UNCHANGED <<input, next, up, call>>
      BY <2>3, PortAssumption DEF Tick, Inductive, TypeOK
    <3> QED
      BY <3>1 DEF call, Inductive, TypeOK, Requesting, OnlyNew, AnswerIsNew, StreamKept
  <2>4. CASE Read \/ Ask
    BY <2>4, BeginStep
  <2>5. CASE Flush
    BY <2>5, FlushStep
  <2>6. CASE WriteAll
    BY <2>6 DEF WriteAll, line, Inductive, TypeOK, Requesting, OnlyNew, AnswerIsNew, StreamKept
  <2>7. CASE \E k \in 1 .. Size : Receive(k)
    BY <2>7, ReceiveStep
  <2>8. CASE WriteFails \/ ReceiveFails \/ Done
    BY <2>8, EndStep
  <2>9. CASE UNCHANGED vars
    BY <2>9 DEF vars, line, call, Inductive, TypeOK, Requesting, OnlyNew, AnswerIsNew, StreamKept
  <2> QED
    BY <2>1, <2>2, <2>3, <2>4, <2>5, <2>6, <2>7, <2>8, <2>9 DEF Next, Step
<1> QED
  BY InitInductive, <1>1, PTL DEF Spec

(* No call holds more bytes than it asked for (serial_port.c:225-250).     *)
THEOREM TypeCorrect == Spec => []TypeOK
<1>1. Inductive => TypeOK
  BY DEF Inductive
<1> QED
  BY <1>1, InductiveHolds, PTL

(* The terminator of an answer has its place (serial_port.c:307-315).      *)
THEOREM TerminatorAlwaysFits == Spec => []TerminatorFits
<1>1. Inductive => TerminatorFits
  <2> SUFFICES ASSUME Inductive, ask PROVE Len(buf) + 1 <= Size
    BY DEF TerminatorFits
  <2>1. Len(buf) \in Nat /\ Len(buf) <= size /\ size = Size - 1 /\ Size \in Nat
    BY Places DEF Inductive, TypeOK, Requesting
  <2> QED
    BY <2>1
<1> QED
  BY <1>1, InductiveHolds, PTL

(* No byte is lost, doubled or reordered (serial_port.c:197-250).          *)
THEOREM StreamIsKept == Spec => []StreamKept
<1>1. Inductive => StreamKept
  BY DEF Inductive
<1> QED
  BY <1>1, InductiveHolds, PTL

(* A request judges only what arrived after it threw the old input away    *)
(* (serial_port.c:286, 318-323).                                           *)
THEOREM AnswersAreNew == Spec => []AnswerIsNew
<1>1. Inductive => AnswerIsNew
  BY DEF Inductive, OnlyNew
<1> QED
  BY <1>1, InductiveHolds, PTL

(***************************************************************************)
(* A call comes to an end.                                                 *)
(***************************************************************************)

(* The steps a call can still take: the flush, the write, a read() for     *)
(* each byte that is wanted, and the return.                               *)
StepsLeft ==
  CASE pc = "idle" -> 0
    [] pc = "recv" -> 1 + (size - Len(buf))
    [] pc = "write" -> 2 + Size
    [] pc = "flush" -> 3 + Size

(* The guards of the steps: where a call can go on at once.                *)
CanGoOn ==
  \/ pc \in {"flush", "write"}
  \/ pc = "recv" /\ (Len(buf) = size \/ input # << >> \/ up # "up")

(* Each step of a call lessens a natural number that nothing else changes, *)
(* and it is held up by nothing but an empty line that may still fill.     *)
CallsAdvance ==
  /\ [](StepsLeft \in Nat)
  /\ [](pc # "idle" => CanGoOn \/ (pc = "recv" /\ input = << >> /\ up = "up"))
  /\ [][pc # "idle" =>
          /\ Step => StepsLeft' < StepsLeft
          /\ ~ Step => StepsLeft' = StepsLeft /\ (CanGoOn => CanGoOn')]_vars

LEMMA StepsLeftFacts ==
  Inductive =>
    /\ StepsLeft \in Nat
    /\ pc = "recv" => Len(buf) \in Nat /\ size \in Nat /\ Len(buf) <= size /\ size <= Size
    /\ pc \in {"idle", "flush", "write", "recv"} /\ Size \in Nat
<1> SUFFICES ASSUME Inductive
             PROVE  /\ StepsLeft \in Nat
                    /\ Len(buf) \in Nat /\ size \in Nat /\ Len(buf) <= size /\ size <= Size
                    /\ pc \in {"idle", "flush", "write", "recv"} /\ Size \in Nat
  OBVIOUS
<1>1. /\ Len(buf) \in Nat /\ size \in Nat /\ Len(buf) <= size /\ size <= Size
      /\ pc \in {"idle", "flush", "write", "recv"} /\ Size \in Nat
  BY Places DEF Inductive, TypeOK
<1> QED
  BY <1>1 DEF StepsLeft

(* Whatever the line does, a call takes at most one step for each byte it  *)
(* wants besides its flush, its write and its return, and it always can go *)
(* on unless it waits for a byte of an open line: the safety half of       *)
(* CallsReturn (serial_port.c:197-250).                                    *)
THEOREM CallsComeToAnEnd == Spec => CallsAdvance
<1> DEFINE Advances ==
      pc # "idle" =>
        /\ Step => StepsLeft' < StepsLeft
        /\ ~ Step => StepsLeft' = StepsLeft /\ (CanGoOn => CanGoOn')
<1>1. Inductive => StepsLeft \in Nat
  BY StepsLeftFacts
<1>2. Inductive => (pc # "idle" => CanGoOn \/ (pc = "recv" /\ input = << >> /\ up = "up"))
  BY DEF Inductive, TypeOK, CanGoOn
<1>3. Inductive /\ [Next]_vars => [Advances]_vars
  <2> SUFFICES ASSUME Inductive, Next, pc # "idle"
               PROVE  /\ Step => StepsLeft' < StepsLeft
                      /\ ~ Step => StepsLeft' = StepsLeft /\ (CanGoOn => CanGoOn')
    OBVIOUS
  <2>0. /\ pc = "recv" => Len(buf) \in Nat /\ size \in Nat /\ Len(buf) <= size /\ size <= Size
        /\ Size \in Nat
    BY StepsLeftFacts
  <2>1. ASSUME Step PROVE StepsLeft' < StepsLeft
    <3>1. CASE Flush
      BY <2>0, <3>1 DEF Flush, StepsLeft
    <3>2. CASE WriteAll
      <4>1. buf = << >> /\ size = Size - 1
        BY <3>2 DEF WriteAll, Inductive, Requesting
      <4>2. /\ pc = "write" /\ pc' = "recv" /\ buf' = << >> /\ size' = Size - 1
        BY <3>2, <4>1 DEF WriteAll
      <4> QED
        BY <2>0, <4>2 DEF StepsLeft
    <3>3. CASE WriteFails \/ ReceiveFails \/ Done
      BY <2>0, <3>3 DEF WriteFails, ReceiveFails, Done, StepsLeft
    <3>4. ASSUME NEW k \in 1 .. Size, Receive(k) PROVE StepsLeft' < StepsLeft
      <4>1. /\ pc = "recv" /\ pc' = "recv" /\ size' = size /\ buf' = buf \o SubSeq(input, 1, k)
            /\ k \in 1 .. Len(input) /\ input \in Seq(Bytes) /\ buf \in Seq(Bytes)
        BY <3>4 DEF Receive, Inductive, TypeOK
      <4>2. SubSeq(input, 1, k) \in Seq(Bytes) /\ Len(SubSeq(input, 1, k)) = k
        BY <4>1, SubSeqProperties
      <4>3. Len(buf') = Len(buf) + k
        BY <4>1, <4>2, ConcatProperties
      <4>4. k <= size - Len(buf)
        BY <3>4 DEF Receive
      <4> QED
        BY <2>0, <4>1, <4>3, <4>4 DEF StepsLeft
    <3> QED
      BY <2>1, <3>1, <3>2, <3>3, <3>4 DEF Step
  <2>2. ASSUME ~ Step PROVE StepsLeft' = StepsLeft /\ (CanGoOn => CanGoOn')
    <3>1. CASE Arriving
      <4>1. PICK ok \in BOOLEAN : Arrive(ok)
        BY <3>1 DEF Arriving
      <4>2. /\ input' = Append(input, [n |-> next, ok |-> ok, new |-> TRUE])
            /\ UNCHANGED <<up, pc, ask, size, buf, ret, taken>>
        BY <4>1 DEF Arrive, call
      <4>3. input' # << >>
        BY <4>2 DEF Inductive, TypeOK
      <4> QED
        BY <4>2, <4>3 DEF StepsLeft, CanGoOn
    <3>2. CASE (\E how \in {"closed", "error"} : HangUp(how)) \/ Tick
      BY <3>2 DEF HangUp, Tick, call, StepsLeft, CanGoOn
    <3> QED
      BY <2>2, <3>1, <3>2 DEF Next, Read, Ask
  <2> QED
    BY <2>1, <2>2
<1>4. CallsAdvance <=>
        /\ [](StepsLeft \in Nat)
        /\ [](pc # "idle" => CanGoOn \/ (pc = "recv" /\ input = << >> /\ up = "up"))
        /\ [][Advances]_vars
  BY DEF CallsAdvance
<1> HIDE DEF Advances
<1> QED
  BY <1>1, <1>2, <1>3, <1>4, InductiveHolds, PTL DEF Spec
=============================================================================
