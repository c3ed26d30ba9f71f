--------------------------- MODULE HexToBinProofs ---------------------------
(***************************************************************************)
(* For any file, any first buffer and any records: the image is what the   *)
(* file says.  While it is read the buffer agrees with the lines read so   *)
(* far, each with the base in front of it.                                 *)
(***************************************************************************)
EXTENDS HexToBin, SequenceTheorems, TLAPS

Line == [kind : {"data", "base", "end", "damaged", "other"}, number : Nat, n : Nat]

(* The buffer b of sz bytes from st on holds what the lines t say.         *)
Holds(b, sz, st, t) ==
  /\ \A l \in 1 .. Len(t), a \in Nat :
       Says(t, l, a) => st # Unset /\ st <= a /\ a < sz /\ b[a] >= l
  /\ \A a \in 0 .. sz - 1 : b[a] > 0 => Says(t, b[a], a)

(* b2 of sz2 bytes is b of sz bytes with n bytes of line m written at o.   *)
Written(b2, sz2, b, sz, o, n, m) ==
  \A a \in 0 .. sz2 - 1 :
    b2[a] = IF a \in o .. o + n - 1 THEN m ELSE IF a < sz THEN b[a] ELSE Fill

Reading ==
  /\ pc = "open" => text = << >> /\ start = Unset /\ base = 0
  /\ pc = "read" =>
       /\ size >= Initial
       /\ \A a \in 0 .. size - 1 : a >= Initial => data[a] # Junk
       /\ Holds(data, size, start, text)
  /\ pc # "done" => result = "none"

Bases0 ==
  /\ text \in Seq(Line)
  /\ base = BaseOf(text, Len(text) + 1)
  /\ start # Unset => \E l \in 1 .. Len(text) : text[l].kind = "data"

Inductive == TypeOK /\ Reading /\ Bases0 /\ ImageIsFile /\ GapsAreFilled /\ ImageIffData

(***************************************************************************)
(* The lines of a file.                                                    *)
(***************************************************************************)
LEMMA AppendLine ==
  ASSUME NEW t \in Seq(Line), NEW r \in Line
  PROVE  /\ Append(t, r) \in Seq(Line) /\ Len(Append(t, r)) = Len(t) + 1 /\ Len(t) \in Nat
         /\ Append(t, r)[Len(t) + 1] = r
         /\ \A j \in 1 .. Len(t) : Append(t, r)[j] = t[j] /\ t[j] \in Line
  OBVIOUS

(* The latest base in front of a line is the one that counts.              *)
LEMMA BaseIs ==
  ASSUME NEW t, NEW l \in Nat, NEW k, IsBase(t, k, l)
  PROVE  BaseOf(t, l) = t[k].number
<1> DEFINE c == CHOOSE i \in 1 .. l - 1 : IsBase(t, i, l)
<1>1. k \in 1 .. l - 1
  BY DEF IsBase
<1>2. c \in 1 .. l - 1 /\ IsBase(t, c, l)
  BY <1>1
<1>3. BaseOf(t, l) = t[c].number
  BY <1>1 DEF BaseOf
<1> HIDE DEF c
<1>4. ~ (c < k) /\ ~ (k < c)
  BY <1>1, <1>2 DEF IsBase
<1>5. c = k
  BY <1>1, <1>2, <1>4
<1> QED
  BY <1>3, <1>5

LEMMA BaseNone ==
  ASSUME NEW t, NEW l \in Nat, ~\E k \in 1 .. l - 1 : IsBase(t, k, l)
  PROVE  BaseOf(t, l) = 0
  BY DEF BaseOf

LEMMA BaseIsNat ==
  ASSUME NEW t \in Seq(Line), NEW l \in 1 .. Len(t) + 1
  PROVE  BaseOf(t, l) \in Nat
<1>1. CASE \E k \in 1 .. l - 1 : IsBase(t, k, l)
  <2>1. PICK k \in 1 .. l - 1 : IsBase(t, k, l)
    BY <1>1
  <2>2. t[k] \in Line
    BY <2>1
  <2>3. BaseOf(t, l) = t[k].number
    BY <2>1, BaseIs
  <2> QED
    BY <2>2, <2>3 DEF Line
<1>2. CASE ~\E k \in 1 .. l - 1 : IsBase(t, k, l)
  BY <1>2, BaseNone
<1> QED
  BY <1>1, <1>2

(* A line that is added changes nothing for those in front of it.          *)
LEMMA BaseStable ==
  ASSUME NEW t \in Seq(Line), NEW r \in Line, NEW l \in 1 .. Len(t) + 1
  PROVE  BaseOf(Append(t, r), l) = BaseOf(t, l)
<1> DEFINE u == Append(t, r)
<1>1. /\ Len(t) \in Nat /\ l \in Nat
      /\ \A j \in 1 .. l - 1 : u[j] = t[j]
  BY AppendLine
<1> HIDE DEF u
<1>2. \A k : IsBase(u, k, l) <=> IsBase(t, k, l)
  BY <1>1 DEF IsBase
<1>3. CASE \E k \in 1 .. l - 1 : IsBase(t, k, l)
  <2>1. PICK k \in 1 .. l - 1 : IsBase(t, k, l)
    BY <1>3
  <2>2. IsBase(u, k, l) /\ u[k] = t[k]
    BY <1>1, <1>2, <2>1
  <2>3. BaseOf(u, l) = u[k].number /\ BaseOf(t, l) = t[k].number
    BY <1>1, <2>1, <2>2, BaseIs
  <2> QED
    BY <2>2, <2>3 DEF u
<1>4. CASE ~\E k \in 1 .. l - 1 : IsBase(t, k, l)
  BY <1>1, <1>2, <1>4, BaseNone DEF u
<1> QED
  BY <1>3, <1>4

LEMMA BaseAfter ==
  ASSUME NEW t \in Seq(Line), NEW r \in Line
  PROVE  BaseOf(Append(t, r), Len(t) + 2)
           = IF r.kind = "base" THEN r.number ELSE BaseOf(t, Len(t) + 1)
<1> DEFINE u == Append(t, r)
           m == Len(t) + 1
<1>1. m \in Nat /\ u[m] = r /\ \A j \in 1 .. m - 1 : u[j] = t[j]
  BY AppendLine
<1>2. Len(t) + 2 = m + 1
  BY AppendLine
<1> HIDE DEF u, m
<1>3. CASE r.kind = "base"
  <2>1. IsBase(u, m, m + 1)
    BY <1>1, <1>3, AppendLine DEF IsBase, m
  <2>2. BaseOf(u, m + 1) = u[m].number
    BY <1>1, <2>1, BaseIs
  <2> QED
    BY <1>1, <1>2, <1>3, <2>2 DEF u
<1>4. CASE r.kind # "base"
  <2>1. \A k : IsBase(u, k, m + 1) <=> IsBase(t, k, m)
    BY <1>1, <1>4, AppendLine DEF IsBase, m
  <2>2. CASE \E k \in 1 .. m - 1 : IsBase(t, k, m)
    <3>1. PICK k \in 1 .. m - 1 : IsBase(t, k, m)
      BY <2>2
    <3>2. IsBase(u, k, m + 1) /\ u[k] = t[k]
      BY <1>1, <2>1, <3>1
    <3>3. BaseOf(u, m + 1) = u[k].number /\ BaseOf(t, m) = t[k].number
      BY <1>1, <3>1, <3>2, BaseIs
    <3> QED
      BY <1>2, <1>4, <3>2, <3>3 DEF u, m
  <2>3. CASE ~\E k \in 1 .. m - 1 : IsBase(t, k, m)
    <3>1. ~\E k \in 1 .. m : IsBase(u, k, m + 1)
      BY <1>1, <2>1, <2>3 DEF IsBase
    <3>2. BaseOf(u, m + 1) = 0 /\ BaseOf(t, m) = 0
      BY <1>1, <2>3, <3>1, BaseNone
    <3> QED
      BY <1>2, <1>4, <3>2 DEF u, m
  <2> QED
    BY <2>2, <2>3
<1> QED
  BY <1>3, <1>4

LEMMA SaysStable ==
  ASSUME NEW t \in Seq(Line), NEW r \in Line, NEW l \in 1 .. Len(t), NEW a
  PROVE  Says(Append(t, r), l, a) <=> Says(t, l, a)
<1>1. Append(t, r)[l] = t[l] /\ l \in 1 .. Len(t) + 1
  BY AppendLine
<1>2. BaseOf(Append(t, r), l) = BaseOf(t, l)
  BY <1>1, BaseStable
<1> QED
  BY <1>1, <1>2 DEF Says

(* A line without data leaves what the buffer holds.                       *)
LEMMA HoldsStable ==
  ASSUME NEW t \in Seq(Line), NEW r \in Line, r.kind # "data",
         NEW sz \in Nat, NEW st, NEW b \in [0 .. sz - 1 -> {Junk} \cup (0 .. Len(t))],
         Holds(b, sz, st, t)
  PROVE  Holds(b, sz, st, Append(t, r))
<1> DEFINE u == Append(t, r)
<1>1. Len(u) = Len(t) + 1 /\ Len(t) \in Nat /\ u[Len(t) + 1] = r
  BY AppendLine
<1>2. \A l \in 1 .. Len(t) : \A a : Says(u, l, a) <=> Says(t, l, a)
  BY SaysStable
<1>3. \A a : ~Says(u, Len(t) + 1, a)
  BY <1>1 DEF Says
<1> HIDE DEF u
<1>4. ASSUME NEW l \in 1 .. Len(u), NEW a \in Nat, Says(u, l, a)
      PROVE  st # Unset /\ st <= a /\ a < sz /\ b[a] >= l
  <2>1. l \in 1 .. Len(t)
    BY <1>1, <1>3, <1>4
  <2> QED
    BY <1>2, <1>4, <2>1 DEF Holds
<1>5. ASSUME NEW a \in 0 .. sz - 1, b[a] > 0
      PROVE  Says(u, b[a], a)
  <2>1. b[a] \in 1 .. Len(t)
    BY <1>1, <1>5 DEF Junk
  <2> QED
    BY <1>2, <1>5, <2>1 DEF Holds
<1> QED
  BY <1>4, <1>5 DEF Holds, u

(* A record is written at its address, over what was there.                *)
LEMMA HoldsData ==
  ASSUME NEW t \in Seq(Line), NEW r \in Line, r.kind = "data",
         NEW sz \in Nat, NEW st \in Nat \cup {Unset},
         NEW b \in [0 .. sz - 1 -> {Junk} \cup (0 .. Len(t))],
         Holds(b, sz, st, t),
         NEW full, full = BaseOf(t, Len(t) + 1) + r.number,
         NEW sz2 \in Nat, sz <= sz2, full + r.n <= sz2,
         NEW st2 \in Nat, st2 <= full, st # Unset => st2 <= st,
         NEW b2, Written(b2, sz2, b, sz, full, r.n, Len(t) + 1)
  PROVE  Holds(b2, sz2, st2, Append(t, r))
<1> DEFINE u == Append(t, r)
           m == Len(t) + 1
<1>0. \A a \in 0 .. sz2 - 1 :
        b2[a] = IF a \in full .. full + r.n - 1 THEN Len(t) + 1
                ELSE IF a < sz THEN b[a] ELSE Fill
  BY DEF Written
<1>1. Len(u) = m /\ Len(t) \in Nat /\ u[m] = r /\ r.number \in Nat /\ r.n \in Nat
  BY AppendLine DEF Line
<1>2. \A l \in 1 .. Len(t) : \A a : Says(u, l, a) <=> Says(t, l, a)
  BY SaysStable
<1>3. BaseOf(u, m) = BaseOf(t, m) /\ BaseOf(t, m) \in Nat
  <2>1. m \in 1 .. Len(t) + 1
    BY <1>1
  <2> QED
    BY <2>1, BaseStable, BaseIsNat
<1> HIDE DEF u
<1>4. full \in Nat /\ \A a \in Nat : Says(u, m, a) <=> a \in full .. full + r.n - 1
  <2> DEFINE o == BaseOf(t, m)
             v == r.number
             n == r.n
  <2>1. o \in Nat /\ v \in Nat /\ n \in Nat /\ full = o + v
    BY <1>1, <1>3
  <2>2. \A a : Says(u, m, a) <=> a - o - v \in 0 .. n - 1
    BY <1>1, <1>3 DEF Says
  <2> HIDE DEF o, v, n
  <2>3. full \in Nat /\ \A a \in Nat : a - o - v \in 0 .. n - 1 <=> a \in full .. full + n - 1
    BY <2>1
  <2> QED
    BY <2>2, <2>3 DEF n
<1>5. ASSUME NEW l \in 1 .. Len(u), NEW a \in Nat, Says(u, l, a)
      PROVE  st2 # Unset /\ st2 <= a /\ a < sz2 /\ b2[a] >= l
  <2>1. CASE l = m
    <3>1. a \in full .. full + r.n - 1
      BY <1>4, <1>5, <2>1
    <3>2. a \in 0 .. sz2 - 1 /\ st2 <= a
      BY <1>1, <1>4, <3>1
    <3> QED
      BY <1>0, <1>1, <2>1, <3>1, <3>2 DEF Unset
  <2>2. CASE l # m
    <3>1. l \in 1 .. Len(t)
      BY <1>1, <2>2
    <3>2. st # Unset /\ st <= a /\ a < sz /\ b[a] >= l
      BY <1>2, <1>5, <3>1 DEF Holds
    <3>3. a \in 0 .. sz2 - 1 /\ st2 <= a
      BY <3>2
    <3> QED
      BY <1>0, <1>1, <3>1, <3>2, <3>3 DEF Unset
  <2> QED
    BY <2>1, <2>2
<1>6. ASSUME NEW a \in 0 .. sz2 - 1, b2[a] > 0
      PROVE  Says(u, b2[a], a)
  <2>1. CASE a \in full .. full + r.n - 1
    <3>1. b2[a] = m /\ a \in Nat
      BY <1>0, <2>1
    <3> QED
      BY <1>4, <2>1, <3>1
  <2>2. CASE a \notin full .. full + r.n - 1
    <3>1. a \in 0 .. sz - 1 /\ b2[a] = b[a]
      BY <1>0, <1>6, <2>2 DEF Fill
    <3>2. b[a] \in 1 .. Len(t)
      BY <1>1, <1>6, <3>1 DEF Junk
    <3> QED
      BY <1>2, <1>6, <3>1, <3>2 DEF Holds
  <2> QED
    BY <2>1, <2>2
<1> QED
  BY <1>5, <1>6 DEF Holds, u

(***************************************************************************)
(* The invariant is inductive.                                             *)
(***************************************************************************)
LEMMA InitInductive == Init => Inductive
<1> SUFFICES ASSUME Init PROVE Inductive
  OBVIOUS
<1>1. /\ pc = "open" /\ base = 0 /\ data = << >> /\ size = 0 /\ start = Unset
      /\ result = "none" /\ text = << >> /\ Len(text) = 0
  BY DEF Init
<1>2. TypeOK
  BY <1>1 DEF TypeOK
<1>3. Reading
  BY <1>1 DEF Reading
<1>4. Bases0
  <2>1. ~\E k \in 1 .. 1 - 1 : IsBase(text, k, 1)
    OBVIOUS
  <2>2. BaseOf(text, 1) = 0
    BY <2>1, BaseNone
  <2> QED
    BY <1>1, <2>2 DEF Bases0
<1>5. ImageIsFile /\ GapsAreFilled /\ ImageIffData
  BY <1>1 DEF ImageIsFile, GapsAreFilled, ImageIffData
<1> QED
  BY <1>2, <1>3, <1>4, <1>5 DEF Inductive

LEMMA OpenStep ==
  ASSUME Inductive, Open
  PROVE  Inductive'
<1>1. /\ pc = "open" /\ pc' = "read" /\ data' = [a \in 0 .. Initial - 1 |-> Junk]
      /\ size' = Initial /\ UNCHANGED <<base, start, result, text>> /\ Initial \in Nat
      /\ text = << >> /\ start = Unset /\ result = "none"
  BY HexAssumption DEF Open, Inductive, Reading
<1>2. TypeOK'
  BY <1>1 DEF Inductive, TypeOK
<1>3. Holds(data', size', start', text')
  <2>1. Len(text') = 0
    BY <1>1
  <2>2. \A a \in 0 .. size' - 1 : ~(data'[a] > 0)
    BY <1>1 DEF Junk
  <2> QED
    BY <2>1, <2>2 DEF Holds
<1>4. Reading' /\ Bases0'
  BY <1>1, <1>3 DEF Inductive, Reading, Bases0
<1>5. ImageIsFile' /\ GapsAreFilled' /\ ImageIffData'
  BY <1>1 DEF ImageIsFile, GapsAreFilled, ImageIffData
<1> QED
  BY <1>2, <1>4, <1>5 DEF Inductive

(* What a line that was read is, and the base after it.                    *)
LEMMA LineRead ==
  ASSUME Inductive, NEW kind \in {"data", "base", "end", "damaged", "other"},
         NEW number \in Nat, NEW n \in Nat, ReadLine(kind, number, n),
         base' = IF kind = "base" THEN number ELSE base
  PROVE  LET r == [kind |-> kind, number |-> number, n |-> n]
         IN /\ r \in Line /\ text' = Append(text, r) /\ text' \in Seq(Line)
            /\ Len(text') = Len(text) + 1 /\ Len(text) \in Nat
            /\ base' = BaseOf(text', Len(text') + 1)
            /\ text'[Len(text')] = r
            /\ \A l \in 1 .. Len(text) : text'[l] = text[l]
<1> DEFINE r == [kind |-> kind, number |-> number, n |-> n]
<1>1. r \in Line /\ text' = Append(text, r) /\ text \in Seq(Line) /\ base = BaseOf(text, Len(text) + 1)
  BY DEF Line, ReadLine, Inductive, Bases0
<1>2. r.kind = kind /\ r.number = number
  OBVIOUS
<1> HIDE DEF r
<1>3. /\ text' \in Seq(Line) /\ Len(text') = Len(text) + 1 /\ Len(text) \in Nat
      /\ text'[Len(text')] = r /\ \A l \in 1 .. Len(text) : text'[l] = text[l]
  BY <1>1, AppendLine
<1>4. Len(text') + 1 = Len(text) + 2
  BY <1>3
<1>5. base' = BaseOf(text', Len(text') + 1)
  BY <1>1, <1>2, <1>4, BaseAfter
<1> QED
  BY <1>1, <1>3, <1>5 DEF r

(* Extended, Pass and Refuse.                                              *)
LEMMA QuietStep ==
  ASSUME Inductive, NEW kind \in {"base", "end", "damaged", "other"},
         NEW number \in Nat, NEW n \in Nat, ReadLine(kind, number, n),
         base' = IF kind = "base" THEN number ELSE base,
         base' \in Bases \cup {0}, UNCHANGED <<data, size, start>>,
         \/ pc' = "read" /\ result' = result
         \/ kind = "other" /\ pc' = "done" /\ result' = "null"
  PROVE  Inductive'
<1> DEFINE r == [kind |-> kind, number |-> number, n |-> n]
<1>1. /\ r \in Line /\ text' = Append(text, r) /\ text' \in Seq(Line)
      /\ Len(text') = Len(text) + 1 /\ Len(text) \in Nat
      /\ base' = BaseOf(text', Len(text') + 1)
      /\ text'[Len(text')] = r
      /\ \A l \in 1 .. Len(text) : text'[l] = text[l]
  BY LineRead
<1>2. r.kind = kind /\ r.kind # "data"
  OBVIOUS
<1> HIDE DEF r
<1>3. /\ text \in Seq(Line) /\ size \in Nat /\ start \in Nat \cup {Unset}
      /\ data \in [0 .. size - 1 -> {Junk} \cup (0 .. Len(text))]
      /\ pc = "read" /\ result = "none" /\ Holds(data, size, start, text) /\ size >= Initial
      /\ \A a \in 0 .. size - 1 : a >= Initial => data[a] # Junk
  BY DEF Inductive, TypeOK, Reading, Bases0, ReadLine
<1>4. TypeOK'
  <2>1. data \in [0 .. size - 1 -> {Junk} \cup (0 .. Len(text'))]
    BY <1>1, <1>3
  <2> QED
    BY <1>3, <2>1 DEF TypeOK
<1>5. Reading'
  <2>1. Holds(data, size, start, text')
    BY <1>1, <1>2, <1>3, HoldsStable
  <2> QED
    BY <1>3, <2>1 DEF Reading
<1>6. Bases0'
  <2>1. ASSUME start' # Unset PROVE \E l \in 1 .. Len(text') : text'[l].kind = "data"
    <3>1. PICK l \in 1 .. Len(text) : text[l].kind = "data"
      BY <2>1 DEF Inductive, Bases0
    <3>2. l \in 1 .. Len(text') /\ text'[l] = text[l]
      BY <1>1, <3>1
    <3> QED
      BY <3>1, <3>2
  <2> QED
    BY <1>1, <2>1 DEF Bases0
<1>7. ImageIsFile' /\ GapsAreFilled'
  BY <1>3 DEF ImageIsFile, GapsAreFilled
<1>8. ImageIffData'
  BY <1>1, <1>2 DEF ImageIffData
<1> QED
  BY <1>4, <1>5, <1>6, <1>7, <1>8 DEF Inductive

LEMMA DataStep ==
  ASSUME Inductive, NEW address \in Addresses, NEW n \in Lengths, Data(address, n)
  PROVE  Inductive'
<1> DEFINE r == [kind |-> "data", number |-> address, n |-> n]
           full == base + address
           last == Len(text) + 1
<1>1. /\ address \in Nat /\ n \in Nat /\ base \in Nat /\ Initial \in Nat
      /\ ReadLine("data", address, n) /\ UNCHANGED <<pc, base, result>>
  BY HexAssumption DEF Data, Inductive, TypeOK
<1>2. /\ r \in Line /\ text' = Append(text, r) /\ text' \in Seq(Line)
      /\ Len(text') = last /\ Len(text) \in Nat
      /\ base' = BaseOf(text', Len(text') + 1)
      /\ text'[last] = r
  BY <1>1, LineRead
<1>3. r.kind = "data" /\ r.n = n /\ r.number = address
  OBVIOUS
<1> HIDE DEF r
<1>4. /\ text \in Seq(Line) /\ size \in Nat /\ start \in Nat \cup {Unset}
      /\ data \in [0 .. size - 1 -> {Junk} \cup (0 .. Len(text))]
      /\ pc = "read" /\ result = "none" /\ Holds(data, size, start, text) /\ size >= Initial
      /\ \A a \in 0 .. size - 1 : a >= Initial => data[a] # Junk
      /\ base = BaseOf(text, Len(text) + 1)
  BY <1>1 DEF Inductive, TypeOK, Reading, Bases0, ReadLine
<1>5. /\ size' = IF full + n > size THEN full + n ELSE size
      /\ data' = [a \in 0 .. size' - 1 |->
                    IF a \in full .. full + n - 1 THEN last
                    ELSE IF a < size THEN data[a] ELSE Fill]
      /\ start' = Lowest(full)
  <2>1. /\ size' = IF full + n > size THEN full + n ELSE size
        /\ data' = [a \in DOMAIN Grown |->
                      IF a \in full .. full + n - 1 THEN Len(text') ELSE Grown[a]]
        /\ start' = Lowest(full)
    BY DEF Data
  <2>2. Grown = [a \in 0 .. size' - 1 |-> IF a < size THEN data[a] ELSE Fill]
    BY DEF Grown
  <2>3. data' = [a \in 0 .. size' - 1 |->
                    IF a \in full .. full + n - 1 THEN Len(text')
                    ELSE IF a < size THEN data[a] ELSE Fill]
    BY <2>1, <2>2
  <2> QED
    BY <1>2, <2>1, <2>3
<1>6. /\ full \in Nat /\ size' \in Nat /\ size <= size' /\ full + n <= size'
      /\ start' \in Nat /\ start' <= full /\ (start # Unset => start' <= start)
  <2>1. full \in Nat
    BY <1>1
  <2> HIDE DEF full
  <2> QED
    BY <1>1, <1>4, <1>5, <2>1 DEF Lowest, Unset
<1>7. full = BaseOf(text, Len(text) + 1) + r.number
  BY <1>3, <1>4
<1> HIDE DEF full, last
<1>8. Holds(data', size', start', text')
  <2>1. Written(data', size', data, size, full, r.n, Len(text) + 1)
    BY <1>3, <1>5 DEF last, Written
  <2>2. full + r.n <= size'
    BY <1>3, <1>6
  <2>3. Holds(data', size', start', Append(text, r))
    BY <1>2, <1>3, <1>4, <1>6, <1>7, <2>1, <2>2, HoldsData, Zenon
  <2> QED
    BY <1>2, <2>3
<1>9. TypeOK'
  <2>1. \A a \in 0 .. size - 1 : data[a] \in {Junk} \cup (0 .. Len(text))
    BY <1>4
  <2>2. data' \in [0 .. size' - 1 -> {Junk} \cup (0 .. Len(text'))]
    BY <1>2, <1>4, <1>5, <1>6, <2>1 DEF last, Fill
  <2> QED
    BY <1>1, <1>4, <1>6, <2>2 DEF TypeOK, Inductive
<1>10. Reading'
  <2>1. \A a \in 0 .. size' - 1 : a >= Initial => data'[a] # Junk
    BY <1>2, <1>4, <1>5, <1>6 DEF last, Fill, Junk
  <2>2. size' >= Initial
    BY <1>1, <1>4, <1>6, SMT
  <2>3. pc' = "read" /\ result' = "none"
    BY <1>1, <1>4
  <2> QED
    BY <1>8, <2>1, <2>2, <2>3 DEF Reading
<1>11. Bases0'
  <2>1. last \in 1 .. Len(text') /\ text'[last].kind = "data"
    BY <1>2, <1>3 DEF last
  <2> QED
    BY <1>2, <2>1 DEF Bases0
<1>12. ImageIsFile' /\ GapsAreFilled' /\ ImageIffData'
  BY <1>1, <1>4 DEF ImageIsFile, GapsAreFilled, ImageIffData
<1> QED
  BY <1>8, <1>9, <1>10, <1>11, <1>12 DEF Inductive

LEMMA FinishStep ==
  ASSUME Inductive, Finish
  PROVE  Inductive'
<1>1. /\ pc = "read" /\ pc' = "done" /\ UNCHANGED <<base, start, text>>
      /\ IF start # Unset /\ size > start
           THEN data' = CutFront /\ size' = size - start /\ result' = "image"
           ELSE result' = "null" /\ UNCHANGED <<data, size>>
  BY DEF Finish
<1>2. /\ text \in Seq(Line) /\ size \in Nat /\ start \in Nat \cup {Unset}
      /\ data \in [0 .. size - 1 -> {Junk} \cup (0 .. Len(text))]
      /\ Holds(data, size, start, text) /\ size >= Initial
      /\ \A a \in 0 .. size - 1 : a >= Initial => data[a] # Junk
      /\ start # Unset => \E l \in 1 .. Len(text) : text[l].kind = "data"
  BY <1>1 DEF Inductive, TypeOK, Reading, Bases0
<1>3. Bases0' /\ Reading'
  BY <1>1 DEF Inductive, Bases0, Reading
<1>4. CASE start # Unset /\ size > start
  <2>1. /\ start \in Nat /\ size' = size - start /\ size' \in Nat /\ result' = "image"
        /\ data' = [a \in 0 .. size' - 1 |-> data[a + start]]
    BY <1>1, <1>2, <1>4 DEF CutFront, Unset
  <2>2. \A x \in 0 .. size' - 1 : x + start \in 0 .. size - 1 /\ data'[x] = data[x + start]
    BY <1>2, <2>1
  <2>3. \A x \in 0 .. size' - 1 : data'[x] \in {Junk} \cup (0 .. Len(text))
    BY <1>2, <2>2
  <2>4. data' \in [0 .. size' - 1 -> {Junk} \cup (0 .. Len(text'))]
    BY <1>1, <2>1, <2>3
  <2>5. TypeOK'
    BY <1>1, <2>1, <2>4 DEF Inductive, TypeOK
  <2>6. ImageIsFile'
    <3>1. ASSUME NEW l \in 1 .. Len(text), NEW a \in 0 .. start + size', Says(text, l, a)
          PROVE  a - start \in DOMAIN data' /\ data'[a - start] >= l
      <4>1. start <= a /\ a < size /\ data[a] >= l /\ a \in Nat
        BY <1>2, <2>1, <3>1 DEF Holds
      <4>2. a - start \in 0 .. size' - 1 /\ (a - start) + start = a
        BY <1>2, <2>1, <4>1
      <4> QED
        BY <2>1, <2>2, <4>1, <4>2
    <3>2. ASSUME NEW x \in DOMAIN data', data'[x] > 0
          PROVE  Says(text, data'[x], x + start)
      BY <1>2, <2>1, <2>2, <3>2 DEF Holds
    <3> QED
      BY <1>1, <3>1, <3>2 DEF ImageIsFile
  <2>7. GapsAreFilled'
    BY <1>1, <1>2, <2>1, <2>2 DEF GapsAreFilled
  <2>8. ImageIffData'
    BY <1>1, <1>2, <1>4, <2>1 DEF ImageIffData
  <2> QED
    BY <1>3, <2>5, <2>6, <2>7, <2>8 DEF Inductive
<1>5. CASE ~(start # Unset /\ size > start)
  <2>1. result' = "null" /\ UNCHANGED <<data, size>>
    BY <1>1, <1>5
  <2>2. TypeOK' /\ ImageIsFile' /\ GapsAreFilled'
    BY <1>1, <2>1 DEF Inductive, TypeOK, ImageIsFile, GapsAreFilled
  <2>3. ASSUME NEW l \in 1 .. Len(text), text[l].kind = "data", text[l].n > 0
        PROVE  FALSE
    <3> DEFINE a == BaseOf(text, l) + text[l].number
    <3>1. BaseOf(text, l) \in Nat /\ text[l].number \in Nat /\ text[l].n \in Nat
      <4>1. text[l] \in Line /\ l \in 1 .. Len(text) + 1
        BY <1>2
      <4> QED
        BY <1>2, <4>1, BaseIsNat DEF Line
    <3>2. a \in Nat /\ Says(text, l, a)
      BY <2>3, <3>1 DEF Says
    <3> HIDE DEF a
    <3>3. start # Unset /\ start <= a /\ a < size
      BY <1>2, <3>2 DEF Holds
    <3> QED
      BY <1>2, <1>5, <3>2, <3>3 DEF Unset
  <2>4. ImageIffData'
    BY <1>1, <2>1, <2>3 DEF ImageIffData
  <2> QED
    BY <1>3, <2>2, <2>4 DEF Inductive
<1> QED
  BY <1>4, <1>5

(* Every reachable state satisfies the invariant.                          *)
THEOREM InductiveHolds == Spec => []Inductive
<1>1. Inductive /\ [Next]_vars => Inductive'
  <2> SUFFICES ASSUME Inductive, [Next]_vars PROVE Inductive'
    OBVIOUS
  <2>1. CASE Open
    BY <2>1, OpenStep
  <2>2. CASE OpenFails
    BY <2>2 DEF OpenFails, Inductive, TypeOK, Reading, Bases0, ImageIsFile, GapsAreFilled,
                ImageIffData
  <2>3. CASE Refuse
    BY <2>3, QuietStep DEF Refuse, Inductive, TypeOK
  <2>4. CASE Finish
    BY <2>4, FinishStep
  <2>5. ASSUME NEW a \in Addresses, NEW n \in Lengths, Data(a, n) PROVE Inductive'
    BY <2>5, DataStep
  <2>6. ASSUME NEW b \in Bases, Extended(b) PROVE Inductive'
    <3>1. b \in Nat /\ pc = "read" /\ ReadLine("base", b, 0)
      BY <2>6, HexAssumption DEF Extended, ReadLine
    <3> QED
      BY <2>6, <3>1, QuietStep DEF Extended
  <2>7. ASSUME NEW kind \in {"end", "damaged"}, Pass(kind) PROVE Inductive'
    BY <2>7, QuietStep DEF Pass, ReadLine, Inductive, TypeOK
  <2>8. CASE UNCHANGED vars
    BY <2>8 DEF vars, Inductive, TypeOK, Reading, Bases0, ImageIsFile, GapsAreFilled,
                ImageIffData
  <2> QED
    BY <2>1, <2>2, <2>3, <2>4, <2>5, <2>6, <2>7, <2>8 DEF Next
<1> QED
  BY InitInductive, <1>1, PTL DEF Spec

(* The buffer has the size it is said to have (hex2bin.c:65-72, 127-131).  *)
THEOREM TypeCorrect == Spec => []TypeOK
<1>1. Inductive => TypeOK
  BY DEF Inductive
<1> QED
  BY <1>1, InductiveHolds, PTL

(* The image is what the undamaged records say (hex2bin.c:60-77, 127-131). *)
THEOREM ImageMatches == Spec => []ImageIsFile
<1>1. Inductive => ImageIsFile
  BY DEF Inductive
<1> QED
  BY <1>1, InductiveHolds, PTL

(* Gaps beyond the first buffer are 0xFF (hex2bin.c:69).                   *)
THEOREM GapsFilled == Spec => []GapsAreFilled
<1>1. Inductive => GapsAreFilled
  BY DEF Inductive
<1> QED
  BY <1>1, InductiveHolds, PTL

(* Data give an image, and nothing else does (hex2bin.c:119-136).          *)
THEOREM DataGiveImage == Spec => []ImageIffData
<1>1. Inductive => ImageIffData
  BY DEF Inductive
<1> QED
  BY <1>1, InductiveHolds, PTL
=============================================================================
