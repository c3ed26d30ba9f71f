------------------------- MODULE HipnucReaderProofs -------------------------
(***************************************************************************)
(* Proofs about the reader thread and the control thread, for any groups,  *)
(* members, kinds of frames and chunk sizes.                               *)
(***************************************************************************)
EXTENDS HipnucPayload, WellFoundedInduction, TLAPS

(* A member agrees with the others of its group and is finished.           *)
Settled ==
  \A f \in Fields :
    /\ shared[f].whole
    /\ \A g \in Fields : GroupOf[f] = GroupOf[g] => shared[f].sample = shared[g].sample

(* Nothing is half published outside a publication, and a member that is   *)
(* written already holds the decoder's sample; samples only get older on   *)
(* their way to the control thread; a quiet copy repeats what is shared.   *)
Coherent ==
  /\ thread # "publish" => todo = {} /\ Settled
  /\ thread = "publish" => \A f \in Fields \ todo : shared[f] = Whole(hi91[GroupOf[f]])
  /\ \A g \in Groups : hi91[g] <= frames
  /\ \A f \in Fields : shared[f].sample <= hi91[GroupOf[f]]
  /\ \A f \in Fields : copy[f].sample <= shared[f].sample
  /\ quiet => thread # "publish"
  /\ quiet => \A f \in Fields \ left : copy[f] = shared[f]

Inductive == TypeOK /\ Coherent

(* The fields of the records that mark a sample.                           *)
LEMMA Marks ==
  ASSUME NEW n \in 0 .. MaxFrame
  PROVE  /\ Whole(n) \in Sample /\ Whole(n).sample = n /\ Whole(n).whole
         /\ Part(n) \in Sample /\ Part(n).sample = n
  BY DEF Whole, Part, Sample

(* Before the threads run nothing is published and everything agrees.      *)
LEMMA InitInductive == Init => Inductive
<1> SUFFICES ASSUME Init PROVE Inductive
  OBVIOUS
<1> USE ReaderAssumption
<1>1. TypeOK
  BY DEF Init, TypeOK, Sample, Whole
<1>2. Coherent
  BY DEF Init, Coherent, Settled, Whole
<1> QED
  BY <1>1, <1>2 DEF Inductive

(* Every step of either thread keeps the invariant.                        *)
LEMMA NextInductive == Inductive /\ [Next]_vars => Inductive'
<1> SUFFICES ASSUME Inductive, [Next]_vars PROVE Inductive'
  OBVIOUS
<1> USE ReaderAssumption
<1> USE DEF Inductive, reader, control
<1>1. CASE StartFails
  BY <1>1 DEF StartFails, TypeOK, Coherent, Settled
<1>2. CASE Start
  BY <1>2 DEF Start, TypeOK, Coherent, Settled
<1>3. ASSUME NEW kind \in Kinds, Decode(kind) PROVE Inductive'
  <2>1. TypeOK'
    BY <1>3 DEF Decode, TypeOK
  <2>2. \A g \in Groups : hi91'[g] >= hi91[g] /\ hi91'[g] <= frames'
    BY <1>3 DEF Decode, TypeOK, Coherent
  <2>3. \A f \in Fields : shared'[f].sample <= hi91'[GroupOf[f]]
    <3> SUFFICES ASSUME NEW f \in Fields PROVE shared'[f].sample <= hi91'[GroupOf[f]]
      OBVIOUS
    <3>1. /\ GroupOf[f] \in Groups /\ shared' = shared
          /\ shared[f].sample \in Nat /\ hi91[GroupOf[f]] \in Nat /\ hi91'[GroupOf[f]] \in Nat
      BY <1>3, <2>1 DEF Decode, TypeOK, Sample
    <3>2. shared[f].sample <= hi91[GroupOf[f]]
      BY DEF Coherent
    <3> QED
      BY <2>2, <3>1, <3>2
  <2>4. Coherent'
    BY <1>3, <2>2, <2>3 DEF Decode, Coherent, Settled
  <2> QED
    BY <2>1, <2>4
<1>4. CASE Publish
  <2>1. TypeOK'
    <3>1. inChunk' \in 0 .. MaxChunk
      BY <1>4, MaxChunk \in Nat DEF Publish
    <3>2. todo' \subseteq Fields /\ half' \subseteq todo'
      BY <1>4 DEF Publish, TypeOK
    <3> QED
      BY <1>4, <3>1, <3>2 DEF Publish, TypeOK
  <2>2. Coherent'
    BY <1>4 DEF Publish, TypeOK, Coherent
  <2> QED
    BY <2>1, <2>2
<1>5. ASSUME NEW f \in Fields, WritePart(f) \/ Write(f) PROVE Inductive'
  <2> DEFINE n == hi91[GroupOf[f]]
  <2>1. n \in 0 .. MaxFrame
    BY DEF TypeOK
  <2>2. thread = "publish" /\ f \in todo /\ ~quiet
    BY <1>5 DEF WritePart, Write, TypeOK, Coherent
  <2>3. PICK v \in {Whole(n), Part(n)} : shared' = [shared EXCEPT ![f] = v]
    BY <1>5 DEF WritePart, Write
  <2>4. v \in Sample /\ v.sample = n
    BY <2>1, <2>3, Marks
  <2>5. /\ shared' \in [Fields -> Sample]
        /\ shared'[f] = v
        /\ \A g \in Fields \ {f} : shared'[g] = shared[g]
    BY <2>3, <2>4 DEF TypeOK
  <2>6. UNCHANGED <<thread, result, frames, inChunk, hi91, left, copy, quiet>>
    BY <1>5 DEF WritePart, Write
  <2>7. TypeOK'
    <3>1. todo' \subseteq Fields /\ half' \subseteq todo'
      BY <1>5 DEF WritePart, Write, TypeOK
    <3> QED
      BY <2>5, <2>6, <3>1 DEF TypeOK
  <2>8. \A g \in Fields \ todo' : shared'[g] = Whole(hi91'[GroupOf[g]])
    BY <1>5, <2>2, <2>5, <2>6 DEF WritePart, Write, TypeOK, Coherent
  <2>9. \A g \in Fields : shared'[g].sample <= hi91'[GroupOf[g]]
    <3> SUFFICES ASSUME NEW g \in Fields PROVE shared'[g].sample <= hi91'[GroupOf[g]]
      OBVIOUS
    <3>1. CASE g = f
      BY <2>1, <2>4, <2>5, <2>6, <3>1
    <3>2. CASE g # f
      BY <2>5, <2>6, <3>2 DEF Coherent
    <3> QED
      BY <3>1, <3>2
  <2>10. \A g \in Fields : copy'[g].sample <= shared'[g].sample
    <3> SUFFICES ASSUME NEW g \in Fields PROVE copy'[g].sample <= shared'[g].sample
      OBVIOUS
    <3>1. CASE g = f
      <4>1. copy[f].sample <= shared[f].sample /\ shared[f].sample <= n
        BY DEF Coherent
      <4>2. copy[f].sample \in Nat /\ shared[f].sample \in Nat /\ n \in Nat
        BY <2>1 DEF TypeOK, Sample
      <4>3. copy'[g].sample = copy[f].sample /\ shared'[g].sample = n
        BY <2>4, <2>5, <2>6, <3>1
      <4> QED
        BY <4>1, <4>2, <4>3
    <3>2. CASE g # f
      BY <2>5, <2>6, <3>2 DEF Coherent
    <3> QED
      BY <3>1, <3>2
  <2>11. Coherent'
    BY <2>2, <2>6, <2>8, <2>9, <2>10 DEF Coherent
  <2> QED
    BY <2>7, <2>11
<1>6. CASE Published
  <2>1. TypeOK'
    BY <1>6 DEF Published, TypeOK
  <2>2. \A f \in Fields : shared[f] = Whole(hi91[GroupOf[f]])
    BY <1>6 DEF Published, Coherent
  <2>3. \A f \in Fields : shared[f].whole /\ shared[f].sample = hi91[GroupOf[f]]
    <3> SUFFICES ASSUME NEW f \in Fields
                 PROVE  shared[f].whole /\ shared[f].sample = hi91[GroupOf[f]]
      OBVIOUS
    <3>1. hi91[GroupOf[f]] \in 0 .. MaxFrame
      BY DEF TypeOK
    <3> QED
      BY <2>2, <3>1, Marks
  <2>4. Settled'
    BY <1>6, <2>3 DEF Published, Settled
  <2>5. Coherent'
    BY <1>6, <2>4 DEF Published, Coherent
  <2> QED
    BY <2>1, <2>5
<1>7. CASE BeginCopy
  BY <1>7 DEF BeginCopy, TypeOK, Coherent, Settled
<1>8. ASSUME NEW f \in Fields, CopyField(f) PROVE Inductive'
  <2>1. /\ copy'[f] = shared[f]
        /\ \A g \in Fields \ {f} : copy'[g] = copy[g]
        /\ copy' \in [Fields -> Sample]
        /\ shared[f].sample \in Nat
    BY <1>8 DEF CopyField, TypeOK, Sample
  <2>2. TypeOK'
    BY <1>8, <2>1 DEF CopyField, TypeOK
  <2>3. \A g \in Fields : copy'[g].sample <= shared'[g].sample
    BY <1>8, <2>1 DEF CopyField, Coherent
  <2>4. quiet' => \A g \in Fields \ left' : copy'[g] = shared'[g]
    BY <1>8, <2>1 DEF CopyField, Coherent
  <2>5. Coherent'
    BY <1>8, <2>3, <2>4 DEF CopyField, Coherent, Settled
  <2> QED
    BY <2>2, <2>5
<1>9. CASE UNCHANGED vars
  BY <1>9 DEF vars, TypeOK, Coherent, Settled
<1> QED
  BY <1>1, <1>2, <1>3, <1>4, <1>5, <1>6, <1>7, <1>8, <1>9 DEF Next, Reading, Copying

(* Every reachable state satisfies the invariant.                          *)
THEOREM InductiveHolds == Spec => []Inductive
  BY InitInductive, NextInductive, PTL DEF Spec

(* No sample is older than none or newer than the frames, and a member is  *)
(* half written only while it is still to be published                     *)
(* (HipnucReader.cpp:100-136).                                             *)
THEOREM TypeCorrect == Spec => []TypeOK
<1>1. Inductive => TypeOK
  BY DEF Inductive
<1> QED
  BY <1>1, InductiveHolds, PTL

(* A copy that met no publication is whole, however the threads interleave *)
(* (HipnucReader.cpp:100-136).                                             *)
THEOREM QuietCopies == Spec => []QuietCopyIsWhole
<1>1. Inductive => QuietCopyIsWhole
  <2> SUFFICES ASSUME Inductive, quiet, left = {}, NEW f \in Fields
               PROVE  /\ copy[f].whole
                      /\ \A g \in Fields :
                           GroupOf[f] = GroupOf[g] => copy[f].sample = copy[g].sample
    BY DEF QuietCopyIsWhole
  <2>1. Settled /\ \A g \in Fields : copy[g] = shared[g]
    BY DEF Inductive, Coherent
  <2> QED
    BY <2>1 DEF Settled
<1> QED
  BY <1>1, InductiveHolds, PTL

(* The control thread's copy never goes back to an older sample.           *)
THEOREM CopiesOnlyAdvance == Spec => NeverGoesBack
<1> DEFINE Advances == \A f \in Fields : copy'[f].sample >= copy[f].sample
<1>1. Inductive /\ [Next]_vars => [Advances]_vars
  <2> SUFFICES ASSUME Inductive, Next, NEW f \in Fields PROVE copy'[f].sample >= copy[f].sample
    OBVIOUS
  <2>1. /\ copy[f].sample \in Nat /\ shared[f].sample \in Nat
        /\ copy[f].sample <= shared[f].sample
        /\ copy \in [Fields -> Sample]
    BY DEF Inductive, TypeOK, Coherent, Sample
  <2>2. copy'[f] = copy[f] \/ copy'[f] = shared[f]
    BY <2>1 DEF Next, StartFails, Start, Reading, Decode, Publish, WritePart, Write, Published,
                Copying, BeginCopy, CopyField, control
  <2> QED
    BY <2>1, <2>2
<1>2. Spec => [][Advances]_vars
  BY <1>1, InductiveHolds, PTL DEF Spec
<1> QED
  BY <1>2 DEF NeverGoesBack

(* The members hold the decoder's latest samples whenever no frame waits   *)
(* to be published, and a publication writes what the decoder then holds:  *)
(* it cannot be overtaken by a frame.  Each step of it finishes a member,  *)
(* begins one of those that are left, or ends it, so that the members it   *)
(* has to write only become fewer.                                         *)
LatestIsPublished ==
  thread # "publish" /\ inChunk = 0 => \A f \in Fields : shared[f] = Whole(hi91[GroupOf[f]])

PublicationMoves ==
  thread = "publish" /\ Reading =>
    /\ UNCHANGED hi91
    /\ \/ \E f \in todo : todo' = todo \ {f} /\ shared'[f] = Whole(hi91[GroupOf[f]])
       \/ \E f \in todo \ half : todo' = todo /\ half' = half \cup {f}
       \/ todo = {} /\ thread' = "decode"

SamplesMoveOn == []LatestIsPublished /\ [][PublicationMoves]_vars

(* No sample is left behind in the decoder, for any groups, members and    *)
(* kinds of frames: the safety half of SamplesArrive                       *)
(* (HipnucReader.cpp:94-140).                                              *)
THEOREM SamplesAreHandedOn == Spec => SamplesMoveOn
<1> DEFINE Latest == LatestIsPublished /\ (thread = "publish" => inChunk = 0)
<1>1. Init => Latest
  BY ReaderAssumption DEF Init, LatestIsPublished, Whole
<1>2. Inductive /\ Latest /\ [Next]_vars => Latest'
  <2> SUFFICES ASSUME Inductive, Latest, [Next]_vars PROVE Latest'
    OBVIOUS
  <2> USE DEF LatestIsPublished, reader, control
  <2>1. CASE StartFails \/ Start
    BY <2>1 DEF StartFails, Start
  <2>2. ASSUME NEW kind \in Kinds, Decode(kind) PROVE Latest'
    <3>1. inChunk' # 0 /\ thread' = "decode"
      BY <2>2 DEF Decode, Inductive, TypeOK
    <3> QED
      BY <3>1
  <2>3. CASE Publish
    BY <2>3 DEF Publish
  <2>4. ASSUME NEW f \in Fields, WritePart(f) \/ Write(f) PROVE Latest'
    <3>1. thread = "publish" /\ UNCHANGED <<thread, inChunk>>
      BY <2>4 DEF WritePart, Write, Inductive, Coherent
    <3> QED
      BY <3>1
  <2>5. CASE Published
    BY <2>5 DEF Published, Inductive, Coherent
  <2>6. CASE Copying \/ UNCHANGED vars
    <3>1. UNCHANGED <<thread, inChunk, hi91, shared>>
      BY <2>6 DEF Copying, BeginCopy, CopyField, vars
    <3> QED
      BY <3>1
  <2> QED
    BY <2>1, <2>2, <2>3, <2>4, <2>5, <2>6 DEF Next, Reading
<1>3. Inductive /\ [Next]_vars => [PublicationMoves]_vars
  <2> SUFFICES ASSUME Inductive, thread = "publish", Reading
               PROVE  /\ UNCHANGED hi91
                      /\ \/ \E f \in todo : todo' = todo \ {f} /\ shared'[f] = Whole(hi91[GroupOf[f]])
                         \/ \E f \in todo \ half : todo' = todo /\ half' = half \cup {f}
                         \/ todo = {} /\ thread' = "decode"
    BY DEF PublicationMoves
  <2>1. CASE \E f \in Fields : WritePart(f)
    BY <2>1 DEF WritePart
  <2>2. CASE \E f \in Fields : Write(f)
    BY <2>2 DEF Write, Inductive, TypeOK
  <2>3. CASE Published
    BY <2>3 DEF Published
  <2> QED
    BY <2>1, <2>2, <2>3 DEF Reading, Decode, Publish
<1> QED
  BY <1>1, <1>2, <1>3, InductiveHolds, PTL DEF Spec, SamplesMoveOn

-----------------------------------------------------------------------------
(***************************************************************************)
(* Parsing a payload.  The walk over its items is a recursion on the       *)
(* number of turns; each fact about it is shown by looking at the least    *)
(* number for which it would fail.                                         *)
(***************************************************************************)

(* A set of natural numbers that is not empty has a least element.         *)
LEMMA Least ==
  ASSUME NEW S, S \subseteq Nat, S # {}
  PROVE  \E x \in S : \A y \in S : x <= y
<1> DEFINE Below == {ss \in Nat \X Nat : ss[1] < ss[2]}
<1>1. IsWellFoundedOn(Below, Nat)
  BY NatLessThanWellFounded, Zenon DEF OpToRel
<1>2. PICK x \in S : \A y \in S : <<y, x>> \notin Below
  BY <1>1, WFMin
<1>3. ASSUME NEW y \in S PROVE x <= y
  <2>1. x \in Nat /\ y \in Nat /\ <<y, x>> \notin Below
    BY <1>2
  <2>2. ~(y < x)
    BY <2>1, Zenon
  <2> QED BY <2>1, <2>2
<1> QED BY <1>3

(* A set that no number is the first to be missing from has all of them.   *)
LEMMA AllBelow ==
  ASSUME NEW N \in Nat, NEW S, \A m \in 0 .. N : (\A k \in 0 .. m - 1 : k \in S) => m \in S
  PROVE  0 .. N \subseteq S
<1> DEFINE Missing == (0 .. N) \ S
<1>1. CASE Missing = {}
  BY <1>1
<1>2. CASE Missing # {}
  <2>1. PICK m \in Missing : \A k \in Missing : m <= k
    <3>1. Missing \subseteq Nat
      OBVIOUS
    <3> HIDE DEF Missing
    <3> QED BY <3>1, <1>2, Least
  <2>2. \A k \in 0 .. m - 1 : k \in S
    <3> TAKE k \in 0 .. m - 1
    <3>1. k \in 0 .. N /\ ~(m <= k)
      OBVIOUS
    <3> QED BY <3>1, <2>1
  <2> QED BY <2>2
<1> QED BY <1>1, <1>2

LEMMA PayloadType ==
  ASSUME NEW p \in Payloads
  PROVE  /\ Len(p) \in Nat /\ \A x \in 0 .. Len(p) - 1 : p[x + 1] \in Items
         /\ DOMAIN p = 1 .. Len(p)
<1>1. PICK n \in 0 .. MaxLen : p \in [1 .. n -> Items]
  BY DEF Payloads
<1>2. n \in Nat
  OBVIOUS
<1>3. Len(p) = n
  BY <1>1, <1>2
<1> QED BY <1>1, <1>2, <1>3

-----------------------------------------------------------------------------
(* The turns of the loop, as many as m.                                    *)
Turn(p, n, s) == IF s.ofs < Len(p) THEN Item(p, n, s) ELSE s

IsWalk(p, n, values, tags, m, f) ==
  f = [i \in 0 .. m |-> IF i = 0 THEN Begin(values, tags) ELSE Turn(p, n, f[i - 1])]

LEMMA WalkExists ==
  ASSUME NEW p, NEW n, NEW values, NEW tags, NEW N \in Nat
  PROVE  \E f : IsWalk(p, n, values, tags, N, f)
<1> DEFINE S == {m \in 0 .. N : \E f : IsWalk(p, n, values, tags, m, f)}
<1>1. ASSUME NEW m \in 0 .. N, \A k \in 0 .. m - 1 : k \in S PROVE m \in S
  <2>1. CASE m = 0
    <3> DEFINE f == [i \in 0 .. 0 |-> Begin(values, tags)]
    <3>1. IsWalk(p, n, values, tags, m, f)
      BY <2>1 DEF IsWalk
    <3> QED BY <3>1
  <2>2. CASE m # 0
    <3>1. m - 1 \in 0 .. m - 1
      BY <2>2
    <3>2. PICK f : IsWalk(p, n, values, tags, m - 1, f)
      BY <3>1, <1>1
    <3> DEFINE g == [i \in 0 .. m |-> IF i < m THEN f[i] ELSE Turn(p, n, f[m - 1])]
    <3>3. \A i \in 0 .. m - 1 :
            f[i] = IF i = 0 THEN Begin(values, tags) ELSE Turn(p, n, f[i - 1])
      BY <3>2 DEF IsWalk
    <3>4. ASSUME NEW i \in 0 .. m
          PROVE  g[i] = IF i = 0 THEN Begin(values, tags) ELSE Turn(p, n, g[i - 1])
      <4>1. CASE i < m
        <5>1. g[i] = f[i] /\ (i # 0 => g[i - 1] = f[i - 1])
          BY <4>1
        <5> QED BY <3>3, <4>1, <5>1
      <4>2. CASE i = m
        <5>1. g[i] = Turn(p, n, f[m - 1]) /\ g[i - 1] = f[m - 1]
          BY <2>2, <4>2
        <5> QED BY <2>2, <4>2, <5>1
      <4> QED BY <4>1, <4>2
    <3>5. g = [i \in 0 .. m |-> IF i = 0 THEN Begin(values, tags) ELSE Turn(p, n, g[i - 1])]
      BY <3>4
    <3>6. IsWalk(p, n, values, tags, m, g)
      <4> HIDE DEF g
      <4> QED BY <3>5 DEF IsWalk
    <3> QED BY <3>6
  <2> QED BY <2>1, <2>2
<1>2. 0 .. N \subseteq S
  <2> HIDE DEF S
  <2> QED BY <1>1, AllBelow
<1> QED BY <1>2

LEMMA WalkIs ==
  ASSUME NEW p, Len(p) \in Nat, NEW n, NEW values, NEW tags
  PROVE  \E f : /\ parse_data(p, n, values, tags) = f[Len(p)]
                /\ IsWalk(p, n, values, tags, Len(p), f)
<1> DEFINE f == CHOOSE f : IsWalk(p, n, values, tags, Len(p), f)
<1>1. IsWalk(p, n, values, tags, Len(p), f)
  BY WalkExists
<1>2. parse_data(p, n, values, tags) = f[Len(p)]
  BY Zenon DEF parse_data, IsWalk, Turn
<1> QED BY <1>1, <1>2

-----------------------------------------------------------------------------
(* Where items begin, among the first m bytes.                             *)
NextBegin(p, n, before) ==
  {x \in {n} : x = 0 \/ \E y \in before : y + Size[p[y + 1]] = x}

IsScan(p, m, f) ==
  f = [n \in 0 .. m |-> IF n = 0 THEN {} ELSE f[n - 1] \cup NextBegin(p, n - 1, f[n - 1])]

LEMMA ScanExists ==
  ASSUME NEW p, NEW N \in Nat
  PROVE  \E f : IsScan(p, N, f)
<1> DEFINE S == {m \in 0 .. N : \E f : IsScan(p, m, f)}
           Grow(n, b) == b \cup NextBegin(p, n - 1, b)
<1>1. ASSUME NEW m \in 0 .. N, \A k \in 0 .. m - 1 : k \in S PROVE m \in S
  <2>1. CASE m = 0
    <3> DEFINE f == [i \in 0 .. 0 |-> {}]
    <3>1. IsScan(p, m, f)
      BY <2>1 DEF IsScan
    <3> QED BY <3>1
  <2>2. CASE m # 0
    <3>1. m - 1 \in 0 .. m - 1
      BY <2>2
    <3>2. PICK f : IsScan(p, m - 1, f)
      BY <3>1, <1>1
    <3> DEFINE g == [i \in 0 .. m |-> IF i < m THEN f[i] ELSE Grow(m, f[m - 1])]
    <3>3. \A i \in 0 .. m - 1 : f[i] = IF i = 0 THEN {} ELSE Grow(i, f[i - 1])
      BY <3>2 DEF IsScan
    <3> HIDE DEF Grow
    <3>4. ASSUME NEW i \in 0 .. m
          PROVE  g[i] = IF i = 0 THEN {} ELSE Grow(i, g[i - 1])
      <4>1. CASE i < m
        <5>1. g[i] = f[i] /\ (i # 0 => g[i - 1] = f[i - 1])
          BY <4>1
        <5> QED BY <3>3, <4>1, <5>1
      <4>2. CASE i = m
        <5>1. g[i] = Grow(m, f[m - 1]) /\ g[i - 1] = f[m - 1]
          BY <2>2, <4>2
        <5> QED BY <2>2, <4>2, <5>1
      <4> QED BY <4>1, <4>2
    <3>5. g = [i \in 0 .. m |-> IF i = 0 THEN {} ELSE Grow(i, g[i - 1])]
      BY <3>4
    <3>6. IsScan(p, m, g)
      <4> HIDE DEF g
      <4> QED BY <3>5, Zenon DEF IsScan, Grow
    <3> QED BY <3>6
  <2> QED BY <2>1, <2>2
<1>2. 0 .. N \subseteq S
  <2> HIDE DEF S
  <2> QED BY <1>1, AllBelow
<1> QED BY <1>2

LEMMA ScanIs ==
  ASSUME NEW p, Len(p) \in Nat
  PROVE  \E f : Begins(p) = f[Len(p)] /\ IsScan(p, Len(p), f)
<1> DEFINE f == CHOOSE f : IsScan(p, Len(p), f)
<1>1. IsScan(p, Len(p), f)
  BY ScanExists
<1>2. Begins(p) = f[Len(p)]
  BY Zenon DEF Begins, IsScan, NextBegin
<1> QED BY <1>1, <1>2

(* An item begins at the start of a payload and wherever one ends, and     *)
(* nowhere else.                                                           *)
LEMMA BeginsAre ==
  ASSUME NEW p \in Payloads
  PROVE  /\ Begins(p) \subseteq 0 .. Len(p) - 1
         /\ \A x \in 0 .. Len(p) - 1 :
              x \in Begins(p) <=> x = 0 \/ \E y \in Begins(p) : y + Size[p[y + 1]] = x
         /\ \A x \in Begins(p) : p[x + 1] \in Items /\ Size[p[x + 1]] \in Nat \ {0}
<1>1. Len(p) \in Nat /\ \A x \in 0 .. Len(p) - 1 : p[x + 1] \in Items
  BY PayloadType
<1>2. PICK f : Begins(p) = f[Len(p)] /\ IsScan(p, Len(p), f)
  BY <1>1, ScanIs
<1> DEFINE N == Len(p)
           S == {m \in 0 .. N : /\ f[m] \subseteq 0 .. m - 1
                                /\ \A k \in 0 .. m : f[m] \cap (0 .. k - 1) = f[k]}
<1>3. f[0] = {} /\ \A m \in 1 .. N : f[m] = f[m - 1] \cup NextBegin(p, m - 1, f[m - 1])
  <2>1. \A m \in 0 .. N : f[m] = IF m = 0 THEN {} ELSE f[m - 1] \cup NextBegin(p, m - 1, f[m - 1])
    BY <1>2 DEF IsScan
  <2>2. 0 \in 0 .. N /\ \A m \in 1 .. N : m \in 0 .. N /\ m # 0
    BY <1>1
  <2> QED BY <2>1, <2>2
<1>4. ASSUME NEW m \in 0 .. N, \A k \in 0 .. m - 1 : k \in S PROVE m \in S
  <2>1. CASE m = 0
    BY <1>3, <2>1
  <2>2. CASE m # 0
    <3>1. m - 1 \in 0 .. m - 1 /\ m \in 1 .. N
      BY <2>2
    <3>2. f[m - 1] \subseteq 0 .. m - 2 /\ \A k \in 0 .. m - 1 : f[m - 1] \cap (0 .. k - 1) = f[k]
      <4>1. m - 1 \in S
        BY <3>1, <1>4
      <4>2. (m - 1) - 1 = m - 2
        OBVIOUS
      <4> QED BY <4>1, <4>2
    <3>3. f[m] = f[m - 1] \cup NextBegin(p, m - 1, f[m - 1]) /\ NextBegin(p, m - 1, f[m - 1]) \subseteq {m - 1}
      BY <1>3, <3>1 DEF NextBegin
    <3>4. f[m] \subseteq 0 .. m - 1
      BY <3>2, <3>3, <3>1
    <3>5. ASSUME NEW k \in 0 .. m PROVE f[m] \cap (0 .. k - 1) = f[k]
      <4>1. CASE k = m
        BY <3>4, <4>1
      <4>2. CASE k # m
        <5>1. k \in 0 .. m - 1 /\ m - 1 \notin 0 .. k - 1
          BY <4>2
        <5>2. f[m] \cap (0 .. k - 1) = f[m - 1] \cap (0 .. k - 1)
          BY <3>3, <5>1
        <5> QED BY <3>2, <5>1, <5>2
      <4> QED BY <4>1, <4>2
    <3> QED BY <3>4, <3>5
  <2> QED BY <2>1, <2>2
<1>5. 0 .. N \subseteq S
  <2> HIDE DEF S
  <2> QED BY <1>1, <1>4, AllBelow
<1>6. \A m \in 0 .. N : f[m] \subseteq 0 .. m - 1 /\ \A k \in 0 .. m : f[m] \cap (0 .. k - 1) = f[k]
  BY <1>5
<1>7. f[N] \subseteq 0 .. N - 1
  BY <1>1, <1>6
<1>8. \A x \in f[N] : p[x + 1] \in Items /\ Size[p[x + 1]] \in Nat \ {0}
  BY <1>1, <1>7, PayloadAssumption
<1>9. ASSUME NEW x \in 0 .. N - 1
      PROVE  x \in f[N] <=> x = 0 \/ \E y \in f[N] : y + Size[p[y + 1]] = x
  <2>1. x \in 0 .. N /\ x + 1 \in 1 .. N /\ x + 1 \in 0 .. N /\ N \in 0 .. N /\ (x + 1) - 1 = x
    BY <1>1
  <2>2. f[N] \cap (0 .. x) = f[x + 1] /\ f[N] \cap (0 .. x - 1) = f[x]
    BY <1>6, <2>1
  <2>3. f[x + 1] = f[x] \cup NextBegin(p, x, f[x])
    BY <1>3, <2>1
  <2>4. x \in f[N] <=> x \in NextBegin(p, x, f[x])
    BY <2>2, <2>3
  <2>5. \A y \in f[N] : y + Size[p[y + 1]] = x => y \in f[x]
    <3> SUFFICES ASSUME NEW y \in f[N], y + Size[p[y + 1]] = x PROVE y \in f[x]
      OBVIOUS
    <3>1. y \in Nat /\ Size[p[y + 1]] \in Nat \ {0}
      BY <1>7, <1>8
    <3>2. y \in 0 .. x - 1
      BY <3>1
    <3> QED BY <3>2, <2>2
  <2>6. f[x] \subseteq f[N]
    BY <2>2
  <2> QED BY <2>4, <2>5, <2>6 DEF NextBegin
<1> QED BY <1>2, <1>7, <1>8, <1>9

-----------------------------------------------------------------------------
(* Where the walk stands: at an item or at the end, with every item before *)
(* it taken, its groups and its tag.                                       *)
Before(p, s) == {x \in Begins(p) : x < s.ofs}

Carrying(p, s, g) == {x \in Before(p, s) : g \in Carries(p[x + 1])}

Stands(p, n, values, s) ==
  /\ s.ofs \in Nat /\ (s.ofs < Len(p) => s.ofs \in Begins(p))
  /\ \A x \in Before(p, s) : x + Size[p[x + 1]] <= s.ofs
  /\ \A g \in Groups :
       /\ Carrying(p, s, g) = {} => s.values[g] = values[g]
       /\ Carrying(p, s, g) # {} =>
            \E x \in Carrying(p, s, g) : /\ \A y \in Carrying(p, s, g) : y <= x
                                         /\ s.values[g] = Read(p, n, x, g)
  /\ s.tags = {TagOf[p[x + 1]] : x \in Before(p, s)} \ {"none"}

LEMMA StandsFirst ==
  ASSUME NEW p \in Payloads, NEW n, NEW values, NEW tags
  PROVE  Stands(p, n, values, Begin(values, tags))
<1> DEFINE s == Begin(values, tags)
<1>1. Len(p) \in Nat /\ Begins(p) \subseteq 0 .. Len(p) - 1
  BY PayloadType, BeginsAre
<1>2. s.ofs = 0 /\ s.values = values /\ s.tags = {}
  BY DEF Begin
<1>3. 0 < Len(p) => 0 \in Begins(p)
  BY <1>1, BeginsAre
<1>4. Before(p, s) = {} /\ \A g \in Groups : Carrying(p, s, g) = {}
  BY <1>1, <1>2 DEF Before, Carrying
<1> HIDE DEF s
<1>5. s.ofs \in Nat /\ (s.ofs < Len(p) => s.ofs \in Begins(p))
  BY <1>2, <1>3
<1>6. s.tags = {TagOf[p[x + 1]] : x \in Before(p, s)} \ {"none"}
  <2>1. {TagOf[p[x + 1]] : x \in Before(p, s)} = {}
    BY <1>4, Zenon
  <2> QED BY <1>2, <2>1
<1>7. \A g \in Groups : Carrying(p, s, g) = {} /\ s.values[g] = values[g]
  BY <1>2, <1>4, Zenon
<1>8. \A x \in Before(p, s) : x + Size[p[x + 1]] <= s.ofs
  BY <1>4, Zenon
<1>9. ASSUME NEW g \in Groups
      PROVE  /\ Carrying(p, s, g) = {} => s.values[g] = values[g]
             /\ Carrying(p, s, g) # {} =>
                  \E x \in Carrying(p, s, g) : /\ \A y \in Carrying(p, s, g) : y <= x
                                               /\ s.values[g] = Read(p, n, x, g)
  BY <1>7, Zenon
<1> QED BY <1>5, <1>6, <1>8, <1>9 DEF Stands, s

(* No item begins inside another.                                          *)
LEMMA NoneInside ==
  ASSUME NEW p \in Payloads, NEW x \in Begins(p), NEW y \in Begins(p),
         \A z \in Begins(p) : z < x => z + Size[p[z + 1]] <= x,
         y > x
  PROVE  y >= x + Size[p[x + 1]]
<1> DEFINE end == x + Size[p[x + 1]]
           Inside == {z \in Begins(p) : x < z /\ z < end}
<1>1. /\ Len(p) \in Nat /\ Begins(p) \subseteq 0 .. Len(p) - 1
      /\ \A z \in Begins(p) : Size[p[z + 1]] \in Nat \ {0}
  BY PayloadType, BeginsAre
<1>2. Inside = {}
  <2> SUFFICES ASSUME Inside # {} PROVE FALSE
    OBVIOUS
  <2>1. PICK z \in Inside : \A w \in Inside : z <= w
    <3>1. Inside \subseteq Nat
      BY <1>1
    <3> HIDE DEF Inside
    <3> QED BY <3>1, Least
  <2>2. z \in Begins(p) /\ z \in Nat /\ x \in Nat /\ z \in 0 .. Len(p) - 1 /\ z # 0
    BY <1>1
  <2>3. PICK w \in Begins(p) : w + Size[p[w + 1]] = z
    BY <2>2, BeginsAre
  <2>4. /\ w \in Nat /\ Size[p[w + 1]] \in Nat \ {0}
        /\ Size[p[x + 1]] \in Nat \ {0} /\ end \in Nat
    <3>1. Size[p[w + 1]] \in Nat \ {0} /\ Size[p[x + 1]] \in Nat \ {0}
      BY <1>1, Zenon
    <3>2. w \in 0 .. Len(p) - 1
      BY <1>1, Zenon
    <3>3. w \in Nat
      BY <1>1, <3>2
    <3>4. \A a \in Nat, b \in Nat \ {0} : a + b \in Nat
      OBVIOUS
    <3>5. end \in Nat
      BY <2>2, <3>1, <3>4, Zenon
    <3> QED BY <3>1, <3>3, <3>5, Zenon
  <2>5. w < z
    BY <2>2, <2>3, <2>4
  <2>6. CASE w < x
    <3>1. w + Size[p[w + 1]] <= x /\ x < z
      BY <2>6
    <3> QED BY <2>2, <2>3, <3>1
  <2>7. CASE w = x
    <3>1. z < end /\ end = z
      BY <2>3, <2>7
    <3> QED BY <2>2, <3>1
  <2>8. CASE w > x
    <3>1. z < end
      OBVIOUS
    <3>2. w < end /\ x < w
      BY <2>2, <2>4, <2>5, <2>8, <3>1
    <3>3. z <= w
      BY <2>1, <3>2
    <3> QED BY <2>2, <2>4, <2>5, <3>3
  <2> QED BY <2>2, <2>4, <2>6, <2>7, <2>8
<1>3. x \in Nat /\ y \in Nat /\ end \in Nat
  BY <1>1
<1>4. ~(y < end)
  BY <1>2
<1> QED BY <1>3, <1>4

LEMMA StandsNext ==
  ASSUME NEW p \in Payloads, NEW n, NEW values, NEW s, Stands(p, n, values, s), s.ofs < Len(p)
  PROVE  Stands(p, n, values, Item(p, n, s)) /\ Item(p, n, s).ofs > s.ofs
<1> DEFINE at == s.ofs
           item == p[at + 1]
           t == Item(p, n, s)
<1>1. /\ Len(p) \in Nat /\ Begins(p) \subseteq 0 .. Len(p) - 1
      /\ \A x \in Begins(p) : p[x + 1] \in Items /\ Size[p[x + 1]] \in Nat \ {0}
  BY PayloadType, BeginsAre
<1>2. at \in Nat /\ at \in Begins(p) /\ item \in Items /\ Size[item] \in Nat \ {0}
  BY <1>1 DEF Stands
<1>3. /\ t.ofs = at + Size[item]
      /\ t.values = [g \in Groups |-> IF g \in Carries(item) THEN Read(p, n, at, g)
                                      ELSE s.values[g]]
      /\ t.tags = s.tags \cup ({TagOf[item]} \ {"none"})
  BY DEF Item
<1>4. t.ofs \in Nat /\ t.ofs > at
  BY <1>2, <1>3
<1> HIDE DEF t, at, item
<1>5. Before(p, s) = {x \in Begins(p) : x < at}
  BY DEF Before, at
<1>6. \A x \in Before(p, s) : x + Size[p[x + 1]] <= at
  BY DEF Stands, at
<1>7. Before(p, t) = Before(p, s) \cup {at}
  <2>1. ASSUME NEW y \in Begins(p), y < t.ofs PROVE y \in Before(p, s) \cup {at}
    <3>1. y \in Nat
      BY <1>1
    <3>2. ~(y > at)
      <4> SUFFICES ASSUME y > at PROVE FALSE
        OBVIOUS
      <4>1. y >= at + Size[p[at + 1]]
        BY <1>2, <1>5, <1>6, NoneInside
      <4> QED BY <1>2, <1>3, <2>1, <3>1, <4>1 DEF item
    <3> QED BY <1>2, <1>5, <3>1, <3>2
  <2>2. ASSUME NEW y \in Before(p, s) \cup {at} PROVE y \in Begins(p) /\ y < t.ofs
    <3>1. y \in Begins(p) /\ y \in Nat /\ y <= at
      BY <1>1, <1>2, <1>5
    <3> QED BY <1>2, <1>4, <3>1
  <2> QED BY <2>1, <2>2 DEF Before
<1>8. t.ofs < Len(p) => t.ofs \in Begins(p)
  <2> SUFFICES ASSUME t.ofs < Len(p) PROVE t.ofs \in Begins(p)
    OBVIOUS
  <2>1. t.ofs \in 0 .. Len(p) - 1
    BY <1>1, <1>4
  <2> QED BY <1>2, <1>3, <2>1, BeginsAre DEF item
<1>9. \A x \in Before(p, t) : x + Size[p[x + 1]] <= t.ofs
  <2> TAKE x \in Before(p, t)
  <2>1. CASE x = at
    BY <1>2, <1>3, <2>1 DEF item
  <2>2. CASE x # at
    <3>1. x \in Before(p, s) /\ x \in Begins(p)
      BY <1>5, <1>7, <2>2
    <3>2. x + Size[p[x + 1]] <= at /\ x + Size[p[x + 1]] \in Nat
      BY <1>1, <1>6, <3>1
    <3> QED BY <1>2, <1>4, <3>2
  <2> QED BY <2>1, <2>2
<1>10. ASSUME NEW g \in Groups
       PROVE  /\ Carrying(p, t, g) = {} => t.values[g] = values[g]
              /\ Carrying(p, t, g) # {} =>
                   \E x \in Carrying(p, t, g) : /\ \A y \in Carrying(p, t, g) : y <= x
                                                /\ t.values[g] = Read(p, n, x, g)
  <2>1. /\ Carrying(p, s, g) = {} => s.values[g] = values[g]
        /\ Carrying(p, s, g) # {} =>
             \E x \in Carrying(p, s, g) : /\ \A y \in Carrying(p, s, g) : y <= x
                                          /\ s.values[g] = Read(p, n, x, g)
    BY DEF Stands
  <2>2. CASE g \in Carries(item)
    <3>1. at \in Carrying(p, t, g) /\ t.values[g] = Read(p, n, at, g)
      BY <1>3, <1>7, <2>2 DEF Carrying, item
    <3>2. \A y \in Carrying(p, t, g) : y <= at
      BY <1>1, <1>2, <1>5, <1>7 DEF Carrying
    <3> QED BY <3>1, <3>2
  <2>3. CASE g \notin Carries(item)
    <3>1. Carrying(p, t, g) = Carrying(p, s, g) /\ t.values[g] = s.values[g]
      BY <1>3, <1>7, <2>3 DEF Carrying, item
    <3> QED BY <2>1, <3>1
  <2> QED BY <2>2, <2>3
<1>11. t.tags = {TagOf[p[x + 1]] : x \in Before(p, t)} \ {"none"}
  <2>1. s.tags = {TagOf[p[x + 1]] : x \in Before(p, s)} \ {"none"}
    BY DEF Stands
  <2>2. {TagOf[p[x + 1]] : x \in Before(p, t)}
          = {TagOf[p[x + 1]] : x \in Before(p, s)} \cup {TagOf[item]}
    BY <1>7 DEF item
  <2> QED BY <1>3, <2>1, <2>2
<1> QED BY <1>4, <1>8, <1>9, <1>10, <1>11 DEF Stands, t, at

(* The walk reaches the end of the payload, within as many turns as it has *)
(* bytes.                                                                  *)
LEMMA WalkEnds ==
  ASSUME NEW p \in Payloads, NEW n, NEW values, NEW tags
  PROVE  /\ Stands(p, n, values, parse_data(p, n, values, tags))
         /\ parse_data(p, n, values, tags).ofs >= Len(p)
<1> DEFINE N == Len(p)
<1>1. N \in Nat
  BY PayloadType
<1>2. PICK f : parse_data(p, n, values, tags) = f[N] /\ IsWalk(p, n, values, tags, N, f)
  BY <1>1, WalkIs
<1> DEFINE S == {m \in 0 .. N : Stands(p, n, values, f[m]) /\ (f[m].ofs >= m \/ f[m].ofs >= N)}
<1>3. ASSUME NEW m \in 0 .. N, \A k \in 0 .. m - 1 : k \in S PROVE m \in S
  <2>1. f[m] = IF m = 0 THEN Begin(values, tags) ELSE Turn(p, n, f[m - 1])
    BY <1>2 DEF IsWalk
  <2>2. CASE m = 0
    <3>1. f[m] = Begin(values, tags) /\ f[m].ofs = 0
      BY <2>1, <2>2 DEF Begin
    <3> QED BY <2>2, <3>1, StandsFirst
  <2>3. CASE m # 0
    <3> DEFINE s == f[m - 1]
    <3>1. m - 1 \in S /\ f[m] = Turn(p, n, s)
      BY <2>1, <2>3, <1>3
    <3>2. Stands(p, n, values, s) /\ (s.ofs >= m - 1 \/ s.ofs >= N)
      BY <3>1
    <3>3. s.ofs \in Nat
      BY <3>2 DEF Stands
    <3> HIDE DEF s
    <3>4. CASE s.ofs < N
      <4>1. f[m] = Item(p, n, s)
        BY <3>1, <3>4 DEF Turn
      <4>2. Stands(p, n, values, f[m]) /\ f[m].ofs > s.ofs
        BY <3>2, <3>4, <4>1, StandsNext
      <4>3. f[m].ofs \in Nat
        BY <4>2 DEF Stands
      <4>4. f[m].ofs >= m \/ f[m].ofs >= N
        BY <1>1, <3>2, <3>3, <3>4, <4>2, <4>3
      <4> QED BY <4>2, <4>4
    <3>5. CASE ~(s.ofs < N)
      <4>1. f[m] = s
        BY <3>1, <3>5 DEF Turn
      <4> QED BY <1>1, <3>2, <3>3, <3>5, <4>1
    <3> QED BY <3>4, <3>5
  <2> QED BY <2>2, <2>3
<1>4. 0 .. N \subseteq S
  <2> HIDE DEF S
  <2> QED BY <1>1, <1>3, AllBelow
<1>5. N \in S
  BY <1>1, <1>4
<1> QED BY <1>2, <1>5

(* What any payload gives, in any state (hipnuc_dec.c:66-144).              *)
LEMMA PayloadMeans ==
  ASSUME NEW p \in Payloads
  PROVE  LET after == Parsed(p)
             begins == Begins(p)
         IN /\ after.ofs >= Len(p)
            /\ \A g \in Groups :
                 LET last == {x \in begins : g \in Carries(p[x + 1])}
                 IN IF last = {} THEN after.values[g] = hi91[g]
                    ELSE /\ Max(last) \in last
                         /\ Within(p, Max(last)) => after.values[g] = frames + 1
            /\ after.tags = {TagOf[p[x + 1]] : x \in begins} \ {"none"}
<1> DEFINE s == Parsed(p)
<1>1. Stands(p, frames + 1, hi91, s) /\ s.ofs >= Len(p)
  BY WalkEnds DEF Parsed
<1> HIDE DEF s
<1>2. /\ Len(p) \in Nat /\ Begins(p) \subseteq 0 .. Len(p) - 1 /\ DOMAIN p = 1 .. Len(p)
      /\ \A x \in Begins(p) : p[x + 1] \in Items /\ Size[p[x + 1]] \in Nat \ {0}
  BY PayloadType, BeginsAre
<1>3. Before(p, s) = Begins(p)
  <2>1. s.ofs \in Nat
    BY <1>1 DEF Stands
  <2> QED BY <1>1, <1>2, <2>1 DEF Before
<1>4. ASSUME NEW g \in Groups
      PROVE  LET last == {x \in Begins(p) : g \in Carries(p[x + 1])}
             IN IF last = {} THEN s.values[g] = hi91[g]
                ELSE /\ Max(last) \in last
                     /\ Within(p, Max(last)) => s.values[g] = frames + 1
  <2> DEFINE last == {x \in Begins(p) : g \in Carries(p[x + 1])}
  <2>1. last = Carrying(p, s, g)
    BY <1>3 DEF Carrying
  <2>2. CASE last = {}
    BY <1>1, <2>1, <2>2 DEF Stands
  <2>3. CASE last # {}
    <3>1. PICK x \in last : (\A y \in last : y <= x) /\ s.values[g] = Read(p, frames + 1, x, g)
      BY <1>1, <2>1, <2>3 DEF Stands
    <3>2. Max(last) = x
      <4>1. last \subseteq Nat
        BY <1>2
      <4>2. Max(last) \in last /\ \A y \in last : Max(last) >= y
        <5> HIDE DEF last
        <5> QED BY <3>1, <4>1 DEF Max
      <4>3. Max(last) \in Nat /\ x \in Nat
        BY <4>1, <4>2
      <4>4. Max(last) <= x /\ x <= Max(last)
        <5> HIDE DEF last
        <5> QED BY <3>1, <4>2, <4>3
      <4>5. \A a, b \in Nat : a <= b /\ b <= a => a = b
        OBVIOUS
      <4> QED BY <4>3, <4>4, <4>5, Zenon
    <3>3. ASSUME Within(p, x) PROVE s.values[g] = frames + 1
      <4>1. x \in Nat /\ p[x + 1] \in Items /\ x + Size[p[x + 1]] <= Len(p)
            /\ Size[p[x + 1]] \in Nat
        BY <1>2, <3>3 DEF Within
      <4>2. At[p[x + 1], g] \subseteq 1 .. Size[p[x + 1]] - 1
        BY <4>1, PayloadAssumption, Zenon
      <4>3. \A i \in 1 .. Size[p[x + 1]] - 1 : x + i + 1 \in 1 .. Len(p)
        BY <1>2, <4>1
      <4>4. \A i \in At[p[x + 1], g] : x + i + 1 \in DOMAIN p
        BY <1>2, <4>2, <4>3, Zenon
      <4> QED BY <3>1, <4>4, Zenon DEF Read
    <3>4. Within(p, Max(last)) => s.values[g] = frames + 1
      BY <3>2, <3>3, Zenon
    <3>5. Max(last) \in last
      BY <3>1, <3>2, Zenon
    <3> HIDE DEF last
    <3> QED BY <2>3, <3>4, <3>5, Zenon DEF last
  <2> QED BY <2>2, <2>3
<1>5. s.tags = {TagOf[p[x + 1]] : x \in Begins(p)} \ {"none"}
  BY <1>1, <1>3 DEF Stands
<1> QED BY <1>1, <1>4, <1>5 DEF s

(* A payload of whole items replaces the groups it carries and no other,   *)
(* and one that is cut short only damages those of its last item           *)
(* (hipnuc_dec.c:66-144).                                                  *)
THEOREM PayloadReplaces == Spec => []ReplacesWhatIsCarried
<1>1. ReplacesWhatIsCarried
  BY PayloadMeans DEF ReplacesWhatIsCarried
<1> QED BY <1>1, PTL

(* The reader's step is parse_data's: what a frame does to the decoder's   *)
(* samples at once is what the walk over some payload of whole items does  *)
(* to them item by item (hipnuc_dec.c:66-144, called from 146-208).        *)
DecodesPayload ==
  [][\A kind \in Kinds :
       Decode(kind) => \E p \in Payloads :
                         /\ WholeItems(p) /\ Carried(p) = kind
                         /\ \A g \in Groups : hi91'[g] = Parsed(p).values[g]]_vars

THEOREM DecodeIsParse == Spec => DecodesPayload
<1>1. ASSUME NEW kind \in Kinds, Decode(kind)
      PROVE  \E p \in Payloads : /\ WholeItems(p) /\ Carried(p) = kind
                                 /\ \A g \in Groups : hi91'[g] = Parsed(p).values[g]
  <2>1. PICK p \in Payloads : WholeItems(p) /\ Carried(p) = kind
    BY KindsAssumption
  <2>2. ASSUME NEW g \in Groups PROVE hi91'[g] = Parsed(p).values[g]
    <3> DEFINE last == {x \in Begins(p) : g \in Carries(p[x + 1])}
    <3>1. IF last = {} THEN Parsed(p).values[g] = hi91[g]
          ELSE /\ Max(last) \in last
               /\ Within(p, Max(last)) => Parsed(p).values[g] = frames + 1
      BY PayloadMeans
    <3>2. hi91'[g] = IF g \in kind THEN frames + 1 ELSE hi91[g]
      BY <1>1 DEF Decode
    <3>3. g \in kind <=> last # {}
      BY <2>1 DEF Carried
    <3>4. CASE last = {}
      BY <3>1, <3>2, <3>3, <3>4
    <3>5. CASE last # {}
      <4>1. Max(last) \in Begins(p)
        BY <3>1, <3>5
      <4>2. Within(p, Max(last))
        BY <2>1, <4>1 DEF WholeItems
      <4> QED BY <3>1, <3>2, <3>3, <3>5, <4>2
    <3> QED BY <3>4, <3>5
  <2> QED BY <2>1, <2>2
<1>2. [Next]_vars => [\A kind \in Kinds :
        Decode(kind) => \E p \in Payloads :
                          /\ WholeItems(p) /\ Carried(p) = kind
                          /\ \A g \in Groups : hi91'[g] = Parsed(p).values[g]]_vars
  BY <1>1
<1> QED BY <1>2, PTL DEF Spec, DecodesPayload
=============================================================================
