---------------------------- MODULE HipnucReader ----------------------------
(***************************************************************************)
(* The IMU reader thread and the control thread.  The reader decodes       *)
(* chunks of the serial stream and, after a chunk that held a frame,       *)
(* writes the members of the HipnucReader object one by one; the control   *)
(* thread copies the object on every tick.  There is no lock.              *)
(*                                                                         *)
(* A sample is the number of the frame it came from.  The unsynchronised   *)
(* accesses are a data race: the order in which one thread's writes become *)
(* visible to the other, and the order of the copy, are left open.         *)
(***************************************************************************)
EXTENDS Integers

CONSTANTS
  Groups,     (* groups of hi91_t that arrive together: acc, gyr, ...     *)
  Fields,     (* the published members                                    *)
  GroupOf,    (* the group each member is computed from                   *)
  InPlace,    (* members that first hold an intermediate result:
                 quat_no_yaw is rotated in place, zyx(1) is negated       *)
  Kinds,      (* kinds of frames, each the set of groups it carries;
                 {} is a frame of other packets, 0x92 or 0x81             *)
  MaxChunk,   (* frames that end in one chunk                             *)
  MaxFrame    (* bound on the number of frames                            *)

ASSUME ReaderAssumption ==
  /\ GroupOf \in [Fields -> Groups]
  /\ InPlace \subseteq Fields
  /\ Kinds \subseteq SUBSET Groups
  /\ MaxChunk \in Nat
  /\ MaxFrame \in Nat

VARIABLES
  thread,     (* "off", or what the reader thread does next               *)
  result,     (* what start() returned                                    *)
  frames,     (* frames decoded so far                                    *)
  inChunk,    (* of those, in the current chunk                           *)
  hi91,       (* the decoder's copy of the last sample of each group      *)
  shared,     (* the published members                                    *)
  todo,       (* members still to be written in this publication          *)
  half,       (* of those, members that hold an intermediate result       *)
  left,       (* members the control thread has still to copy; {} between
                 two ticks                                                *)
  copy,       (* its copy                                                 *)
  quiet       (* history: nothing was being published since the copy began *)

reader  == <<thread, frames, inChunk, hi91, todo, half>>
control == <<left, copy>>
vars == <<thread, result, frames, inChunk, hi91, shared, todo, half, left, copy, quiet>>

Whole(n) == [sample |-> n, whole |-> TRUE]
Part(n)  == [sample |-> n, whole |-> FALSE]

Init ==
  /\ thread = "off"
  /\ result = "none"
  /\ frames = 0
  /\ inChunk = 0
  /\ hi91 = [g \in Groups |-> 0]
  /\ shared = [f \in Fields |-> Whole(0)]
  /\ todo = {}
  /\ half = {}
  /\ left = {}
  /\ copy = [f \in Fields |-> Whole(0)]
  /\ quiet = TRUE

-----------------------------------------------------------------------------
(* start(): a port that cannot be opened or configured ends in return -1,  *)
(* which is true for a bool.                                               *)
StartFails ==
  /\ thread = "off" /\ result = "none"
  /\ result' = "true"
  /\ UNCHANGED <<reader, shared, control, quiet>>

Start ==
  /\ thread = "off" /\ result = "none"
  /\ result' = "true"
  /\ thread' = "decode"
  /\ UNCHANGED <<frames, inChunk, hi91, shared, todo, half, control, quiet>>

(* Mutant: parse_data clears the groups that a frame does not carry.       *)
DecodeClears(kind) ==
  /\ thread = "decode"
  /\ inChunk < MaxChunk /\ frames < MaxFrame
  /\ frames' = frames + 1
  /\ inChunk' = inChunk + 1
  /\ hi91' = [g \in Groups |-> IF g \in kind THEN frames' ELSE 0]
  /\ UNCHANGED <<thread, result, shared, todo, half, control, quiet>>

(* A frame of the chunk is decoded: parse_data overwrites what it carries. *)
Decode(kind) ==
  /\ thread = "decode"
  /\ inChunk < MaxChunk /\ frames < MaxFrame
  /\ frames' = frames + 1
  /\ inChunk' = inChunk + 1
  /\ hi91' = [g \in Groups |-> IF g \in kind THEN frames' ELSE hi91[g]]
  /\ UNCHANGED <<thread, result, shared, todo, half, control, quiet>>

(* Mutant: the members finished in place are forgotten.                    *)
PublishPartly ==
  /\ thread = "decode" /\ inChunk > 0
  /\ thread' = "publish"
  /\ inChunk' = 0
  /\ todo' = Fields \ InPlace
  /\ quiet' = FALSE
  /\ UNCHANGED <<result, frames, hi91, shared, half, control>>

(* Mutant: only a full chunk is published.                                 *)
PublishFullChunk ==
  /\ thread = "decode" /\ inChunk = MaxChunk
  /\ thread' = "publish"
  /\ inChunk' = 0
  /\ todo' = Fields
  /\ quiet' = FALSE
  /\ UNCHANGED <<result, frames, hi91, shared, half, control>>

(* The chunk is used up; if it held a frame the members are published.     *)
Publish ==
  /\ thread = "decode" /\ inChunk > 0
  /\ thread' = "publish"
  /\ inChunk' = 0
  /\ todo' = Fields
  /\ quiet' = FALSE
  /\ UNCHANGED <<result, frames, hi91, shared, half, control>>

WritePart(f) ==
  /\ f \in (todo \cap InPlace) \ half
  /\ half' = half \cup {f}
  /\ shared' = [shared EXCEPT ![f] = Part(hi91[GroupOf[f]])]
  /\ UNCHANGED <<thread, result, frames, inChunk, hi91, todo, control, quiet>>

Write(f) ==
  /\ f \in todo /\ (f \in InPlace => f \in half)
  /\ todo' = todo \ {f}
  /\ half' = half \ {f}
  /\ shared' = [shared EXCEPT ![f] = Whole(hi91[GroupOf[f]])]
  /\ UNCHANGED <<thread, result, frames, inChunk, hi91, control, quiet>>

Published ==
  /\ thread = "publish" /\ todo = {}
  /\ thread' = "decode"
  /\ UNCHANGED <<result, frames, inChunk, hi91, shared, todo, half, control, quiet>>

(* getIMUdata(reader) takes the reader by value.                           *)
BeginCopy ==
  /\ result # "none" /\ left = {}
  /\ left' = Fields
  /\ quiet' = (thread # "publish")
  /\ UNCHANGED <<reader, result, shared, copy>>

CopyField(f) ==
  /\ f \in left
  /\ left' = left \ {f}
  /\ copy' = [copy EXCEPT ![f] = shared[f]]
  /\ UNCHANGED <<reader, result, shared, quiet>>

Reading ==
  \/ \E kind \in Kinds : Decode(kind)
  \/ Publish
  \/ \E f \in Fields : WritePart(f) \/ Write(f)
  \/ Published

Copying == BeginCopy \/ \E f \in Fields : CopyField(f)

Next == StartFails \/ Start \/ Reading \/ Copying

(* Both threads run; frames need not keep coming.                          *)
Spec ==
  /\ Init /\ [][Next]_vars
  /\ WF_vars(Publish)
  /\ WF_vars(\E f \in Fields : WritePart(f) \/ Write(f))
  /\ WF_vars(Published)
  /\ WF_vars(Copying)

-----------------------------------------------------------------------------
Sample == [sample : 0 .. MaxFrame, whole : BOOLEAN]

(* Every variable keeps its range.                                         *)
TypeOK ==
  /\ thread \in {"off", "decode", "publish"}
  /\ result \in {"none", "true", "false"}
  /\ frames \in 0 .. MaxFrame
  /\ inChunk \in 0 .. MaxChunk
  /\ hi91 \in [Groups -> 0 .. MaxFrame]
  /\ shared \in [Fields -> Sample]
  /\ todo \subseteq Fields
  /\ half \subseteq todo
  /\ left \subseteq Fields
  /\ copy \in [Fields -> Sample]
  /\ quiet \in BOOLEAN

(* No member of the control thread's copy ever goes back to an older       *)
(* sample, however the threads interleave and whatever packets the frames  *)
(* carry (hipnuc_dec.c:72-74, HipnucReader.cpp:100-136).                   *)
NeverGoesBack ==
  [][\A f \in Fields : copy'[f].sample >= copy[f].sample]_vars

(* A copy during which nothing was being published is whole: no member     *)
(* holds an intermediate result and members computed from the same data    *)
(* agree (HipnucReader.cpp:100-136).                                       *)
QuietCopyIsWhole ==
  (quiet /\ left = {}) =>
    \A f \in Fields :
      /\ copy[f].whole
      /\ \A g \in Fields : GroupOf[f] = GroupOf[g] => copy[f].sample = copy[g].sample

(* Every sample the decoder holds, or a newer one, reaches the control     *)
(* thread in all the members computed from it (HipnucReader.cpp:94-140).   *)
SamplesArrive ==
  \A f \in Fields : \A n \in 1 .. MaxFrame :
    (hi91[GroupOf[f]] = n) ~> (copy[f].sample >= n)

(* start() tells a port it could not open (linux/test.cpp:34-36).          *)
StartTellsFailure == (result = "true") => (thread # "off")
=============================================================================
