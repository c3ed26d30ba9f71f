--------------------------- MODULE HipnucPayload ---------------------------
(***************************************************************************)
(* parse_data, on which HipnucReader's Decode rests: the payload of an     *)
(* accepted frame is walked item by item, and each item's values replace   *)
(* those of the frames before.                                             *)
(*                                                                         *)
(* A payload is given as the items its bytes would be if the walk stopped  *)
(* there; of a group of values only the frame is kept that it is of.  What *)
(* lies behind the payload is of older frames, or of none.                 *)
(***************************************************************************)
EXTENDS HipnucReader, Sequences, FiniteSetsExt

CONSTANTS
  Items,     (* any unknown byte is an item of size one that carries nothing *)
  Size,      (* bytes of an item, its tag included                         *)
  At,        (* where in an item a group is, {} when it is not carried     *)
  TagOf,     (* the structure an item belongs to, or "none"                *)
  MaxLen     (* HIPNUC_MAX_RAW_SIZE - CH_HDR_SIZE                          *)

ASSUME PayloadAssumption ==
  /\ Size \in [Items -> Nat \ {0}] /\ MaxLen \in Nat
  /\ At \in [Items \X Groups -> SUBSET Nat]
  /\ \A i \in Items, g \in Groups : At[i, g] \subseteq 1 .. Size[i] - 1

Stale == -1    (* a value of which a byte is not of this frame             *)

Payloads == UNION {[1 .. n -> Items] : n \in 0 .. MaxLen}

(* Mutant: offsets are counted from the byte in front of the tag.          *)
ReadInFront(p, n, ofs, g) ==
  IF \A x \in At[p[ofs + 1], g] : ofs + x - 1 \in DOMAIN p THEN n ELSE Stale

(* What frame n leaves in a group that the item at ofs carries.            *)
Read(p, n, ofs, g) ==
  IF \A x \in At[p[ofs + 1], g] : ofs + x + 1 \in DOMAIN p THEN n ELSE Stale

Carries(i) == {g \in Groups : At[i, g] # {}}

(* All the tags are reset.                                                 *)
Begin(values, tags) == [ofs |-> 0, values |-> values, tags |-> {}]

(* One turn of the loop.                                                   *)
Item(p, n, s) ==
  LET item == p[s.ofs + 1]
  IN [ofs    |-> s.ofs + Size[item],
      values |-> [g \in Groups |-> IF g \in Carries(item) THEN Read(p, n, s.ofs, g)
                                   ELSE s.values[g]],
      tags   |-> s.tags \cup ({TagOf[item]} \ {"none"})]

parse_data(p, n, values, tags) ==
  LET after[turns \in 0 .. Len(p)] ==
        IF turns = 0 THEN Begin(values, tags)
        ELSE LET s == after[turns - 1]
             IN IF s.ofs < Len(p) THEN Item(p, n, s) ELSE s
  IN after[Len(p)]

-----------------------------------------------------------------------------
(* What a payload means: an item begins at its start and wherever one ends. *)
Begins(p) ==
  LET begins[n \in 0 .. Len(p)] ==
        IF n = 0 THEN {}
        ELSE begins[n - 1] \cup
               {x \in {n - 1} : x = 0 \/ \E y \in begins[n - 1] : y + Size[p[y + 1]] = x}
  IN begins[Len(p)]

Within(p, x) == x + Size[p[x + 1]] <= Len(p)

WholeItems(p) == \A x \in Begins(p) : Within(p, x)

Carried(p) == UNION {Carries(p[x + 1]) : x \in Begins(p)}

(* The kinds of frames HipnucReader's Decode is given are those of whole   *)
(* payloads.                                                               *)
ASSUME KindsAssumption == Kinds = {Carried(p) : p \in {q \in Payloads : WholeItems(q)}}

(* The next frame's payload in a decoder that holds the samples hi91, when *)
(* the frame before had every structure.                                   *)
Parsed(p) == parse_data(p, frames + 1, hi91, {TagOf[i] : i \in Items} \ {"none"})

(* Behind the first frame of a chunk and of the program, which carried the *)
(* groups of any kind; this bounds the states in which payloads are tried. *)
BehindFirstFrame == frames = 1 /\ inChunk = 1 /\ left = {}

(* A payload of whole items replaces exactly the groups it carries, as     *)
(* Decode says; of one that is cut short only the groups of its last item  *)
(* may be stale.                                                           *)
(* The tags tell which structures it carried, whatever came before and     *)
(* whatever the bytes inside its items look like (hipnuc_dec.c:66-144).    *)
ReplacesWhatIsCarried ==
  BehindFirstFrame =>
    \A p \in Payloads :
      LET after == Parsed(p)
          begins == Begins(p)
      IN /\ after.ofs >= Len(p)
         /\ \A g \in Groups :
              LET last == {x \in begins : g \in Carries(p[x + 1])}
              IN IF last = {} THEN after.values[g] = hi91[g]
                 ELSE Within(p, Max(last)) => after.values[g] = frames + 1
         /\ after.tags = {TagOf[p[x + 1]] : x \in begins} \ {"none"}

(* "ignore all previous data" (hipnuc_dec.c:71): if hi91 is there after a  *)
(* frame, it holds values of this frame only.                              *)
IgnoresPrevious ==
  BehindFirstFrame =>
    \A p \in Payloads :
      (WholeItems(p) /\ "hi91" \in Parsed(p).tags) =>
        \A g \in Groups : Parsed(p).values[g] = frames + 1
=============================================================================
