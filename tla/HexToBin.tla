------------------------------ MODULE HexToBin ------------------------------
(***************************************************************************)
(* hex2bin_convert: an Intel HEX file is read line by line into a buffer   *)
(* that stands for the memory from address 0 up, and the part below the    *)
(* lowest address is cut off at the end.  The update command sends what is *)
(* left, so this is the image the device gets.                             *)
(*                                                                         *)
(* A byte is the number of the line it came from, or Fill, or Junk.  A     *)
(* line is a record or damaged; its characters and its checksum are left   *)
(* out, and so are addresses beyond 32 bits.  The program converts one     *)
(* file, so the static extended_linear_address begins at zero.             *)
(***************************************************************************)
EXTENDS Integers, Sequences

CONSTANTS
  Addresses,   (* 16-bit addresses of data records                         *)
  Bases,       (* extended addresses, shifted into place                   *)
  Lengths,     (* data bytes of a record                                   *)
  Initial,     (* INITIAL_BUFFER_SIZE                                      *)
  MaxLines     (* bound on the lines of the file                           *)

ASSUME HexAssumption ==
  /\ Addresses \subseteq Nat /\ Bases \subseteq Nat /\ Lengths \subseteq Nat
  /\ Initial \in Nat /\ MaxLines \in Nat

VARIABLES
  pc,        (* "open", "read" or "done"                                   *)
  base,      (* extended_linear_address                                    *)
  data,      (* bin_data->data, from 0 on                                  *)
  size,      (* bin_data->size                                             *)
  start,     (* bin_data->start_address                                    *)
  result,    (* "none", "image" or "null"                                  *)
  text       (* history: the lines read                                    *)

vars == <<pc, base, data, size, start, result, text>>

Fill  == 0     (* what memset writes into new memory                       *)
Junk  == -1    (* what malloc finds                                        *)
Unset == -1    (* UINT32_MAX as a start address                            *)

Init ==
  /\ pc = "open" /\ base = 0 /\ data = << >> /\ size = 0 /\ start = Unset
  /\ result = "none" /\ text = << >>

-----------------------------------------------------------------------------
(* There is no such file, or no memory.                                    *)
OpenFails ==
  /\ pc = "open"
  /\ pc' = "done" /\ result' = "null"
  /\ UNCHANGED <<base, data, size, start, text>>

Open ==
  /\ pc = "open"
  /\ pc' = "read"
  /\ data' = [a \in 0 .. Initial - 1 |-> Junk] /\ size' = Initial
  /\ UNCHANGED <<base, start, result, text>>

ReadLine(kind, number, n) ==
  /\ pc = "read" /\ Len(text) < MaxLines
  /\ text' = Append(text, [kind |-> kind, number |-> number, n |-> n])

(* Mutant: new memory is left as realloc returns it.                       *)
GrownRaw == [a \in 0 .. size' - 1 |-> IF a < size THEN data[a] ELSE Junk]

(* The buffer as it grows.                                                 *)
Grown == [a \in 0 .. size' - 1 |-> IF a < size THEN data[a] ELSE Fill]

(* Mutant: the first record decides.                                       *)
LowestFirst(a) == IF start = Unset THEN a ELSE start

(* Mutant: UINT32_MAX compares as -1.                                      *)
LowestSigned(a) == IF a < start THEN a ELSE start

Lowest(a) == IF start = Unset \/ a < start THEN a ELSE start

(* Type 0x00.                                                              *)
Data(address, n) ==
  /\ ReadLine("data", address, n)
  /\ LET full == base + address
     IN /\ size' = IF full + n > size THEN full + n ELSE size
        /\ data' = [a \in DOMAIN Grown |->
                      IF a \in full .. full + n - 1 THEN Len(text') ELSE Grown[a]]
        /\ start' = Lowest(full)
  /\ UNCHANGED <<pc, base, result>>

(* Types 0x02 and 0x04.                                                    *)
Extended(b) ==
  /\ ReadLine("base", b, 0)
  /\ base' = b
  /\ UNCHANGED <<pc, data, size, start, result>>

(* Type 0x01, which does not end the file; and a line that is passed over: *)
(* it has no colon or a wrong checksum, or does not fit fgets' buffer.     *)
Pass(kind) ==
  /\ ReadLine(kind, 0, 0)
  /\ UNCHANGED <<pc, base, data, size, start, result>>

(* Any other type, or no memory to grow.                                   *)
Refuse ==
  /\ ReadLine("other", 0, 0)
  /\ pc' = "done" /\ result' = "null"
  /\ UNCHANGED <<base, data, size, start>>

(* What is in front of the lowest address goes.                            *)
CutFront == [a \in 0 .. size - start - 1 |-> data[a + start]]

(* After the last line; without data the start is beyond any size.         *)
Finish ==
  /\ pc = "read"
  /\ pc' = "done"
  /\ IF start # Unset /\ size > start
       THEN data' = CutFront /\ size' = size - start /\ result' = "image"
       ELSE result' = "null" /\ UNCHANGED <<data, size>>
  /\ UNCHANGED <<base, start, text>>

Next ==
  \/ Open \/ OpenFails \/ Refuse \/ Finish
  \/ \E a \in Addresses, n \in Lengths : Data(a, n)
  \/ \E b \in Bases : Extended(b)
  \/ \E kind \in {"end", "damaged"} : Pass(kind)

Spec == Init /\ [][Next]_vars

-----------------------------------------------------------------------------
(* Every variable keeps its range, and the buffer has the size it is said  *)
(* to have (hex2bin.c:66-73, 131-137).                                     *)
TypeOK ==
  /\ pc \in {"open", "read", "done"} /\ result \in {"none", "image", "null"}
  /\ base \in Bases \cup {0} /\ size \in Nat
  /\ data \in [0 .. size - 1 -> {Junk} \cup (0 .. Len(text))]
  /\ start \in Nat \cup {Unset}

(* What the file means: a record's addresses are relative to the extended  *)
(* address in front of it, and of two that meet the later one counts.      *)
IsBase(t, k, l) ==
  /\ k \in 1 .. l - 1 /\ t[k].kind = "base"
  /\ \A j \in k + 1 .. l - 1 : t[j].kind # "base"

BaseOf(t, l) ==
  IF \E k \in 1 .. l - 1 : IsBase(t, k, l)
    THEN t[CHOOSE k \in 1 .. l - 1 : IsBase(t, k, l)].number ELSE 0

Says(t, l, a) ==
  /\ t[l].kind = "data"
  /\ a - BaseOf(t, l) - t[l].number \in 0 .. t[l].n - 1

(* The image is the file's: at every address that an undamaged record      *)
(* names stands its latest byte, and no other address holds a byte of the  *)
(* file (hex2bin.c:60-77, 131-137).                                        *)
ImageIsFile ==
  result = "image" =>
    /\ \A l \in 1 .. Len(text), a \in 0 .. start + size :
         Says(text, l, a) => a - start \in DOMAIN data /\ data[a - start] >= l
    /\ \A x \in DOMAIN data : data[x] > 0 => Says(text, data[x], x + start)

(* What the file leaves open is 0xFF beyond the first buffer               *)
(* (hex2bin.c:70).                                                         *)
GapsAreFilled ==
  result = "image" =>
    \A x \in DOMAIN data : x + start >= Initial => data[x] # Junk

(* A file without an undamaged data record gives no image, and one with a  *)
(* byte of data that nothing refused gives one (hex2bin.c:114-140).        *)
ImageIffData ==
  (pc = "done" /\ text # << >> /\ text[Len(text)].kind # "other") =>
    /\ result = "image" => \E l \in 1 .. Len(text) : text[l].kind = "data"
    /\ (\E l \in 1 .. Len(text) : text[l].kind = "data" /\ text[l].n > 0) => result = "image"

(* "Trim unused space" (hex2bin.c:131): the image ends with a byte of the  *)
(* file.                                                                   *)
NothingUnusedIsLeft == result = "image" => data[size - 1] > 0
=============================================================================
