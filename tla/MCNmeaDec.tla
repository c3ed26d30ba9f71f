----------------------------- MODULE MCNmeaDec -----------------------------
(* A buffer of six bytes, headers of one byte.  The checksum is a parity   *)
(* to which '$', 'G' and the only digit, 8, count; a line feed is a blank; *)
(* 7 is a message type.                                                    *)
EXTENDS NmeaDec

MCXor(s) == Cardinality({i \in DOMAIN s : s[i] \in {1, 2, 8}}) % 2
MCHex(s) ==
  IF \E i \in DOMAIN s : s[i] = 8 /\ \A j \in 1 .. i - 1 : s[j] = 6 THEN 1 ELSE 0
MCKind(h) == IF h[1] = 2 THEN 7 ELSE NUL
=============================================================================
