--------------------------- MODULE MCHipnucReader ---------------------------
(* A small instance for TLC: two groups, one member from the accelerations *)
(* and two from the attitude, of which one is finished in place.  The      *)
(* accelerations come alone or, in a packet, with the attitude.            *)
EXTENDS HipnucPayload

MCGroupOf == [f \in Fields |-> IF f = "acc" THEN "acc" ELSE "eul"]
MCKinds == {{"acc", "eul"}, {"acc"}, {}}

MCItems == {"acc", "91", "92", "usr", "other"}
MCSize == [i \in MCItems |->
             CASE i \in {"acc", "usr"} -> 2 [] i \in {"91", "92"} -> 4 [] OTHER -> 1]
MCAt == [p \in MCItems \X Groups |->
           CASE p = <<"acc", "acc">> -> {1}
             [] p = <<"91", "acc">> -> {1, 2}
             [] p = <<"91", "eul">> -> {3}
             [] OTHER -> {}]
MCTagOf == [i \in MCItems |->
              CASE i \in {"acc", "91"} -> "hi91" [] i = "92" -> "hi92" [] OTHER -> "none"]
=============================================================================
