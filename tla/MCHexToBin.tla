----------------------------- MODULE MCHexToBin -----------------------------
(* A small instance of the conversion, with a first buffer of three bytes. *)
EXTENDS HexToBin
=============================================================================
