-------------------------- MODULE MCFirmwareUpdate --------------------------
(* A small instance for TLC: an image of five units, packets of at most  *)
(* two, and a length field that wraps around at four.                      *)
EXTENDS FirmwareUpdate
=============================================================================
