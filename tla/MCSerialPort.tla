---------------------------- MODULE MCSerialPort ----------------------------
(* A small instance for TLC: a buffer of three bytes on a line of two.     *)
EXTENDS SerialPort
=============================================================================
