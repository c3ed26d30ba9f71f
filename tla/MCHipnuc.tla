------------------------------ MODULE MCHipnuc ------------------------------
(* Small instances of the decoder for TLC.                                 *)
EXTENDS HipnucStream, SequencesExt

MCCrc(s) == FoldLeft(LAMBDA x, y : x + y, 0, s) % 3
=============================================================================
