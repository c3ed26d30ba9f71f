---------------------------- MODULE MCHipnucLink ----------------------------
(* A small instance of the line for TLC: frames without and with a byte of *)
(* payload, which is the first sync code.                                  *)
EXTENDS HipnucLink, SequencesExt

MCCrc(s) == FoldLeft(LAMBDA x, y : x + y, 0, s) % 2

MCFrame(payload) ==
  LET header == <<Sync1, Sync2, Len(payload), 0>>
  IN header \o <<MCCrc(header \o payload), 0>> \o payload

MCFrames == {MCFrame(<<>>), MCFrame(<<5>>)}
=============================================================================
