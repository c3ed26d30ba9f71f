----------------------------- MODULE MCHostTool -----------------------------
(* Two ports at two baud rates, the second of which is not in baud_map.    *)
EXTENDS HostTool
=============================================================================
