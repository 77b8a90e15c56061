--------------------------- MODULE MCDarwinInput ---------------------------
(* DarwinInput for TLC: its constants are given in the cfg files.          *)
EXTENDS DarwinInput
=============================================================================
