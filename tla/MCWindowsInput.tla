-------------------------- MODULE MCWindowsInput ---------------------------
(* WindowsInput for TLC: its constants are given in the cfg files.         *)
EXTENDS WindowsInput
=============================================================================
