-------------------------- MODULE MCDarwinTyping ---------------------------
(* DarwinTyping for TLC: its constants are given in the cfg files.         *)
EXTENDS DarwinTyping
=============================================================================
