----------------------------- MODULE MCKeyTap ------------------------------
(* KeyTap for TLC: its constants are given in the cfg file.                *)
EXTENDS KeyTap
=============================================================================
