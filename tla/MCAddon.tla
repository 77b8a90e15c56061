------------------------------- MODULE MCAddon -------------------------------
(* Addon for TLC: its constants are given in the cfg files.                *)
EXTENDS Addon
=============================================================================
