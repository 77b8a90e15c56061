--------------------------- MODULE MCHookWorker ----------------------------
(* HookWorker for TLC: its constants are given in the cfg files.           *)
EXTENDS HookWorker
=============================================================================
