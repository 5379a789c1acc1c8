----------------------------- MODULE MCDispatch -----------------------------
(* Instances of Dispatch for TLC.                                           *)
EXTENDS Dispatch

MCKeys == {"alice", "cli"}
MCCliKeys == {"cli"}
MCWindows == {0, 1}
MCRuntimes == BOOLEAN
=============================================================================
