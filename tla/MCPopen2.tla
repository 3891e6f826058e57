------------------------------- MODULE MCPopen2 -------------------------------
(* Small instances of Popen2, as a tracked call, for TLC. *)
EXTENDS TrackedPopen2

CONSTANTS stdout, stderr, manager
=============================================================================
