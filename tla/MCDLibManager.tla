---------------------------- MODULE MCDLibManager ----------------------------
(* Small instances of DLibManager for TLC. *)
EXTENDS DLibManager

CONSTANTS u1, u2, foo, nofoo, broken
=============================================================================
