------------------------------- MODULE MCLogger -------------------------------
(* A small instance of Logger for TLC. *)
EXTENDS Logger

CONSTANTS a, b, demo, life
=============================================================================
