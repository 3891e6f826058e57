----------------------------- MODULE MCWssServer -----------------------------
(* A small instance of WssServer for TLC. *)
EXTENDS WssServer
=============================================================================
