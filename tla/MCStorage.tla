------------------------------ MODULE MCStorage ------------------------------
(* A small instance of Storage for TLC. *)
EXTENDS Storage, TLC

CONSTANTS f1, f2, k1, v1, v2, d1, d2

\* The two directories are alike.
Sym == Permutations({d1, d2})
=============================================================================
