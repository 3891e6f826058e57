------------------------------ MODULE MCLifetime ------------------------------
(* Small instances of LifetimeManager for TLC. *)
EXTENDS LifetimeManager

CONSTANTS t1, i1, l1, l2, x1

\* One subscription on the stack of a tracked thread, one on that of main().
OwnerOf == [l \in Listeners |-> IF l = l1 THEN t1 ELSE Main]
=============================================================================
