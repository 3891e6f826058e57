-------------------------- MODULE MCActorDebugWait --------------------------
(* Small instances of ActorDebugWait for TLC. *)
EXTENDS ActorDebugWait, TLC

CONSTANTS e1, s1, s2, a, A, x, y, w1

OneTopicTypeOf == a :> A
BothListen == s1 :> {a} @@ s2 :> {a}
NobodyEmits == s1 :> {} @@ s2 :> {}

OwnAddr == s1 :> x @@ s2 :> y
=============================================================================
