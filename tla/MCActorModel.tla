---------------------------- MODULE MCActorModel ----------------------------
(* Small instances of ActorModel for TLC. *)
EXTENDS ActorModel, TLC

CONSTANTS e1, e2, s1, s2, a, b, A, B, x

\* Two topics of two types; s1 listens to both, s2 to the second one only; the
\* OnEvent of s1 may emit to the second topic (a cascade).
TwoTypesTypeOf == a :> A @@ b :> B
BothAndSecond == s1 :> {a, b} @@ s2 :> {b}
FirstEmits == s1 :> {b} @@ s2 :> {}

OwnAddr == s1 :> s1 @@ s2 :> s2
=============================================================================
