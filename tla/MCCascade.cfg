SPECIFICATION FairSpec
CONSTANTS
  e1 = e1
  e2 = e2
  s1 = s1
  s2 = s2
  a = a
  b = b
  A = A
  B = B
  x = x
  NoEvent = NoEvent
  Free = Free
  Emitters = {e1}
  Subs = {s1, s2}
  Topics = {a, b}
  Types = {A, B}
  Addrs = {s1, s2}
  TypeOf <- TwoTypesTypeOf
  TopicsOf <- BothAndSecond
  AddrOf <- OwnAddr
  EmitsOf <- FirstEmits
  Throwing = {s2}
  MaxEvents = 2
INVARIANTS TypeOK CausalOrder DrainedFirst TargetsAlive
PROPERTIES SilentAfterGone BroadcastSpec PublishedIsHandled
