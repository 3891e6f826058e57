SPECIFICATION FairDSpec
CONSTANTS
  e1 = e1
  s1 = s1
  s2 = s2
  a = a
  A = A
  x = x
  y = y
  w1 = w1
  NoEvent = NoEvent
  NoAddr = NoAddr
  Free = Free
  Emitters = {e1}
  Subs = {s1, s2}
  Topics = {a}
  Types = {A}
  Addrs = {x, y}
  Waiters = {w1}
  TypeOf <- OneTopicTypeOf
  TopicsOf <- BothListen
  AddrOf <- OwnAddr
  EmitsOf <- NobodyEmits
  Throwing = {s1}
  MaxEvents = 1
PROPERTY WaitReturns
CHECK_DEADLOCK FALSE
