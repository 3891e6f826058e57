SPECIFICATION FairSpec
CONSTANTS
  a = a
  b = b
  demo = demo
  life = life
  Threads = {a, b}
  Names = {demo, life}
  MaxHour = 1
  MaxLines = 3
  MaxFaults = 1
  MaxKills = 1
INVARIANTS LoggerTypeOK ReturnedIsKept
PROPERTY WritesReturn
