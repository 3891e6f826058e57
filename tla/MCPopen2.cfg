SPECIFICATION FairTrackedSpec
CONSTANTS
  stdout = stdout
  stderr = stderr
  manager = manager
  User = User
  Streams = {stdout, stderr}
  Others = {manager}
  PipeCap = 1
  Greeting = 2
  MaxWrites = 2
INVARIANTS TrackedTypeOK LinesAreWhole NobodyOutlivesTheCall
PROPERTIES WritesComplete TrackingEnds TermReachesTheChild
