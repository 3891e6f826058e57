SPECIFICATION TrackedSpec
CONSTANTS
  stdout = stdout
  stderr = stderr
  manager = manager
  User = User
  Streams = {stdout}
  Others = {manager}
  PipeCap = 1
  Greeting = 1
  MaxWrites = 0
INVARIANT NothingIsLost
