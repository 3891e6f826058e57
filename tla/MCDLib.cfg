SPECIFICATION Spec
CONSTANTS
  u1 = u1
  u2 = u2
  foo = foo
  nofoo = nofoo
  broken = broken
  Users = {u1, u2}
  Versions = {foo, nofoo, broken}
  Broken = {broken}
  Exporting = {foo}
  Null = Null
  Original = Original
INVARIANTS DLibTypeOK UsedIsLoaded UseIsFresh GoodFileLoads AnswersAreOfTheLibrary ProperlyUnloaded
