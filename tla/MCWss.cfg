SPECIFICATION FairSpec
CONSTANTS
  MaxClients = 2
  MaxSaid = 3
  MaxBreaks = 1
  OneDigit = 1
INVARIANTS WssTypeOK ConnsFollow EveryoneHearsAll
PROPERTIES StopEnds
