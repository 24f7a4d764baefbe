SPECIFICATION FairSpec
CONSTANTS
  Commands <- AllCommands
  MaxRestarts = 1
  MaxCommands = 3
  MaxDeaths = 1
  ListenerLoss = TRUE
INVARIANTS
  Inv
PROPERTIES
  NeverStuck
  RunningIsReachable
CHECK_DEADLOCK FALSE
