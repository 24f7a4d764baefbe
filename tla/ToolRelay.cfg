SPECIFICATION RelayFairSpec
CONSTANTS
  Calls <- OneCall
  Blocking <- OneCall
  Commands <- MCCommands
  MaxCancels = 1
  Faults <- RuntimeOnly
  ServerLoss = TRUE
PROPERTIES
  RelayKeepsPromise
  RelayEndsUnlessDoomed
CHECK_DEADLOCK FALSE
