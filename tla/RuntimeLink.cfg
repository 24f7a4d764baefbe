SPECIFICATION FairSpec
CONSTANTS
  Calls <- MCCalls
  Blocking <- MCBlocking
  MaxCancels = 1
  Faults <- AllFaults
INVARIANTS
  Inv
PROPERTIES
  CancelFindsItsTask
  KeepsPromise
CHECK_DEADLOCK FALSE
