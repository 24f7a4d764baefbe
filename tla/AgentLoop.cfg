SPECIFICATION FairSpec
CONSTANTS
  Params <- MCParams
  Turns <- MCTurns
  MaxIterations = 3
  StuckThreshold = 3
  NudgeThreshold = 2
  HandoffMaxRetries = 1
  MaxRetries = 1
  MaxMade = 3
  MaxInputs = 2
  MaxCancels = 1
  MaxCrashes = 1
INVARIANTS
  Inv
  JournalTellsInOrder
  StuckIsOver
PROPERTIES
  RunsEnd
CHECK_DEADLOCK FALSE
