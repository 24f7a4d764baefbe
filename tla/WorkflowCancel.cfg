SPECIFICATION Spec
CONSTANTS
  Agent <- MCAgent
  StartAgent = "planner"
  Transitions <- MCTransitions
  Output <- MCOutput
  Nobody = Nobody
  MaxSent = 1
  Plans <- Paused
PROPERTIES
  CancelReachesRuns
CHECK_DEADLOCK FALSE
