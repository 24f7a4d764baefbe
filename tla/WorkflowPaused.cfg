SPECIFICATION Spec
CONSTANTS
  Agent <- MCAgent
  StartAgent = "planner"
  Transitions <- MCTransitions
  Output <- MCOutput
  Nobody = Nobody
  MaxSent = 1
  Plans <- ResumedLater
PROPERTIES
  OnlyRunningContinues
CHECK_DEADLOCK FALSE
