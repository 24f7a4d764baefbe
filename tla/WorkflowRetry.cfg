SPECIFICATION Spec
CONSTANTS
  Agent <- MCAgent
  StartAgent = "planner"
  Transitions <- MCTransitions
  Output <- MCOutput
  Nobody = Nobody
  MaxSent = 1
  Plans <- Resumed
PROPERTIES
  ResumeIsDelivered
CHECK_DEADLOCK FALSE
