SPECIFICATION FairSpec
CONSTANTS
  Agent <- MCAgent
  StartAgent = "planner"
  Transitions <- MCTransitions
  Output <- MCOutput
  Nobody = Nobody
  MaxSent = 1
  Plans <- Crashed
PROPERTIES
  FirstInputArrives
CHECK_DEADLOCK FALSE
