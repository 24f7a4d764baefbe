SPECIFICATION Spec
CONSTANTS
  Agent <- MCAgent
  StartAgent = "planner"
  Transitions <- MCTransitions
  Output <- MCOutput
  Nobody = Nobody
  MaxSent = 2
  Plans <- Uncommanded
INVARIANTS
  OneMessageAtRisk
CHECK_DEADLOCK FALSE
