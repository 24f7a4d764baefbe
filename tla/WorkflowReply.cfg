SPECIFICATION Spec
CONSTANTS
  Agent <- MCAgent
  StartAgent = "planner"
  Transitions <- MCTransitions
  Output <- MCOutput
  Nobody = Nobody
  MaxSent = 1
  Plans <- ResumedTwice
INVARIANTS
  ResumeIsIdempotent
CHECK_DEADLOCK FALSE
