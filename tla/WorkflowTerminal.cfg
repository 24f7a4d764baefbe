SPECIFICATION Spec
CONSTANTS
  Agent <- MCAgent
  StartAgent = "planner"
  Transitions <- MCTransitions
  Output <- MCOutput
  Nobody = Nobody
  MaxSent = 1
  Plans <- PausedOnce
PROPERTIES
  TerminalIsFinal
CHECK_DEADLOCK FALSE
