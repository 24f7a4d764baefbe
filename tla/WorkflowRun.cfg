SPECIFICATION FairSpec
CONSTANTS
  Agent <- MCAgent
  StartAgent = "planner"
  Transitions <- MCTransitions
  Output <- MCOutput
  Nobody = Nobody
  MaxSent = 1
  Plans <- Running
INVARIANTS
  Inv
  JournalIsOrdered
  ReportedIsJournaled
PROPERTIES
  StatusIsNotified
  RunningMovesOn
CHECK_DEADLOCK FALSE
