SPECIFICATION FairStreamSpec
CONSTANTS
  Messages <- MCMessages
  MaxRetries = 6
  NoCount = NoCount
INVARIANTS
  AnswerIsExact
  GivesUpLate
PROPERTIES
  Completes
CHECK_DEADLOCK FALSE
