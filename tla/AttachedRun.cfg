SPECIFICATION AttachedFairSpec
CONSTANTS
  Job <- OneJob
  Operations <- AllOps
  LaunchFails = TRUE
  ProviderLoss = FALSE
  JournalFails = TRUE
  MaxOps = 2
  MaxBoots = 2
  AttachedOps = 1
INVARIANTS
  Inv
  StatusesAgree
PROPERTIES
  ExitIsTrue
  ShutdownCompletes
  RunEnds
CHECK_DEADLOCK FALSE
