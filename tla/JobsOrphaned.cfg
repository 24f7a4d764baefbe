SPECIFICATION Spec
CONSTANTS
  Job <- TwoJobs
  Operations <- JustShutdown
  LaunchFails = FALSE
  ProviderLoss = FALSE
  JournalFails = FALSE
  MaxOps = 0
  MaxBoots = 1
PROPERTIES
  NoOrphans
CHECK_DEADLOCK FALSE
