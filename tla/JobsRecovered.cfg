SPECIFICATION FairSpec
CONSTANTS
  Job <- OneJob
  Operations <- NoOps
  LaunchFails = FALSE
  ProviderLoss = FALSE
  JournalFails = FALSE
  MaxOps = 0
  MaxBoots = 2
PROPERTIES
  RunningJobsRun
CHECK_DEADLOCK FALSE
