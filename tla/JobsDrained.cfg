SPECIFICATION Spec
CONSTANTS
  Job <- OneJob
  Operations <- Draining
  LaunchFails = FALSE
  ProviderLoss = FALSE
  JournalFails = FALSE
  MaxOps = 1
  MaxBoots = 1
PROPERTIES
  DrainIsQuiet
CHECK_DEADLOCK FALSE
