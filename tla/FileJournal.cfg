SPECIFICATION Spec
CONSTANTS
  Sizes <- MCSizes
  MaxBatches = 3
  MaxCrashes = 2
  Faults <- AllFaults
INVARIANTS
  Inv
  AckedUntilGarbage
  StateIsReplayed
PROPERTIES
  ReplayIsStable
CHECK_DEADLOCK FALSE
