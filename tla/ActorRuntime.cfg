SPECIFICATION FairSpec
CONSTANTS
  p1 = p1
  p2 = p2
  a = a
  b = b
  Pid <- MCPid
  Event <- MCEvent
  Batch <- MCBatch
  MaxEvents = 2
  NoSnapshot = NoSnapshot
  Lost = Lost
INVARIANTS
  NothingLost
  IInv
  IdleStateIsTheLog
PROPERTIES
  ImplementsDurableActor
  ActorsSettle
