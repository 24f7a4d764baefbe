SPECIFICATION FairSpec
CONSTANTS
  Executors <- MCExecutors
  N = 2
  Requests <- MCRequests
  NoConn = NoConn
INVARIANTS
  Inv
PROPERTIES
  SentToNewest
  CommandsEnd
CHECK_DEADLOCK FALSE
