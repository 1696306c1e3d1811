SPECIFICATION FairSpec
CONSTANTS
  SendRoom = 2
  ChunkSize = 2
  Threshold = 2
  Quota = 1
  MaxBudget = 2
  DataLeft = 1
  DataRight = 5
INVARIANTS
  ProxySound
  StreamPreserved
PROPERTIES
  ClosesAfterFlush
  SessionCompletes
CHECK_DEADLOCK FALSE
