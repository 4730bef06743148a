SPECIFICATION FairSpec
CONSTANTS
  NumProcs = 2
  NumThreads = 1
  NumInitial = 2
  NumTotal = 3
  KillMayFail = TRUE
  MessageLoss = TRUE
  MaxOps = 1
  MaxGlitches = 2
INVARIANT TypeOK NodesMatchConfig NoSplitBrain NewBackupAfterFailover AccessVectorExact
PROPERTY OperationsComplete
CHECK_DEADLOCK FALSE
