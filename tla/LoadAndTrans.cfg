SPECIFICATION FairSpec
CONSTANTS
  NumClients = 6
  NumThreads = 2
  MemcachedFails = TRUE
  NumLines = 8
  MaxErrors = 1
INVARIANT TypeOK TransAfterLoad
PROPERTY LoadCompletes
CHECK_DEADLOCK FALSE
CONSTRAINT Flushed
