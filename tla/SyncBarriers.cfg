SPECIFICATION FairSpec
CONSTANTS
  NumClients = 4
  NumThreads = 2
  ClientRounds = 2
  ControllerRounds = 2
  OrderedStart = TRUE
  MemcachedFails = TRUE
INVARIANT TypeOK Lockstep
PROPERTY ImplementsBarrier BarriersComplete
CHECK_DEADLOCK FALSE
