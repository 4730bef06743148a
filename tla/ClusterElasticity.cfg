SPECIFICATION FairSpec
CONSTANTS
  NumClients = 2
  NumThreads = 1
  MemcachedFails = TRUE
  NumInitial = 1
  NumScale = 2
  NumTotal = 2
  MayMiss = TRUE
  MaxOps = 1
  MaxErrors = 1
INVARIANT TypeOK ServersInRange FollowsScript ScaleAfterBarrier AccessVectorCovers
PROPERTY ScalingCompletes
CHECK_DEADLOCK FALSE
CONSTRAINT Flushed
