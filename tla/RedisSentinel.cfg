SPECIFICATION FairSpec
CONSTANTS
  NumServers = 3
  KillFails = TRUE
  MaxRuns = 2
  NumClients = 2
INVARIANT SentinelTypeOK
INVARIANT ServersAccounted
 
PROPERTY FailoverCompletes
CHECK_DEADLOCK FALSE
