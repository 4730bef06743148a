SPECIFICATION FairSpec
CONSTANTS
  NumServers = 3
  KillFails = TRUE
  MaxRuns = 1
  NumClients = 1
PROPERTY Rereplicated
CHECK_DEADLOCK FALSE
