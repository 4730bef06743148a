SPECIFICATION FairSpec
CONSTANTS
  Ports = {7000, 7001, 7002, 7003, 7004}
  NumSlots = 16
  NumClients = 3
  JoinFails = TRUE
  GatherFails = TRUE
  MoveFails = FALSE
INVARIANT TypeOK MovedOut ClientsInPhase ServersUp
PROPERTY ExperimentEnds
CHECK_DEADLOCK FALSE
