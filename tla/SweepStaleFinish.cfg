SPECIFICATION SweepSpec
CONSTANTS
  NumWorkloads = 2
  NumRounds = 1
INVARIANT ServerOutlivesWorkload
CHECK_DEADLOCK FALSE
