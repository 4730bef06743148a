SPECIFICATION SweepSpec
CONSTANTS
  NumWorkloads = 4
  NumRounds = 3
INVARIANT SweepTypeOK ServerIsNew WorkloadsApart
CHECK_DEADLOCK FALSE
