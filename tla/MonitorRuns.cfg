SPECIFICATION Spec
CONSTANTS
  Name      = "accept02"
  RingSize  = 2
  MaxCalls  = 3
  MaxRuns   = 3
  MaxFaults = 1
INVARIANTS
  TypeOK
  FollowsFile
  BodyIsMonitored
  HarnessIsNotMonitored
  OneLatePrint
PROPERTY
  StopsForGood
CHECK_DEADLOCK FALSE
