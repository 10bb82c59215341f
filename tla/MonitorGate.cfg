SPECIFICATION Spec
CONSTANTS
  Name      = "accept02"
  RingSize  = 2
  MaxCalls  = 2
  MaxRuns   = 1
  MaxFaults = 0
PROPERTY
  SwitchGatesSubmission
CHECK_DEADLOCK FALSE
