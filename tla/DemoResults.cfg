SPECIFICATION Spec
CONSTANTS
  Word      = 256
  Address   = 1024
  TextSizes = {0, 1, 12, 49, 50, 51, 100}
  MaxNames  = 3
  Counts    = {0, 1, 2, 3, 60}
INVARIANTS
  VerdictIsHit
  TerminatorInBuffer
CHECK_DEADLOCK FALSE
