SPECIFICATION Spec
CONSTANTS
  Syscalls   <- MCSyscalls
  Unknown    <- MCUnknown
  Forks      <- MCForks
  Done       = "done"
  Length     <- MCLength
  Cut        <- MCCut
  Quota      = 2
  MaxWindows = 2
  MaxFaults  = 2
INVARIANTS
  DetachedMeansGone
CHECK_DEADLOCK FALSE
