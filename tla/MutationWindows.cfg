SPECIFICATION Spec
CONSTANTS
  Syscalls   <- MCSyscalls
  Unknown    <- MCUnknown
  Forks      <- MCForks
  Done       = "done"
  Length     <- MCLength
  Cut        <- MCCut
  Quota      = 3
  MaxWindows = 4
  MaxFaults  = 2
INVARIANTS
  TypeOK
  QuietWindowHits
  QuietWindowResyncs
  OneProbePerWindow
  FlagHasProbe
CHECK_DEADLOCK FALSE
