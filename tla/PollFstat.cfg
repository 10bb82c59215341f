SPECIFICATION LiveSpec
CONSTANTS
  Command         <- FstatCommand
  N               <- FstatN
  Hooks           <- FstatHooks
  ReturnHooks     <- FstatReturns
  SkipsFailed     <- FstatSkips
  OverridesReturn <- FstatOverrides
  CleanupRaises   <- FstatRaises
  ClearsOnError   <- FstatClears
  Others          = {}
  Window          <- FstatWindow
  Period          <- OneSecond
  PollMax         = 6
  AttachMax       = 4
  DetachMax       = 4
  MaxRuns         = 2
  MaxFaults       = 2
INVARIANTS
  FlagMatchesProbes
  CalmCallIsHit
  DisarmLag
PROPERTIES
  Quiesces
  ImplementsSwitch
