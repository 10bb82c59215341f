SPECIFICATION LiveSpec
CONSTANTS
  Command         <- ReadlinkCommand
  N               <- ReadlinkN
  Hooks           <- ReadlinkHooks
  ReturnHooks     <- ReadlinkReturns
  SkipsFailed     <- ReadlinkSkips
  OverridesReturn <- ReadlinkOverrides
  CleanupRaises   <- ReadlinkRaises
  ClearsOnError   <- ReadlinkClears
  Others          = {"iago_attack_accept", ""}
  Window          <- ReadlinkWindow
  Period          <- OneSecond
  PollMax         = 5
  AttachMax       = 1
  DetachMax       = 1
  MaxRuns         = 2
  MaxFaults       = 2
INVARIANTS
  TypeOK
  FlagMatchesProbes
  CalmCallIsHit
  DisarmLag
PROPERTY
  Quiesces
