SPECIFICATION JointSpec
CONSTANTS
  Command         <- ReadCommand
  N               <- ReadN
  Hooks           <- ReadHooks
  ReturnHooks     <- ReadReturns
  SkipsFailed     <- ReadSkips
  OverridesReturn <- ReadOverrides
  CleanupRaises   <- ReadRaises
  ClearsOnError   <- ReadClears
  Others          = {}
  Window          <- ReadWindow
  Period          <- OneSecond
  PollMax         = 2
  AttachMax       = 1
  DetachMax       = 1
  MaxRuns         = 1
  MaxFaults       = 1
  Threads         <- Tested
  Cgroup          <- Tested
  Functions       <- ReadFns
  Buffers         <- ReadBuffers
  Owner           <- ReadOwner
  None            = "none"
  Kind            <- ReadKind
  Fn              <- ReadFn
  Main            = "main"
  Called          = "read"
  Data            = "m"
PROPERTIES
  HandlersAreSound
  CalmCallIsForged
