SPECIFICATION Spec
CONSTANTS
  ScriptA   <- ReadScript
  DemoA     <- ReadDemo
  ScriptB   <- ReadlinkScript
  DemoB     <- ReadlinkDemo
  Second    = 4
  PollMax   = 5
  AttachMax = 1
  DetachMax = 1
  MaxRuns   = 1
  MaxFaults = 1
INVARIANT
  Alone
PROPERTY
  EachIsAnInjector
