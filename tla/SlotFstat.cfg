SPECIFICATION Spec
CONSTANTS
  N           <- FstatN
  Threads     <- All
  Cgroup      <- Tested
  Functions   <- FstatFns
  Buffers     <- FstatBuffers
  Owner       <- FstatOwner
  None        = "none"
  Kind        <- FstatKind
  Fn          <- FstatFn
  SkipsFailed <- FstatSkips
INVARIANTS
  TypeOK
  ForeignUntouched
  MisaimHasCause
PROPERTY
  UndisturbedIsExact
