SPECIFICATION Spec
CONSTANT MaxLines = 10
INVARIANTS
  EndAtFunctionEnd
CHECK_DEADLOCK FALSE
