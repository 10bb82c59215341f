SPECIFICATION Spec
CONSTANT MaxLines = 10
INVARIANTS
  TypeOK
  OneEndMarker
  ExpectedLayoutIsMarked
  SecondRunRepeats
CHECK_DEADLOCK FALSE
