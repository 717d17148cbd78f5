SPECIFICATION Spec
CONSTANTS
  MaxInt = 7
  MaxLen = 5
  Trits = 2
INVARIANT
  AcceptedIsExact
CHECK_DEADLOCK FALSE
