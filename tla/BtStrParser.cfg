SPECIFICATION FairSpec
CONSTANTS
  MaxInt = 7
  MaxLen = 5
  Trits = 2
INVARIANTS
  TypeOK
  RepresentableIsExact
PROPERTIES
  RejectionJustified
  ParseTerminates
CHECK_DEADLOCK FALSE
