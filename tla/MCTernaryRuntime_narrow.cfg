SPECIFICATION Spec
CONSTANTS
  Trits = 3
  MaxInt = 31
  MaxShort = 7
  var1 = var1
  var2 = var2
  NoCall = NoCall
  Reg = {var1, var2}
  Addr = {}
  Literal <- MCLiteral
  Count <- MCCount
  RawWord <- MCRawWord
INVARIANTS
  ReservedOnlyFromOutside
PROPERTY
  ImplementsAbstract
CHECK_DEADLOCK TRUE
