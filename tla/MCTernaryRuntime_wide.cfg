SPECIFICATION Spec
CONSTANTS
  Trits = 2
  MaxInt = 3
  MaxShort = 1
  var1 = var1
  var2 = var2
  NoCall = NoCall
  Reg = {var1, var2}
  Addr = {0}
  Literal <- MCLiteral
  Count <- MCCount
  RawWord <- MCRawWord
INVARIANTS
  TypeOK
  ReservedOnlyFromOutside
PROPERTY
  ImplementsAbstract
CHECK_DEADLOCK TRUE
