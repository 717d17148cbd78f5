SPECIFICATION MixedSpec
CONSTANTS
  Trits = 3
  MaxInt = 7
  MaxShort = 3
  var1 = var1
  var2 = var2
  NoCall = NoCall
  Reg = {var1, var2}
  Addr = {}
  Literal <- MCLiteral
  Count <- MCCount
  RawWord <- MCRawWord
INVARIANTS
  MixedReservedOnlyFromOutside
  SourcesAgree
PROPERTY
  ImplementsContract
CHECK_DEADLOCK FALSE
