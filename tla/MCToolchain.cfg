SPECIFICATION ToolSpec
CONSTANTS
  Trits = 3
  MaxInt = 31
  MaxShort = 15
  FirstTemp = 21
  Inner = {15}
  Programs <- MCPrograms
  OptionSets <- MCOptions
  Environments <- LinkEnvironments
  Gccs <- MCGccs
  ArgLists <- MCArgLists
  Units <- MCUnits
  Builds <- MCBuilds
INVARIANTS
  ReportMatchesUnit
  HelpersDefined
  OperandsFit
  LinkedMeaning
  LinkedProgram
  NestedExpressions
PROPERTIES
  ImplementsPass
  CompilationEnds
CHECK_DEADLOCK FALSE
