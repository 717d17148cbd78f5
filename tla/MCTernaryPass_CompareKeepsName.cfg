SPECIFICATION Spec
CONSTANTS
  Trits = 3
  MaxInt = 31
  FirstTemp = 21
  Programs <- MCPrograms
  OptionSets <- MCOptions
  Environments <- MCEnvironments
INVARIANT
  CompareKeepsName
CHECK_DEADLOCK FALSE
