SPECIFICATION FairSpec
CONSTANTS
  Trits = 3
  MaxInt = 31
  FirstTemp = 21
  Programs <- MCPrograms
  OptionSets <- MCOptions
  Environments <- MCEnvironments
INVARIANTS
  TypeOK
  MeaningKept
  ProgramMeaning
  TempsDefinedOnce
  CountsMatchCode
  SelectsOwnType
PROPERTY
  PassTerminates
CHECK_DEADLOCK FALSE
