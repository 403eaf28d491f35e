SPECIFICATION MCSpec
CONSTANTS
  Half = 8
  ArgHalf = 8
  SizeMod = 32
  MemoryLimit = 3
  Programs <- MCPrograms
INVARIANTS EngineTypeOK HeightAsAnnotated HaltedIsTheEnd
PROPERTIES LocalsSurvive RunReturns
CHECK_DEADLOCK FALSE
