SPECIFICATION VMSpec
CONSTANTS
  Half = 8
  ArgHalf = 8
  SizeMod = 32
  MemoryLimit = 3
  Programs <- MCPrograms
INVARIANTS VMTypeOK Repeatable CheckedCodeNeverFails
 
