\* Sources of every kind, each lenient, then strict, on one Compiler object; and
\* calls of the C API with buffers that just fit and just do not.
SPECIFICATION FairApiSpec
CONSTANTS
  Scripts <- MCScripts
  MaxSize = 5
INVARIANTS
  CompilerTypeOK
  StrictIsARestriction
  WrittenProgramsRead
PROPERTIES
  BufferHoldsPage
  CompileReturns
CHECK_DEADLOCK FALSE
