\* Three targets, fewer, as many and more than threads.
SPECIFICATION JobsSpec
CONSTANTS
  Targets <- MCTargets
  MaxJobs = 2
  HistoryLimit = 2
  SizeMod = 8
  MaxBackups = 4
INVARIANTS ResultsComplete BooksBalance
