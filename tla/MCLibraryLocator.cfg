\* Two threads, two roots over two directories, one logical library, one change
\* of the file system at any moment.
SPECIFICATION LocatorSpec
CONSTANTS
  Threads = {t1, t2}
  Nobody = Nobody
  RootNames = {r1, r2}
  Dirs = {d1, d2}
  Alias = Alias
  Libraries = {lib}
  Files <- MCFiles
  NativeName <- MCNativeName
  None = None
  Asked <- MCAsked
  Mapped <- MCMapped
  Installed <- MCInstalled
  Changing <- MCChanging
  MaxChanges = 1
  d1 = d1
  d2 = d2
  r1 = r1
  r2 = r2
  lib = lib
INVARIANTS
  LocatorTypeOK
  MappedRootExists
  ResolveIsAtomic
  
PROPERTIES
  MutexIsReleased
