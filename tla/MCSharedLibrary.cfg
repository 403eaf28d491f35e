\* Two threads that move two or three objects around; one dlclose() per image
\* fails, and finalisers may unload once more.
SPECIFICATION LibSpec
CONSTANTS
  Threads = {t1, t2}
  Objects = {o1, o2, o3}
  Images = {a, b}
  None = None
  MaxRefs = 3
  MaxDepth = 2
  MaxKept = 1
SYMMETRY Symmetry
INVARIANTS
  LibTypeOK
  EveryReferenceOwned
  PathNamesTheImage
  UnloadedThroughRAII
