SPECIFICATION PoolSpec
CONSTANTS
  Clients = {c1, c2}
  BlockSizes = {0, 64}
  MaxBlocks = 4
  SizeMod = 8
INVARIANTS PoolTypeOK EveryBlockInOnePlace UsedIsExact
PROPERTIES KeepsPromise
