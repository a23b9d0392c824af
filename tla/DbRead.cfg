SPECIFICATION FairSpec
CONSTANTS
  Writers = {w1, w2}
  Compactors = {}
  Readers = {r1}
  Keys <- MCKeys
  Batches <- MCOneBatch
  WriteBuffer = 1
  SmallBatch = 1
  MaxBatch = 3
  L0Trigger = 1
  L0Slowdown = 1
  L0Stop = 2
  MaxHot = 1
  MaxLevels = 1
  MaxChunks = 1
  Faults = TRUE
INVARIANTS
  TablesPinned
PROPERTIES
  StoreSpec
  CallsReturn
