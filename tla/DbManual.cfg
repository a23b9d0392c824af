SPECIFICATION FairSpec
CONSTANTS
  Writers = {}
  Compactors = {c1, c2}
  Readers = {}
  Keys <- MCKeys
  Batches <- MCOneBatch
  WriteBuffer = 0
  SmallBatch = 1
  MaxBatch = 3
  L0Trigger = 1
  L0Slowdown = 1
  L0Stop = 2
  MaxHot = 1
  MaxLevels = 2
  MaxChunks = 1
  Faults = FALSE
INVARIANTS
  TypeOK
  OneBackgroundJob
  WorkIsScheduled
PROPERTIES
  CallsReturn
