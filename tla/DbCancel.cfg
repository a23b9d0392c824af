SPECIFICATION Spec
CONSTANTS
  Writers = {w1}
  Compactors = {c1}
  Readers = {}
  Keys <- MCKeys
  Batches <- MCOneBatch
  WriteBuffer = 0
  SmallBatch = 1
  MaxBatch = 3
  L0Trigger = 1
  L0Slowdown = 1
  L0Stop = 2
  MaxHot = 1
  MaxLevels = 1
  MaxChunks = 1
  Faults = TRUE
INVARIANTS
  ManualStillInstalled
