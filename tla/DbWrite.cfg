SPECIFICATION Spec
CONSTANTS
  Writers = {w1, w2, w3}
  Compactors = {}
  Readers = {}
  Keys <- MCKeys
  Batches <- MCBatches
  WriteBuffer = 1
  SmallBatch = 1
  MaxBatch = 3
  L0Trigger = 1
  L0Slowdown = 1
  L0Stop = 2
  MaxHot = 1
  MaxLevels = 1
  MaxChunks = 1
  Faults = TRUE
INVARIANTS
  OneLeader
  HeadAwake
  ResultsHonest
  SyncedIsDurable
PROPERTIES
  ErrorIsSticky
