SPECIFICATION Spec
CONSTANTS
  MaxKey = 2
  MaxSeq = 3
  Tags = {TRUE, FALSE}
  MaxSnapshots = 1
  MaxOutputs = 2
  NumLevels = 3
  MaxMemLevel = 0
  L0Trigger = 2
  LevelLimit = 2
  FileLimit = 1
  GrandLimit = 2
  ExpandLimit = 4
  Manual = TRUE
  Seeks = FALSE
INVARIANTS
  ReadsAgree
  LayersOrdered
