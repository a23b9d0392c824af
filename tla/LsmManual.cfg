SPECIFICATION Spec
CONSTANTS
  MaxKey = 3
  MaxSeq = 5
  Tags = {FALSE}
  MaxSnapshots = 0
  MaxOutputs = 1
  NumLevels = 3
  MaxMemLevel = 1
  L0Trigger = 3
  LevelLimit = 9
  FileLimit = 1
  GrandLimit = 2
  ExpandLimit = 0
  Manual = TRUE
  Seeks = FALSE
INVARIANTS
  LevelsDisjoint
CHECK_DEADLOCK FALSE
