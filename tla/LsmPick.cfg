SPECIFICATION Spec
CONSTANTS
  MaxKey = 3
  MaxSeq = 5
  Tags = {FALSE}
  MaxSnapshots = 0
  MaxOutputs = 2
  NumLevels = 3
  MaxMemLevel = 1
  L0Trigger = 2
  LevelLimit = 2
  FileLimit = 2
  GrandLimit = 2
  ExpandLimit = 4
  Manual = FALSE
  Seeks = TRUE
INVARIANTS
  TypeOK
  LevelsDisjoint
  ReadsAgree
PROPERTIES
  Descends
CHECK_DEADLOCK FALSE
