CONSTANTS
  BlockSize = 5
  RecordSizes = {1, 4}
  MaxRecords = 3
  MaxDamage = 1
  AppendFails = TRUE
  ReuseLogs = TRUE
SPECIFICATION Spec
CHECK_DEADLOCK FALSE
INVARIANT SyncedSurvives
