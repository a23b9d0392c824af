CONSTANTS
  MaxWrites = 1
  MaxNumber = 8
  MaxCrashes = 2
  MaxCompactions = 0
  MaxRepairs = 0
  ReuseLogs = {TRUE}
SPECIFICATION Spec
CHECK_DEADLOCK FALSE
INVARIANTS SyncedOutlivesReuse
