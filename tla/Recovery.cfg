CONSTANTS
  MaxWrites = 2
  MaxNumber = 7
  MaxCrashes = 2
  MaxCompactions = 1
  MaxRepairs = 1
  ReuseLogs = {TRUE, FALSE}
SPECIFICATION Spec
CHECK_DEADLOCK FALSE
INVARIANTS Recoverable Served SequenceFresh NoLeaks BackupComplete
