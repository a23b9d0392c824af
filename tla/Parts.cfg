CONSTANTS
  Parts = {"log", "memtable", "pool", "lru", "iterators", "tables", "environment", "locks", "rbtree", "codec", "containers", "threads", "rpc"}
  BlockSize = 5
  RecordSizes = {1, 7}
  MaxRecords = 3
  MaxDamage = 1
  AppendFails = TRUE
  ReuseLogs = TRUE
  MemUsers = {1, 2}
  MemMaxSeq = 2
  MemMaxHeight = 2
  MemMaxOps = 2
  PoolWorkers = {w1, w2}
  PoolMaxJobs = 5
  LruKeys = {1, 2, 3}
  LruReaders = {r1, r2}
  LruCapacities = {0, 2}
  LruMinLength = 1
  LruMaxInserts = 3
  ItUsers = {1, 2}
  ItSnapshot = 2
  ItMaxSeq = 3
  ItBlockSize = 1
  TabUsers <- MCTabUsers
  TabMaxByte = 3
  TabMaxSeq = 3
  TabMaxEntries = 3
  TabBlockSize = 8
  TabIntervals = {1, 2}
  TabFilterBase = 8
  TabProbes = 2
  EnvNames = {n1, n2}
  EnvReaders = {e1, e2}
  EnvMaxFiles = 2
  EnvMaxBytes = 5
  EnvChunks = {1, 4}
  EnvBuffer = 2
  EnvMaxFds = 1
  EnvMaxMaps = 1
  EnvMaxOps = 2
  LockProcesses = {p1, p2}
  LockThreads = {t1, t2}
  LockMaxTries = 6
  RbKeys = {1, 2, 3, 4, 5, 6, 7}
  RbVals = {1}
  CodNumbers = {0, 128, 20000}
  CodSlices <- MCCodSlices
  CodChunks <- MCCodChunks
  CodMaxFields = 2
  CodMaxChunks = 3
  StKeys <- MCStKeys
  StValues = {1, 2, 3}
  StPrimes <- MCStPrimes
  StBuckets = 2
  StBits = 8
  StRing = 4
  StMaxOps = 6
  ThrThreads = {t1, t2}
  ThrMaxSignals = 3
  ThrMaxJoins = 1
  TmTick = 2
  TmWheels = 2
  TmWheelCap = 1
  TmDelays = {0, 3}
  TmSteps = {1, 5}
  TmMaxTimers = 4
  TmMaxTime = 5
  RpcClients = {c1, c2}
  RpcThreadNum = 2
  RpcMsgNum = 2
  RpcMaxServed = 2
  RpcQueueCap = 2
SPECIFICATION Spec
CHECK_DEADLOCK FALSE
INVARIANTS LogReadBack MemReads PoolWakeups LruBooks IteratorIsSnapshot TableFinds BlockIterAgrees EnvWrites EnvBooks LockExclusive RbSound CodecsReadBack ContainersAgree ThreadsAndTimers RpcServes
