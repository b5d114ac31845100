\* A worker started after StopWorker().
SPECIFICATION FairSpec
CHECK_DEADLOCK FALSE
CONSTANTS
  kRollingSize = 2
  kFlushInterval = 0
  kCheckInterval = 3
  kRollPerDay_ = 2
  MaxJumps = 1
  Capacity = 2
  FmtSize = 2
  Overhead = 1
  Messages <- MCMessages
  MaxEntries = 3
PROPERTY EveryWorkerWrites
