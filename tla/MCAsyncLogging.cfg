\* Entries that fill a buffer alone, that share one, and one too long; files
\* that roll by size and by day.
\* The process may stop logging, or fail an assertion.
SPECIFICATION FairSpec
CHECK_DEADLOCK FALSE
CONSTANTS
  kRollingSize = 2
  kFlushInterval = 0
  kCheckInterval = 2
  kRollPerDay_ = 2
  MaxJumps = 1
  Capacity = 2
  FmtSize = 2
  Overhead = 1
  Messages <- MCMessages
  MaxEntries = 3
INVARIANTS LogInOrder TempBuffersPresent StopFlushesIfWaiting
  BuffersHalfFull ChecksInTime
PROPERTIES EntriesWritten EntriesFlushed StopWorkerReturns
