\* Rolls of the log file; no entry is too long.
SPECIFICATION Spec
CHECK_DEADLOCK FALSE
CONSTANTS
  kRollingSize = 2
  kFlushInterval = 0
  kCheckInterval = 3
  kRollPerDay_ = 2
  MaxJumps = 1
  Capacity = 2
  FmtSize = 2
  Overhead = 1
  Messages <- MCShortMessages
  MaxEntries = 3
PROPERTY RollAssertion
