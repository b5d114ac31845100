\* Two LogFiles share the static counter in Append().
SPECIFICATION SharedSpec
CHECK_DEADLOCK FALSE
CONSTANTS
  kRollingSize = 2
  kFlushInterval = 0
  kCheckInterval = 3
  kRollPerDay_ = 2
  MaxJumps = 1
INVARIANT ChecksInTime
