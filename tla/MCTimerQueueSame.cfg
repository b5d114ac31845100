\* Two timers for one time.
SPECIFICATION Spec
CONSTANTS
  Callers = {}
  Delays = {1}
  Intervals = {0}
  MinDelay = 1
  MaxTime = 3
  MaxTimers = 2
  MaxJumps = 0
INVARIANT TimestampsUnique
