\* AddTimer() from another thread.
SPECIFICATION Spec
CONSTANTS
  Callers = {t1}
  Delays = {2}
  Intervals = {0}
  MinDelay = 1
  MaxTime = 4
  MaxTimers = 1
  MaxJumps = 0
INVARIANT TimersAsAsked
