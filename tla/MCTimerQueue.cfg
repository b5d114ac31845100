\* Timers, one-shot and repeating, added at any time by the loop thread and by
\* another thread; the wall clock is set once.
SPECIFICATION FairSpec
CONSTANTS
  Callers = {t1}
  Delays = {0, 2}
  Intervals = {0, 1}
  MinDelay = 1
  MaxTime = 4
  MaxTimers = 2
  MaxJumps = 1
INVARIANTS AlarmInTime NoTimerLost
PROPERTY TimersFire
