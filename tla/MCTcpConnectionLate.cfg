\* Send() then Shutdown() from another thread.
SPECIFICATION Spec
CHECK_DEADLOCK FALSE
CONSTANTS
  Callers = {t1}
  MaxMsg = 2
  MaxBytes = 4
INVARIANT ShutdownKeepsEarlierSends
