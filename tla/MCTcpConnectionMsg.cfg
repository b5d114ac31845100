\* A caller whose message is gone when Send() runs in the loop thread.
SPECIFICATION Spec
CHECK_DEADLOCK FALSE
CONSTANTS
  Callers = {t1}
  MaxMsg = 2
  MaxBytes = 4
INVARIANT MessagesIntact
