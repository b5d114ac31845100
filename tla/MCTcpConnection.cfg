\* The application in the loop thread and two more threads that call Send()
\* and Shutdown().  Sending is bounded, so the system stops.
SPECIFICATION FairSpec
CHECK_DEADLOCK FALSE
CONSTANTS
  Callers = {t1, t2}
  MaxMsg = 2
  MaxBytes = 3
INVARIANTS StreamInOrder WritingIffBuffered ShutdownAfterBuffer
PROPERTY ShutdownCompletes
