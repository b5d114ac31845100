\* Two clients and a thread that calls Send() and Shutdown().
\* The process stops with the server or at a failed assertion.
SPECIFICATION ServerSpec
CHECK_DEADLOCK FALSE
CONSTANTS
  c1 = c1
  c2 = c2
  l = l
  Conns <- Conns2
  Channels <- Channels2
  FdOf <- FdOf2
  Listen = l
  Callers = {t1}
  MaxQueue = 1
INVARIANTS ServerAgrees DanglingOnlyAfterClose NotifiedOnce
PROPERTIES CloseAssertions UnregisteredOnlyByLateCalls
