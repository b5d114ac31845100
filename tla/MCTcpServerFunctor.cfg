\* Send() and Shutdown() from another thread.
SPECIFICATION ServerSpec
CHECK_DEADLOCK FALSE
CONSTANTS
  c1 = c1
  c2 = c2
  l = l
  Conns <- Conns2
  Channels <- Channels2
  FdOf <- FdOf2
  Listen = l
  Callers = {t1}
  MaxQueue = 2
INVARIANT FunctorOnLiveConnection
