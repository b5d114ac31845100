\* Three threads, so that two hold Stocks while a third deletes one.
\* The threads stop when they hold nothing and have no factory.
SPECIFICATION Spec
CHECK_DEADLOCK FALSE
CONSTANTS
  Threads = {t1, t2, t3}
  Keys = {k1, k2}
INVARIANTS DeleterHasFactory EntriesDisappear HeldStocksFound
