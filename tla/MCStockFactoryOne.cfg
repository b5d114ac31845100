\* Three users of two keys.
\* The threads stop when they hold nothing and have no factory.
SPECIFICATION Spec
CHECK_DEADLOCK FALSE
CONSTANTS
  Threads = {t1, t2, t3}
  Keys = {k1, k2}
INVARIANT OneStockPerKey
