\* Three threads racing the loop thread, one I/O channel, an eventfd that
\* can reach its limit.
SPECIFICATION FairSpec
CONSTANTS
  Threads = {t1, t2, t3}
  IoChannels = {io}
  Wakeup = wakeupChannel
  MaxEventfd = 2
  MaxPosts = 4
INVARIANT NoLostWakeup
PROPERTIES ImplementsWorkQueue QuitStopsLoop FunctorsRun
