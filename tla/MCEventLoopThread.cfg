\* The owner and one more thread using the loop; the object is destroyed at
\* any time, so the system stops when it is gone.
SPECIFICATION ThreadSpec
CHECK_DEADLOCK FALSE
CONSTANTS
  Threads = {owner, t1}
  Owner = owner
  IoChannels = {io}
  Wakeup = wakeupChannel
  MaxEventfd = 2
  MaxPosts = 1
INVARIANTS CallsReachLiveLoop
PROPERTY QuitInLoopJoins
