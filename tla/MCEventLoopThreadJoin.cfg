\* The destructor right after Start().
SPECIFICATION ThreadSpec
CHECK_DEADLOCK FALSE
CONSTANTS
  Threads = {owner, t1}
  Owner = owner
  IoChannels = {io}
  Wakeup = wakeupChannel
  MaxEventfd = 2
  MaxPosts = 1
PROPERTY DestructorReturns
