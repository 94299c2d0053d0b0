SPECIFICATION LiveSpec
CONSTANTS
  s1 = s1
  s2 = s2
  NoKey = NoKey
  Sessions <- OneSession
  ShardOf <- ShardEach
  MaxMessages = 6
  MaxHistory = 2
  QueueCap = 1
  MaxCrashes = 1
  MaxFailures = 1
  FlushUsed = TRUE
INVARIANTS TypeOK CacheIsNewest LogsInOrder FlushIsFresh
 
CHECK_DEADLOCK FALSE
