SPECIFICATION LiveSpec
CONSTANTS
  s1 = s1
  s2 = s2
  NoKey = NoKey
  Sessions <- TwoSessions
  ShardOf <- ShardShared
  MaxMessages = 3
  MaxHistory = 1
  QueueCap = 1
  MaxCrashes = 1
  MaxFailures = 0
  FlushUsed = TRUE
PROPERTY LookupReturns
CHECK_DEADLOCK FALSE
