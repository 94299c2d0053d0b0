SPECIFICATION Spec
CONSTANTS
  Ids = {1}
  Callers = {"a", "b"}
  MaxSessions = 1
  IdleTimeout = 1
  MaxTime = 0
  MaxCalls = 3
  MaxChunks = 1
  Free = "free"
PROPERTY ReadReturns
CHECK_DEADLOCK FALSE
