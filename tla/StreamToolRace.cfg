SPECIFICATION Spec
CONSTANTS
  MaxRuns = 1
  MaxIterations = 2
  Chunks = 1
  MaxConsumers = 1
  StreamCap = 8
  MaxOther = 0
  SendsMayFail = FALSE
  MayTimeOut = FALSE
INVARIANT AnswerReachesUser
CHECK_DEADLOCK FALSE
