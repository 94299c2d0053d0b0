SPECIFICATION FairSpec
CONSTANTS
  Runs = 1  Iterations = 2  Cuts = 1  Attempts = 2  Capacity = 2
  PlainRuns = 2  PlainCuts = 2  PlainAttempts = 3  PlainCapacity = 8
  MaxOther = 1
INVARIANTS TypeOK SuppressedWasSeen AnswerReachesUser 
 
CHECK_DEADLOCK FALSE
