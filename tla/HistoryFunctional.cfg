SPECIFICATION Spec
CONSTANTS
  Keep = 2
  Threshold = 4
  MaxHistory = 5
  Topics = 1
  Preview = 1
  QueueCap = 1
  Cuts = {TRUE, FALSE}
  MaxMessages = 8
  MaxCrashes = 1
INVARIANT StaysFunctional
CHECK_DEADLOCK FALSE
