SPECIFICATION Spec
CONSTANTS
  Starts = {1, 2}
  MaxCommands = 1
INVARIANT AtMostOneDaemon
CHECK_DEADLOCK FALSE
