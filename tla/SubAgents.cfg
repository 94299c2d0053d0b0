\* Two overlapping spawns over a limit of one, one wait at a time.
SPECIFICATION LiveSpec
CONSTANTS
  MaxSpawns = 3
  Overlap = 2
  Waiters = {w1}
  MaxTasks = 1
INVARIANTS TypeOK SlotBound CancelStopsWork WokenIsSettled
PROPERTIES ResultStands SlotsComeBack LoneWaiterIsWoken
CHECK_DEADLOCK FALSE
