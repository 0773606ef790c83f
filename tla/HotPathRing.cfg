SPECIFICATION Spec
CONSTANTS
  RING_SIZE = 3
  CssCapacity = 1
  Restarts = {"consumer", "session"}
  MaxEvents = 7
  MaxRestarts = 1
CHECK_DEADLOCK FALSE
INVARIANTS TypeOK InStep TornOnlyWhenLapped
PROPERTIES CatchesUp LastEventShown
