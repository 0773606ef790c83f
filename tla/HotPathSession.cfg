SPECIFICATION Spec
CONSTANTS
  RING_SIZE = 3
  CssCapacity = 2
  Restarts = {"session"}
  MaxEvents = 4
  MaxRestarts = 1
CHECK_DEADLOCK FALSE
PROPERTY LastEventOfAnySessionShown
