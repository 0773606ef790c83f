SPECIFICATION Spec
CONSTANTS
  RING_SIZE = 2
  CssCapacity = 1
  Restarts = {}
  MaxEvents = 4
  MaxRestarts = 0
CHECK_DEADLOCK FALSE
INVARIANT NoTornMessage
