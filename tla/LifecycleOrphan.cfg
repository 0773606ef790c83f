SPECIFICATION Spec
CONSTANTS
  Root = {r1, r2}
  Client = {c1, c2}
  Starts = 2
  Faults = {}
  None = None
INVARIANT StartedIsRegistered
CHECK_DEADLOCK FALSE
