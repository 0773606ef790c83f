SPECIFICATION Spec
CONSTANTS
  Root = {r1, r2}
  Client = {c1, c2}
  Starts = 2
  Faults = {"indices"}
  None = None
INVARIANT ClaimedIsUnderWay
CHECK_DEADLOCK FALSE
