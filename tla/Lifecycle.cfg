SPECIFICATION Spec
CONSTANTS
  Root = {r1, r2}
  Client = {c1, c2}
  Starts = 2
  Faults = {"exit", "slow", "missing", "indices"}
  None = None
CHECK_DEADLOCK FALSE
INVARIANTS OneStartPerPort StartingIsUnderWay
PROPERTY DeadIsNoticed
