SPECIFICATION FileSpec
CONSTANTS
  Tag = {"a", "b", "R.F"}
  Transparent = {"R.F"}
  Dotted = {"R.F"}
  NewTag = "b"
  Branch = {0, 1}
  Inserted = {0, 1}
  MaxNodes = 4
  None = None
INVARIANTS PlainRoundTrip LockHolds SiblingsKept
CHECK_DEADLOCK FALSE
