SPECIFICATION FileSpec
CONSTANTS
  Tag = {"a"}
  Transparent = {}
  Dotted = {}
  NewTag = "a"
  Branch = {0}
  Inserted = {}
  MaxNodes = 6
  None = None
INVARIANT BlocksPatching
CHECK_DEADLOCK FALSE
