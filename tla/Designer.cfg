SPECIFICATION Spec
CONSTANTS
  Element = {a, b}
  Sides = 2
  Dropped = {4}
  MaxHistory = 2
  Edits = 3
  Gestures = 4
  Requests = 2
  Pending = 2
  None = None
INVARIANT SentForItsElement
PROPERTIES NewestIsSent BadgeSettles
CHECK_DEADLOCK FALSE
