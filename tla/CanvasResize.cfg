SPECIFICATION Spec
CONSTANTS
  Element = {a, b}
  Inline = {b}
  Acts = 4
  Pending = 2
  Reach = 6
  Threshold = 3
  None = None
INVARIANT ResizeHolds
CHECK_DEADLOCK FALSE
