SPECIFICATION Spec
CONSTANTS
  Element = {a, b}
  Inline = {b}
  Acts = 4
  Pending = 2
  Reach = 6
  Threshold = 3
  None = None
INVARIANTS GestureOwnsState LiveIsOwned TextOnce SettledBetween ResizeHoldsOrSnaps SnapsToNearest
PROPERTY Restored
CHECK_DEADLOCK FALSE
