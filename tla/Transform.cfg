SPECIFICATION Spec
CONSTANTS
  Slot = {s1, s2}
  Texts = 2
  Attempts = 2
  Tries = 2
  Ports = 3
INVARIANT KeepsAsking
PROPERTIES EveryTransformEnds Reconnects
