SPECIFICATION SessionSpec
CONSTANTS
  Root = {r1}
  Edit = {e1, e2}
  Alike = {e1, e2}
  Slot = {s1, s2}
  Messages = {"patchStyle", "patchUniversal", "batchUniversal", "undo", "zenithTextEdit", "zenithBatchPatch", "structuralOperation", "commitOne", "commitAll", "healSession"}
  Received = 2
  MaxPolls = 2
  HealPolls = 2
  Faults = {"timeout", "reject"}
  Nil = Nil
CHECK_DEADLOCK FALSE
PROPERTIES EveryHandlerEnds CountSettles
