SPECIFICATION SessionSpec
CONSTANTS
  Root = {r1, r2}
  Edit = {e1, e2}
  Alike = {e1, e2}
  Slot = {s1, s2}
  Messages = {"patchStyle", "zenithTextEdit", "zenithBatchPatch", "structuralOperation", "commitOne", "commitAll", "healSession"}
  Received = 2
  MaxPolls = 2
  HealPolls = 2
  Faults = {}
  Nil = Nil
CHECK_DEADLOCK FALSE
INVARIANT StagedWhereItWasMade
