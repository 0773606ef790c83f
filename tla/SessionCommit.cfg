SPECIFICATION SessionSpec
CONSTANTS
  Root = {r1}
  Edit = {e1, e2}
  Alike = {e1, e2}
  Slot = {s1}
  Messages = {"patchStyle", "zenithTextEdit", "zenithBatchPatch", "structuralOperation", "commitOne", "commitAll", "healSession"}
  Received = 2
  MaxPolls = 2
  HealPolls = 2
  Faults = {}
  Nil = Nil
CHECK_DEADLOCK FALSE
INVARIANT CommittedIsNotCounted
