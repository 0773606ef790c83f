SPECIFICATION Spec
CONSTANTS
  f1 = f1
  f2 = f2
  color = color
  delete = delete
  width = width
  Tx = {t1, t2}
  File = {f1}
  Edit = {e1, e2}
  Intent = {color, delete}
  fileOf <- MCFileOf
  Squash <- MCSquash
  Review <- MCReview
  Original = Original
  Below = Below
  IdeEdit = IdeEdit
  None = None
  Torn = Torn
  Ops = {"universal", "harden", "ide", "library", "toggle_view"}
  Faults = {"crash", "tear", "truncate", "wipe", "surgical", "io"}
  ServeBeforeCrawl = TRUE
SYMMETRY Symmetry
INVARIANTS TypeOK MergedFromStaged StagedIsOrdered IntentsBackedByPatches StagedIsVisible LoadedSavesSurvive
PROPERTY LockNeverStolen
