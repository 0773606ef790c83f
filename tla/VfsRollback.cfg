SPECIFICATION HistorySpec
CONSTANTS
  f1 = f1
  f2 = f2
  color = color
  delete = delete
  width = width
  Tx = {t1, t2}
  File = {f1}
  Edit = {e1, e2}
  Intent = {delete}
  fileOf <- MCFileOf
  Squash <- MCSquash
  Review <- MCReview
  Original = Original
  Below = Below
  IdeEdit = IdeEdit
  None = None
  Torn = Torn
  Ops = {}
  Faults = {"crash"}
  ServeBeforeCrawl = TRUE
SYMMETRY Symmetry
INVARIANT DiscardedStaysOut
