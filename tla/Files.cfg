SPECIFICATION MCSpec
CONSTANTS
  None = None
  Unreadable = Unreadable
  Requests = {r1, r2}
  Files <- FileSet
  Fallbacks = {"other"}
  Owners = {"alex"}
  Categories = {"food", "other"}
  Arrivals <- ArrivalSet
  Today = 6
  MaxFiles = 2
SYMMETRY Interchangeable
INVARIANTS
  StatementsAddUp
  CellsReadBack
  RestoreIsFaithful
  MergeKeepsBoth
PROPERTIES
  HeadlineOnlyForward
CHECK_DEADLOCK FALSE
