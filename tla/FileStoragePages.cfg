CONSTANTS
  Callers = {c1, c2}
  Files <- MCFiles
  Extends <- MCExtends
  Calls <- MCCalls
  Stored <- MCStored
  Options <- PerRequest
  PageSize = 1
SYMMETRY Symmetry
SPECIFICATION Spec
CHECK_DEADLOCK FALSE
INVARIANTS DeletedDirsAreEmpty
