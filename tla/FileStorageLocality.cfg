CONSTANTS
  Callers = {c1, c2}
  Files <- MCFiles
  Extends <- MCExtends
  Calls <- MCCalls
  Stored <- MCStored
  Options <- ObjectStores
  PageSize = 1
SYMMETRY Symmetry
SPECIFICATION Spec
CHECK_DEADLOCK FALSE
PROPERTIES DeleteDirIsLocal
