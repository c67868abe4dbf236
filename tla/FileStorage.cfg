CONSTANTS
  Callers = {c1, c2, c3}
  Files <- MCFiles
  Extends <- MCExtends
  Calls <- MCCalls
  Stored <- MCStored
  Options <- MCOptions
  PageSize = 1
SYMMETRY Symmetry
SPECIFICATION Spec
CHECK_DEADLOCK FALSE
INVARIANTS UploadsAreWhole MovesKeepTheFile DeletedDirsAreEmpty DirsAreMade ListingsAgree
PROPERTIES OnlyNamedPathsChange
