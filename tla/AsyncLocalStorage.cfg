CONSTANTS
  first = first
  second = second
  own = own
  other = other
  Requests <- MCRequests
  Services <- MCServices
  Own = own
  Keys <- MCKeys
  Options <- MCOptions
  None = None
  MaxMaps = 3
  MaxDepth = 3
SPECIFICATION Spec
SYMMETRY Symmetry
CHECK_DEADLOCK FALSE
INVARIANTS
  Isolated
  InterceptorRestores
PROPERTIES
  HandlerStartsInContext
