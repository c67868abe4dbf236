CONSTANTS
  r1 = r1
  r2 = r2
  a = a
  b = b
  c = c
  Requests <- MCRequests
  Files <- MCFiles
  Request <- MCRequest
  Field <- MCField
  Name <- MCName
  Options <- MCOptions
SPECIFICATION Spec
CHECK_DEADLOCK FALSE
INVARIANTS
  HandlerHasItsFiles
  FailedRequestsCleanUp
  LimitsHold
  RemovedOnce
PROPERTIES
  RemovedAfterResponse
