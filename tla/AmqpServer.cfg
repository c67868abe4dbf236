CONSTANTS
  request = request
  event = event
  unsupported = unsupported
  Messages <- MCMessages
  Requests <- MCRequests
  Handled <- MCHandled
  Options <- MCOptions
  MaxConnects = 2
SPECIFICATION Spec
CHECK_DEADLOCK FALSE
INVARIANTS
  NacksHitTheirMessage
  ConsumedAfterHandling
  AtMostOnceWithNoAck
PROPERTIES
  ImplementsDelivery
  SetupTerminates
  ListenSettles
  QueueDrains
  RequestsAnswered
