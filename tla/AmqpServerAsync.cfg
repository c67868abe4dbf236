CONSTANTS
  request = request
  event = event
  unsupported = unsupported
  Messages <- TwoMessages
  Requests <- TwoMessages
  Handled <- TwoHandled
  Options <- AsyncOptions
  MaxConnects = 2
SPECIFICATION Spec
CHECK_DEADLOCK FALSE
INVARIANT OnlyUnsupportedDiscarded
