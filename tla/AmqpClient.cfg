CONSTANTS
  request = request
  other = other
  event = event
  Calls <- MCCalls
  Events <- MCEvents
  Options <- MCOptions
  MaxConnects = 2
  MaxClients = 2
SPECIFICATION Spec
CONSTRAINT CallsMade
CHECK_DEADLOCK FALSE
INVARIANTS
  TypeOK
  WaitingCallsAreOnTheirWay
  ReplyConsumerIsThere
  NoListenerLeak
  NoGapWithDirectReplies
PROPERTIES
  ImplementsRpc
  ConnectionSettles
  DurableRepliesArrive
