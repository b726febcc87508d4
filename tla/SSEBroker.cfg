SPECIFICATION Spec
CONSTANTS
  c1 = c1
  c2 = c2
  p = p
  u1 = u1
  u2 = u2
  User = {u1, u2}
  Client = {c1, c2}
  Owner <- MCOwner
  Caller = {p}
  MaxClientBuffer = 1
  MaxMessageBuffer = 1
  BufferSize = 1
CHECK_DEADLOCK FALSE
ACTION_CONSTRAINT Scene
INVARIANTS
  ChannelsClosedOnce
  OwnMessagesOnly
PROPERTIES
  SubscribersGetMessages
  CallsReturn
  StreamsEnd
