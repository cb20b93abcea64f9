SPECIFICATION MCSpec
CONSTANTS
  User = {u1, u2, u3}
  Result = {v, ex}
  Setter = setter
  None = None
  Item = {i1, i2}
  Failure = {operation_cancelled, error}
  Nothing = Nothing
  MaxQueue = 2
  MaxReceived = 4
INVARIANTS
  FutureAwaitedOnce
  ImplOutlivesStart
  NoStrandedConsumer
PROPERTIES
  UsersResume
  ImplementsChannel
  ConsumerServed
CHECK_DEADLOCK FALSE
