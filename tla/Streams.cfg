SPECIFICATION MCSpec
CONSTANTS
  Consumer = {k1, k2}
  Canceller = {t1, t2}
  Item = {i1, i2}
  Failure = {operation_cancelled, error}
  None = None
  MaxQueue = 2
  MaxReceived = 2
  MaxValues = 3
INVARIANTS
  NoStrandedConsumer
  LinkedWhileSuspended
  SoundIteration
PROPERTIES
  ImplementsChannel
  ConsumersServed
  ValuesInOrder
  ConsumerResumes
CHECK_DEADLOCK FALSE
