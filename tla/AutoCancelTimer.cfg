SPECIFICATION FairSpec
CONSTANTS
  Callback = {b1, b2}
  None = None
  MaxWaits = 2
CHECK_DEADLOCK FALSE
INVARIANTS
  NoWaitAfterCancel
  TimerOutlivesCallback
PROPERTIES
  CancelEndsWait
