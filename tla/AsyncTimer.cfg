SPECIFICATION FairSpec
CONSTANTS
  Canceller = {t1, t2}
  Callback = {b1, b2}
  None = None
  MaxWaits = 2
CHECK_DEADLOCK FALSE
INVARIANTS
  ResumedOnce
  CancelledWaitThrows
  EarlyEndIsInherited
PROPERTIES
  WaitEnds
