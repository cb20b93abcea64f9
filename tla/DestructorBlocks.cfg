SPECIFICATION FairSpec
CONSTANTS
  Callback = {b1}
  None = None
  MaxWaits = 1
CHECK_DEADLOCK FALSE
PROPERTIES
  DestructorReturns
