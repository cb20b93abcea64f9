SPECIFICATION FairSpec
CONSTANTS
  MaxTasks = 3
  None = None
  Torn = Torn
CHECK_DEADLOCK FALSE
INVARIANTS
  BlockOutlivesHelpers
  ResumedOnce
  Delivered
PROPERTIES
  ImplementsGather
  CoroutineResumes
