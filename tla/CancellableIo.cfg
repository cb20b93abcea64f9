SPECIFICATION FairSpec
CONSTANTS
  None = None
CHECK_DEADLOCK FALSE
INVARIANTS
  AwaitableOutlivesUsers
  ResumedOnce
  OutcomeTold
PROPERTIES
  CoAwaitEnds
