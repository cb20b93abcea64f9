SPECIFICATION FairSpec
CONSTANTS
  Source = {s1, s2, s3}
  Token = {t1}
  None = None
INVARIANTS
  TokensAlive
  NoCallbackAfterDestructor
  NoCircularWait
PROPERTIES
  CancelReaches
  NobodyWaitsForEver
CHECK_DEADLOCK FALSE
