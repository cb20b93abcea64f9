SPECIFICATION Spec
CONSTANTS
  Source = {s1}
  Token = {t1}
  None = None
CHECK_DEADLOCK FALSE
INVARIANTS
  AssociatedIsCancelled
