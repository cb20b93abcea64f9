SPECIFICATION FairSpec
CONSTANTS
  Coro = {c1, c2, c3}
  Main = Main
  Value = {v}
  Exception = Exception
  None = None
INVARIANTS
  NoDanglingFrame
  NoLostWakeup
  WaitFrameOutlivesLambda
PROPERTIES
  ImplementsOneShot
  NobodyWaitsForEver
  FramesReclaimed
