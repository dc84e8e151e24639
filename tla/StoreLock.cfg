SPECIFICATION FairSpec
CONSTANTS
  p1 = p1
  p2 = p2
  p3 = p3
  NoProcess = NoProcess
  Process = {p1, p2}
  Kinds = {"jobs", "session"}
  Attempts = 2
  MaxUpdates = 2
  MaxCrashes = 1
INVARIANTS
  StoreIsSafe
PROPERTIES
  ImplementsAtomicStore
  DeadLockIsCleared
CHECK_DEADLOCK FALSE
