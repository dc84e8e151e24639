SPECIFICATION FairSpec
CONSTANTS
  b1 = b1
  b2 = b2
  None = None
  Boxes = {b1, b2}
  MaxClaims = 2
  Steps = 2
  MaxAttempts = 2
  MaxFaults = 1
INVARIANTS
  BoxesAreSafe
PROPERTIES
  SandboxesAreCollected
CHECK_DEADLOCK FALSE
