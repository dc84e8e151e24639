SPECIFICATION Spec
CONSTANTS
  j1 = j1
  j2 = j2
  d1 = d1
  d2 = d2
  Job = {j1, j2}
  CreatedAt <- FirstThenSecond
  Recurring = {j2}
  Digest = {d1, d2}
  MaxAttempts = 2
  MaxAsks = 2
  None = None
INVARIANTS
  RecordsOK
  ApprovalsAreHonoured
PROPERTIES
  LeasesAndOutcomesStand
SYMMETRY Symmetry
CHECK_DEADLOCK FALSE
