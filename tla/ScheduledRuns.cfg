SPECIFICATION ScheduleFairSpec
CONSTANTS
  task1 = task1
  task2 = task2
  digest = digest
  Coding = {task1, task2}
  Calendar = {digest}
  Last <- Endless
  TakeLimit <- Limits
  MaxTime = 2
  MaxEdits = 2
  MaxCuts = 1
INVARIANTS
  OccurrencesAreKept
PROPERTIES
  RecordedOutcomesStand
  SchedulesGoOn
CHECK_DEADLOCK FALSE
