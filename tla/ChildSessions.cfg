SPECIFICATION ChildFairSpec
CONSTANTS
  c1 = c1
  c2 = c2
  c3 = c3
  NoChild = NoChild
  Children = {c1, c2}
  Total = 3
  Amounts = {1, 2}
  MaxChildTurns = 2
INVARIANTS
  PoolIsShared
  TeardownLeavesNothing

  
CHECK_DEADLOCK FALSE
