SPECIFICATION FairSpec
CONSTANTS
  p1 = p1
  p2 = p2
  s1 = s1
  s2 = s2
  Orphan = Orphan
  NoSession = NoSession
  Process = {p1, p2}
  Session = {s1}
  Owner <- WrittenByFirst
  MaxTurns = 2
  MaxFaults = 1
  MaxBusy = 2
INVARIANTS
  HistoryIsTrue
  NextReadObserves
PROPERTIES
  RefreshSettles
CHECK_DEADLOCK FALSE
