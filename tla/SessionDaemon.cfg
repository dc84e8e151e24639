SPECIFICATION DaemonFairSpec
CONSTANTS
  tui = tui
  ide = ide
  s1 = s1
  k1 = k1
  k2 = k2
  s2 = s2
  Clients = {tui, ide}
  Prompters = {tui}
  Sessions = {s1}
  Commands = {k1, k2}
  KeepCommands = 1
  MaxAgents = 2
  MaxSends = 2
  MaxAsks = 1
INVARIANTS
  SessionsAreServed
  RetryReturnsTheFirst
PROPERTIES
  EveryCallEnds
CHECK_DEADLOCK FALSE
