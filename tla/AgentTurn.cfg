SPECIFICATION FairSpec
CONSTANTS
  read = read
  edit = edit
  run = run
  deploy = deploy
  delegate = delegate
  ghost = ghost
  Call = {edit, run, read, delegate}
  Kind <- KindOf
  Sensitive <- SensitiveCalls
  Modes = {"auto","plan"}
  Ceilings = {1,3,4}
  Costs = {1,2}
  MaxIterations = 3
  DelegateIterations = 1
  MaxToolCalls = 2
  DelegateToolCalls = 1
  MaxCallsPerTurn = 2
  MaxProviderRetries = 1
  MaxLengthContinuations = 0
  MaxVerificationNudges = 1
  MaxToolTurnRecoveries = 0
  MaxUnavailableToolRecoveries = 0
  MaxTurns = 2
  None = None
INVARIANTS
  TurnBooks
  EffectsAsConsented
  CompletedMeansVerified
PROPERTIES
  NothingNewAfterCancel
  TurnsEnd
CHECK_DEADLOCK FALSE
