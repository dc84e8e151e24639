SPECIFICATION Spec
CONSTANTS
  r1 = r1
  r2 = r2
  s1 = s1
  s2 = s2
  s3 = s3
  t1 = t1
  t2 = t2
  o1 = o1
  o2 = o2
  Run = {r1, r2}
  Step = {s1, s2}
  RunOf <- EachItsOwnRun
  DependsOn <- Free
  Gated = {}
  MaxParallelism <- Two
  GlobalParallelism = 4
  Estimate <- Dear
  Quote = 3
  MaxAttempts = 1
  MaxResumes = 1
  StartModes = {"required", "pre-authorized"}
  ProvidersVanish = FALSE
  Tick = {t1}
  Overage = {o1}
  MaxClaims = 2
INVARIANTS
  ApprovedMoneyOnly
  BooksBalance
  StatusesAgree
PROPERTIES
  DecisionsStand
  ImplementsTaskBudget
CHECK_DEADLOCK FALSE
