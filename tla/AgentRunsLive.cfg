SPECIFICATION FairSpec
CONSTANTS
  r1 = r1
  r2 = r2
  s1 = s1
  s2 = s2
  s3 = s3
  t1 = t1
  t2 = t2
  o1 = o1
  o2 = o2
  Run = {r1}
  Step = {s1, s2}
  RunOf <- OneRun
  DependsOn <- Free
  Gated = {s2}
  MaxParallelism <- Two
  GlobalParallelism = 4
  Estimate <- Dear
  Quote = 4
  MaxAttempts = 2
  MaxResumes = 1
  StartModes = {"required", "pre-authorized"}
  ProvidersVanish = FALSE
  Tick = {t1, t2}
  Overage = {o1}
  MaxClaims = 3
INVARIANTS
  DeclinedQuoteIsFinal
PROPERTIES
  WorkGoesOn
CHECK_DEADLOCK FALSE
