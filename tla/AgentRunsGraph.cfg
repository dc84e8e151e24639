SPECIFICATION Spec
CONSTANTS
  r1 = r1
  r2 = r2
  s1 = s1
  s2 = s2
  s3 = s3
  t1 = t1
  t2 = t2
  o1 = o1
  o2 = o2
  Run = {r1}
  Step = {s1, s2, s3}
  RunOf <- OneRun
  DependsOn <- Join
  Gated = {}
  MaxParallelism <- Two
  GlobalParallelism = 4
  Estimate <- Cheap
  Quote = 3
  MaxAttempts = 2
  MaxResumes = 1
  StartModes = {"pre-authorized"}
  ProvidersVanish = TRUE
  Tick = {t1, t2}
  Overage = {o1}
  MaxClaims = 3
INVARIANTS
  TypeOK
  ClaimsFollowThePlan
PROPERTIES
  OnlyTheLatestClaimCharges
  DoneIsDone
SYMMETRY TickSymmetry
CHECK_DEADLOCK FALSE
