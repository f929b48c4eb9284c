\* Three executions over two models or none in any order of results; cooling switched
\* off and on between failures, cooldowns enforced over that; no restart.
\* The system stops when the bounds on time and executions are reached.
SPECIFICATION Spec
CONSTANTS
  Models <- TwoModels
  Targets <- TwoModelsOrNone
  Failures <- EachEffect
  HasStore = FALSE
  LongCooldown = 3
  ForcedCooldown = 1
  QuotaFloor = 1
  QuotaBase = 1
  QuotaMax = 2
  MaxTime = 3
  MaxExecution = 3
  MaxRestart = 0
INVARIANTS CredentialQuotaHolds
PROPERTIES StaleSuccessHarmless FailureNeverShortens BackoffOncePerWindow ForcedCoolsDown
CHECK_DEADLOCK FALSE
