\* Executions of two models or of none, and one restart, with whatever models are registered after it.
\* The system stops when the bounds on time and executions are reached.
SPECIFICATION Spec
CONSTANTS
  Models <- TwoModels
  Targets <- TwoModelsOrNone
  Failures <- Durable
  HasStore = TRUE
  LongCooldown = 3
  ForcedCooldown = 1
  QuotaFloor = 1
  QuotaBase = 1
  QuotaMax = 2
  MaxTime = 3
  MaxExecution = 2
  MaxRestart = 1
PROPERTIES RestartKeepsCooldowns
CHECK_DEADLOCK FALSE
