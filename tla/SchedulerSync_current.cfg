\* One goroutine registers, updates and removes; results, refreshes, late stamps, and
\* rebuilds after failed picks beside it; a cooldown restored at startup.
\* The system stops when the bound on writes is reached.
SPECIFICATION Spec
CONSTANTS
  Management = FALSE
  Rebuilds = TRUE
  Records <- AnyRecord
  MaxLag = 1
  MaxClock = 6
  MaxCalls = 3
INVARIANTS ScheduledIsCurrent RemovedIsUnscheduled Repairable
PROPERTIES FenceMonotonic
CHECK_DEADLOCK FALSE
