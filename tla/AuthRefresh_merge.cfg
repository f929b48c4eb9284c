\* One loop, a request that refreshes too, an edit, a result, a new registration.
\* The system stops when the bounds are reached.
SPECIFICATION Spec
CONSTANTS
  c = c
  Callers = {c}
  Failures <- AllFailures
  Errors <- SomeErrors
  Lead = 1
  Life = 2
  Pending = 1
  Backoff = 1
  Ineffective = 1
  Interval = 2
  Cooldown = 2
  MaxClock = 2
  MaxLoop = 1
  MaxEpoch = 2
  MaxEvents = 2
  MaxToken = 3
INVARIANTS NoPhantomJob Watched NewestToken ChangesKept
CHECK_DEADLOCK FALSE
