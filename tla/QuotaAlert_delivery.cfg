\* Two instances monitor one account and deliver what they find, while the
\* settings change once and a crash, a lost connection or an early end of a
\* lease happens once.  The system stops when the bounds are reached.
SPECIFICATION FairSpec
CONSTANTS
  instance1 = instance1  instance2 = instance2
  account1 = account1  account2 = account2
  Instances = {instance1, instance2}
  Auths = {account1}
  Levels = {0, 1, 2}
  Settings <- TwoRules
  MaxAttempts = 2
  Nobody = Nobody
  NoReading = NoReading
  NotActive = NotActive
  MaxClock = 3
  MaxRevision = 2
  MaxIncident = 1
INVARIANTS AlertAnnounced DegradedOncePerStreak DuplicatesExplained
PROPERTIES EveryBatchEnds
CHECK_DEADLOCK FALSE
