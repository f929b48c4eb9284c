\* One instance monitors two accounts under one rule.
SPECIFICATION Spec
CONSTANTS
  instance1 = instance1  instance2 = instance2
  account1 = account1  account2 = account2
  Instances = {instance1}
  Auths = {account1, account2}
  Levels = {0, 3}
  Settings <- OneRule
  MaxAttempts = 1
  Nobody = Nobody
  NoReading = NoReading
  NotActive = NotActive
  MaxClock = 2
  MaxRevision = 1
  MaxIncident = 0
PROPERTIES ObservedIsRecorded
CHECK_DEADLOCK FALSE
