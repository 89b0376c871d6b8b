SPECIFICATION MCSpec
CONSTANTS
  Workflows = {w1}
  one = one
  two = two
  Values = {one, two}
  Default = one
  Nil = Nil
  Unread = Unread
  Requests <- MCRequests
  Intents = {"PAYROLL_ANOMALY", "DATA_CORRECTION"}
  MaxTries = 1
  MaxRetries = 1
  CallerTargets = {"FAILED", "RECEIVED"}
  MaxCrashes = 1
  MaxEdits = 1
  MaxAges = 1
INVARIANTS OrchestratorTypeOK    RepetitionsNeedCrash
PROPERTIES RecordedIsNotRepeated RunsEnd 
CHECK_DEADLOCK FALSE
