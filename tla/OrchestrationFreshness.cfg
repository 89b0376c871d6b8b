SPECIFICATION MCSpec
CONSTANTS
  Workflows = {w1}
  one = one
  two = two
  Values = {one, two}
  Default = one
  Nil = Nil
  Unread = Unread
  Requests <- MCRequests
  Intents = {"PAYROLL_ANOMALY", "DATA_CORRECTION"}
  MaxTries = 1
  MaxRetries = 1
  CallerTargets = {"FAILED", "RECEIVED"}
  MaxCrashes = 0
  MaxEdits = 0
  MaxAges = 1
INVARIANT InvestigatesFreshData
CHECK_DEADLOCK FALSE
