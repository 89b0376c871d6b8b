SPECIFICATION MCSerialSpec
CONSTANTS
  Api = Api
  Scheduler = Scheduler
  Runners = {Scheduler}
  Retriers = {Api}
  MaxRetries = 1
  NoState = NoState
  MaxCalls = 2
INVARIANTS LedgerExplainsRow
CHECK_DEADLOCK FALSE
