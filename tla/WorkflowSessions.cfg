SPECIFICATION MCCrashSpec
CONSTANTS
  Api = Api
  Scheduler = Scheduler
  Runners = {Scheduler}
  Retriers = {Api}
  MaxRetries = 1
  NoState = NoState
  MaxCalls = 3
INVARIANTS SessionTypeOK RetriesWithinBudget 
PROPERTIES CallsEnd
CHECK_DEADLOCK FALSE
