SPECIFICATION MCSpec
CONSTANTS
  Api = Api
  Scheduler = Scheduler
  Runners = {Scheduler}
  Retriers = {Api, Scheduler}
  MaxRetries = 1
  NoState = NoState
  MaxCalls = 3
INVARIANTS RetriesWithinBudget
CHECK_DEADLOCK FALSE
