SPECIFICATION MCSpec
CONSTANTS
  Api = Api
  Scheduler = Scheduler
  Runners = {Scheduler}
  Retriers = {Api}
  MaxRetries = 1
  NoState = NoState
  MaxCalls = 2
PROPERTIES TerminalIsFinal
CHECK_DEADLOCK FALSE
