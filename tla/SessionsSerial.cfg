SPECIFICATION MCSerialSpec
CONSTANTS
  Api = Api
  Scheduler = Scheduler
  Runners = {Api, Scheduler}
  Retriers = {Api, Scheduler}
  MaxRetries = 1
  NoState = NoState
  MaxCalls = 6
INVARIANTS NotStranded
PROPERTIES CommitsAreOperations RunsComeToRest TerminalIsFinal
CHECK_DEADLOCK FALSE
