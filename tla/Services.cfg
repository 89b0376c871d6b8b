SPECIFICATION MCServicesSpec
CONSTANTS
  t1 = t1
  t2 = t2
  Tasks = {t1, t2}
  Runs = {1, 2}
  Scheduled = {t1, t2}
  Rank <- MCRank
  MaxRetries <- MCMaxRetries
  MaxWorkflowRetries = 1
  Timed = {t1}
  MaxTargets <- MCMaxTargets
  Nil = Nil
  MaxInterrupts = 1
  MaxToggles = 2
  MaxMoves = 1
  Clients = {a, b}
  Limit = 2
  Seconds = 2
  TicksASecond = 2
  MaxNow = 6
  Policies = {p, q}
  Documents <- MCDocuments
  Callers = {u, v}
  ChunkSize = 3
  Overlap = 1
  Units = {unit}
  AnyUnit = AnyUnit
  NoPolicy = NoPolicy
INVARIANTS TaskTypeOK OneWorkerPerRun RunRetryBudget   WindowBound FoundWhole CutsOverlap
PROPERTIES FinishedIsFinal RetriesEnd PatientIsServed
CHECK_DEADLOCK FALSE
