----------------------------- MODULE MCServices -----------------------------
(***************************************************************************)
(* The task runs, the rate limiter and the policy ingestion on small       *)
(* tables, for TLC.  They share no state: a behaviour is of one of them.   *)
(***************************************************************************)
EXTENDS TaskRuns, RateLimiter, PolicyIngestion

CONSTANTS
  t1, t2,         \* the tasks: t1 has a retry, and is dispatched after t2
  MaxInterrupts,  \* bounds of the disturbances of the task runs
  MaxToggles,
  MaxMoves,
  MaxNow          \* the last tick of the rate limiter's clock

VARIABLES
  part,     \* which of the three the behaviour is of
  toggles,  \* how often a task was enabled or disabled
  moves     \* how often others moved a workflow

mcVars == <<taskVars, limiterVars, ingestVars, part, toggles, moves>>

MCRank == [t \in Tasks |-> IF t = t1 THEN 2 ELSE 0]
MCMaxRetries == [t \in Tasks |-> IF t = t1 THEN 1 ELSE 0]
MCMaxTargets == [t \in Tasks |-> 2]
MCDocuments == {2, 6}

-----------------------------------------------------------------------------
\* There is a run left for every task that is due.
Unused == {r \in Runs : runs[r].status = "none"}
Awaited == {t \in Tasks : tasks[t].next = "due" \/ t \in queue.tasks}
Spare == Cardinality(Unused) > Cardinality(Awaited)

\* The loop of an attempt reads nothing that others write, nor the other way
\* round, so it is explored without interleavings.
InLoop(p) == workers[p].step \in {"create", "items"}
Loop == \E p \in Workers : InLoop(p) /\ AttemptStep(p)
Others ==
  /\ \A p \in Workers : ~ InLoop(p)
  /\ \/ AttemptStep("api") \/ DispatcherStep
     \/ Spare /\ \E t \in Tasks : RunTask(t) \/ TaskFalls(t)
     \/ \E r \in Runs : RetryFalls(r)

\* A behaviour has one kind of disturbance, before its last run is created.
Early == Unused # {}

MCInterrupt ==
  /\ Early
  /\ Cardinality(Unused) >= Cardinality(Awaited)
  /\ toggles + moves = 0 /\ interrupts < MaxInterrupts
  /\ \E p \in Workers : Interrupt(p)

\* One task is switched off, and on, while the dispatcher is at work.
Toggle ==
  /\ interrupts + moves = 0 /\ toggles < MaxToggles /\ toggles' = toggles + 1
  /\ \A p \in Workers : ~ InLoop(p)
  /\ \/ Early /\ (queue # NoQueue \/ ~ Doing("dispatcher", "idle"))
     \/ ~ tasks[t1].enabled
  /\ SetEnabled(t1, ~ tasks[t1].enabled)
  /\ UNCHANGED moves

\* Somebody moves a workflow of the first run.
Move ==
  /\ interrupts + toggles = 0 /\ moves < MaxMoves /\ moves' = moves + 1
  /\ Early
  /\ \E i \in 1 .. 2 : OthersMove(1, i)
  /\ UNCHANGED toggles

\* Run ids are used in order.
InOrder ==
  \A r \in Runs : runs'[r].status # "none" => \A q \in 1 .. r : runs'[q].status # "none"

\* The first run has two targets, the second has one or none.
OneLarge ==
  \A p \in Workers :
    workers'[p].step = "create" => (workers'[p].targets = 2) = (workers'[p].run = 1)

TasksNext ==
  /\ part = "tasks"
  /\ Toggle \/ Move \/ ((Loop \/ Others \/ MCInterrupt) /\ UNCHANGED <<toggles, moves>>)
  /\ InOrder /\ OneLarge
  /\ UNCHANGED <<limiterVars, ingestVars, part>>

LimiterPartNext ==
  /\ part = "limiter"
  /\ LimiterNext /\ now' <= MaxNow
  /\ UNCHANGED <<taskVars, ingestVars, part, toggles, moves>>

PoliciesNext ==
  /\ part = "policies"
  /\ IngestNext
  /\ UNCHANGED <<taskVars, limiterVars, part, toggles, moves>>

MCServicesInit ==
  /\ part \in {"tasks", "limiter", "policies"}
  /\ TaskInit /\ (\A t \in Tasks : tasks[t].enabled) /\ toggles = 0 /\ moves = 0
  /\ LimiterInit /\ IngestInit

MCServicesNext == TasksNext \/ LimiterPartNext \/ PoliciesNext

\* TaskFairness, in the part of the tasks; in the others no task ever runs.
MCTaskFairness ==
  /\ WF_mcVars(AttemptStep("api") /\ UNCHANGED <<limiterVars, ingestVars, part, toggles, moves>>)
  /\ WF_mcVars(DispatcherStep /\ UNCHANGED <<limiterVars, ingestVars, part, toggles, moves>>)
  /\ \A r \in Runs :
       WF_mcVars(RetryFalls(r) /\ UNCHANGED <<limiterVars, ingestVars, part, toggles, moves>>)

MCServicesSpec == MCServicesInit /\ [][MCServicesNext]_mcVars /\ MCTaskFairness

=============================================================================
