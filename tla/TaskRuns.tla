------------------------------ MODULE TaskRuns ------------------------------
(***************************************************************************)
(* Scheduled tasks and their durable runs: TaskService, TaskRepository,    *)
(* TaskScheduler and the task endpoints.                                   *)
(*                                                                         *)
(* Two workers attempt runs: the dispatcher, a job of which at most one    *)
(* instance runs at a time, and the event loop, which serves /run and      *)
(* while it does so nothing else.  An attempt creates a workflow for each  *)
(* employee its task is about and runs them one after the other; an        *)
(* attempt that is a retry goes over the workflows the run has stored.     *)
(* Each step here ends with a commit.  What happens inside the run of a    *)
(* workflow is in Orchestrator and WorkflowSessions.                       *)
(***************************************************************************)
EXTENDS Naturals, Sequences, FiniteSets

CONSTANTS
  Tasks,
  Runs,                \* run ids
  Scheduled,           \* the tasks with trigger_type SCHEDULE
  Rank,                \* PRIORITY_ORDER, 0 before 1
  MaxRetries,          \* retry_config.max_retries of each task
  MaxWorkflowRetries,  \* Workflow.max_retries
  Timed,               \* the tasks with timeout_seconds
  MaxTargets,          \* the most employees each task may be about
  Nil                  \* None

ASSUME ScheduledAssumption == Scheduled \subseteq Tasks
ASSUME TimedAssumption == Timed \subseteq Tasks
ASSUME RankAssumption == Rank \in [Tasks -> 0 .. 3]
ASSUME MaxRetriesAssumption == MaxRetries \in [Tasks -> 0 .. 20]
ASSUME MaxWorkflowRetriesAssumption == MaxWorkflowRetries \in Nat
ASSUME MaxTargetsAssumption == MaxTargets \in [Tasks -> Nat]
ASSUME NilAssumption == Nil \notin Tasks /\ Nil \notin Runs

VARIABLES
  tasks,      \* tasks[t]: the ScheduledTask row
  runs,       \* runs[r]: the TaskRun row
  workflows,  \* workflows[r]: the workflows created for run r, in order
  workers,    \* workers[p]: what a worker has in hand
  queue,      \* the runs, and then the tasks, the dispatcher has read as due
  attempts,   \* history: how often run r was attempted
  fires,      \* history: how often the time of task t came
  lost,       \* history: the runs whose attempt was interrupted
  interrupts  \* history: how often a worker was interrupted

history  == <<attempts, fires, lost, interrupts>>
taskVars == <<tasks, runs, workflows, workers, queue, history>>

Workers == {"api", "dispatcher"}

\* Times are before or after now.
Moment == {"none", "later", "due"}
Status == {"none", "PENDING", "RUNNING", "RETRY_SCHEDULED", "SUCCESS", "FAILED"}
Finished == {"SUCCESS", "FAILED"}

\* A workflow is ready for run (RECEIVED, APPROVED or clarified), FAILED, or
\* refused by run: done, for now at least, or stuck in a run cut short.
\* `doneAt` is the attempt that brought it there.
Workflow == [state : {"ready", "FAILED", "done", "stuck"}, retries : Nat, doneAt : Nat]
TaskRow == [enabled : BOOLEAN, next : Moment]
RunRow  == [ task : Tasks \cup {Nil}, status : Status, by : Workers \cup {Nil},
             retries : 0 .. 20, retryAt : Moment, results : Seq(BOOLEAN) \cup {Nil} ]

\* `items` is the list of outcomes in memory; `wrote` says that a workflow of
\* this attempt was moved, so that the session has forgotten the run's row.
Step == {"idle", "begin", "create", "items", "moveNext"}
Worker == [ step : Step, task : Tasks \cup {Nil}, run : Runs \cup {Nil},
            fresh : BOOLEAN, targets : Nat, items : Seq(BOOLEAN), item : Nat,
            failed : BOOLEAN, wrote : BOOLEAN ]

Free == [ step |-> "idle", task |-> Nil, run |-> Nil, fresh |-> FALSE, targets |-> 0,
          items |-> << >>, item |-> 0, failed |-> FALSE, wrote |-> FALSE ]
NoRun == [ task |-> Nil, status |-> "none", by |-> Nil, retries |-> 0,
           retryAt |-> "none", results |-> Nil ]

\* `loaded`: nothing was committed since the tasks were read, and the session
\* goes by the rows as they were then.
NoQueue == [runs |-> {}, tasks |-> {}, open |-> FALSE, loaded |-> FALSE]

\* next_fire
NextFire(t) == IF t \in Scheduled THEN "later" ELSE "none"

\* create_task
NewTask(t, enabled) ==
  [enabled |-> enabled, next |-> IF enabled THEN NextFire(t) ELSE "none"]

TaskInit ==
  /\ \E enabled \in [Tasks -> BOOLEAN] :
       tasks = [t \in Tasks |-> NewTask(t, enabled[t])]
  /\ runs = [r \in Runs |-> NoRun]
  /\ workflows = [r \in Runs |-> << >>]
  /\ workers = [p \in Workers |-> Free]
  /\ queue = NoQueue
  /\ attempts = [r \in Runs |-> 0]
  /\ fires = [t \in Tasks |-> 0]
  /\ lost = {}
  /\ interrupts = 0

Doing(p, step) == workers[p].step = step
Now(p, worker) == workers' = [workers EXCEPT ![p] = worker]

-----------------------------------------------------------------------------
(***************************************************************************)
(* Starting an attempt.                                                    *)
(***************************************************************************)

\* TaskRepository.create_run, on behalf of execute.
CreateRun(p, t) ==
  \E r \in Runs :
    /\ runs[r].status = "none"
    /\ runs' = [runs EXCEPT ![r] = [NoRun EXCEPT !.task = t, !.status = "PENDING", !.by = p]]
    /\ Now(p, [Free EXCEPT !.step = "begin", !.task = t, !.run = r, !.fresh = TRUE])
    /\ UNCHANGED <<tasks, workflows, history>>

\* POST /{task_id}/run; a disabled task is refused.
RunTask(t) ==
  /\ Doing("api", "idle") /\ tasks[t].enabled
  /\ CreateRun("api", t)
  /\ UNCHANGED queue

\* _attempt: the first commit; then the outcomes of a run that has none are
\* an empty list.
Begin(p) ==
  LET k == workers[p]
      r == k.run
  IN  /\ Doing(p, "begin")
      /\ runs' = [runs EXCEPT ![r].status = "RUNNING", ![r].retryAt = "none"]
      /\ attempts' = [attempts EXCEPT ![r] = @ + 1]
      /\ \/ /\ k.fresh
            /\ \E n \in 0 .. MaxTargets[k.task] : Now(p, [k EXCEPT !.step = "create", !.targets = n])
         \/ /\ ~ k.fresh
            /\ Now(p, [k EXCEPT !.step = "items",
                         !.items = IF runs[r].results = Nil THEN << >> ELSE runs[r].results])
      /\ UNCHANGED <<tasks, workflows, queue, fires, lost, interrupts>>

\* One workflow for each of the targets.
CreateWorkflow(p) ==
  LET k == workers[p]
  IN  /\ Doing(p, "create") /\ k.targets > 0
      /\ workflows' = [workflows EXCEPT ![k.run] =
           Append(@, [state |-> "ready", retries |-> 0, doneAt |-> 0])]
      /\ Now(p, [k EXCEPT !.items = Append(@, FALSE),
                          !.step = IF Len(k.items) + 1 = k.targets THEN "items" ELSE @])
      /\ UNCHANGED <<tasks, runs, queue, history>>

-----------------------------------------------------------------------------
(***************************************************************************)
(* The end of an attempt.                                                  *)
(***************************************************************************)

\* The dispatcher goes on to update_next_run, after a task it executed.
Leave(p) ==
  Now(p, IF p = "dispatcher" /\ workers[p].fresh
         THEN [Free EXCEPT !.step = "moveNext", !.task = workers[p].task] ELSE Free)

\* Mutant of ScheduleRetryOrFail: the last retry is not counted as one.
ScheduleRetryOrFailLate(row) ==
  IF row.retries <= MaxRetries[row.task]
  THEN [row EXCEPT !.retries = @ + 1, !.status = "RETRY_SCHEDULED", !.retryAt = "later"]
  ELSE [row EXCEPT !.status = "FAILED"]

\* Mutant of ScheduleRetryOrFail: retry_count counts down.
ScheduleRetryCountdown(row) ==
  IF row.retries < MaxRetries[row.task]
  THEN [row EXCEPT !.retries = @ - 1, !.status = "RETRY_SCHEDULED", !.retryAt = "later"]
  ELSE [row EXCEPT !.status = "FAILED"]

\* _schedule_retry_or_fail; the delay is in the future in any case.
ScheduleRetryOrFail(row) ==
  IF row.retries < MaxRetries[row.task]
  THEN [row EXCEPT !.retries = @ + 1, !.status = "RETRY_SCHEDULED", !.retryAt = "later"]
  ELSE [row EXCEPT !.status = "FAILED"]

\* An exception, also that of a task about nobody: what the attempt had found
\* is not stored.
Raise(p) ==
  LET r == workers[p].run
  IN  /\ runs' = [runs EXCEPT ![r] = ScheduleRetryOrFail(@)]
      /\ Leave(p)
      /\ UNCHANGED <<tasks, queue, history>>

NoTargets(p) ==
  /\ Doing(p, "create") /\ workers[p].targets = 0
  /\ Raise(p)
  /\ UNCHANGED workflows

\* The list that was read from the row is changed in place, and compares
\* equal to itself: it is written only if a commit made the session forget it.
Stored(k, row) ==
  IF k.wrote \/ row.results = Nil THEN [row EXCEPT !.results = k.items] ELSE row

Close(p) ==
  LET k   == workers[p]
      row == Stored(k, runs[k.run])
  IN  /\ Doing(p, "items") /\ k.item = Len(k.items)
      /\ runs' = [runs EXCEPT ![k.run] =
           IF k.failed THEN ScheduleRetryOrFail(row) ELSE [row EXCEPT !.status = "SUCCESS"]]
      /\ Leave(p)
      /\ UNCHANGED <<tasks, workflows, queue, history>>

-----------------------------------------------------------------------------
(***************************************************************************)
(* The loop over the workflows.                                            *)
(***************************************************************************)

\* What the attempt does next with the outcome of workflow k.item + 1.
Outcome(k, success, wrote) ==
  [k EXCEPT !.item = @ + 1, !.items[k.item + 1] = success,
            !.failed = @ \/ ~ success, !.wrote = @ \/ wrote]

MoveWorkflow(p, state, retries) ==
  LET k == workers[p]
  IN  workflows' = [workflows EXCEPT ![k.run][k.item + 1] =
        [ state |-> state, retries |-> retries,
          doneAt |-> IF state = "done" THEN attempts[k.run] ELSE @.doneAt ]]

AtItem(p) == Doing(p, "items") /\ workers[p].item < Len(workers[p].items)
Here(p) == workflows[workers[p].run][workers[p].item + 1]

\* retry_workflow makes a failed workflow runnable while it has retries left.
Retried(w) == w.state = "FAILED" /\ w.retries < MaxWorkflowRetries
Runnable(w) == w.state = "ready" \/ Retried(w)
RetriesAfter(w) == IF Retried(w) THEN w.retries + 1 ELSE w.retries

\* Before the workflow is looked at the time of the attempt is over.
TimesOut(p) ==
  LET k == workers[p]
  IN  /\ AtItem(p) /\ k.task \in Timed
      /\ Now(p, Outcome(k, FALSE, FALSE))
      /\ UNCHANGED <<tasks, runs, workflows, queue, history>>

\* Mutant of Refused: a workflow that is done counts as a success.
RefusedUnlessDone(p) ==
  LET k == workers[p]
  IN  /\ AtItem(p) /\ ~ Runnable(Here(p))
      /\ Now(p, Outcome(k, Here(p).state = "done", FALSE))
      /\ UNCHANGED <<tasks, runs, workflows, queue, history>>

\* retry_workflow or run refuses the workflow.
Refused(p) ==
  LET k == workers[p]
  IN  /\ AtItem(p) /\ ~ Runnable(Here(p))
      /\ Now(p, Outcome(k, FALSE, FALSE))
      /\ UNCHANGED <<tasks, runs, workflows, queue, history>>

\* The workflow is run and comes to rest: done, though maybe too late; or
\* failed.
RunWorkflow(p) ==
  LET k == workers[p]
      w == Here(p)
  IN  /\ AtItem(p) /\ Runnable(w)
      /\ \/ /\ MoveWorkflow(p, "done", RetriesAfter(w))
            /\ \E late \in {FALSE} \cup {k.task \in Timed} : Now(p, Outcome(k, ~ late, TRUE))
         \/ /\ MoveWorkflow(p, "FAILED", RetriesAfter(w))
            /\ Now(p, Outcome(k, FALSE, TRUE))
      /\ UNCHANGED <<tasks, runs, queue, history>>

\* Only RuntimeError and ValueError are answered in run; any other exception
\* leaves the workflow where it was and ends the attempt.
WorkflowRaises(p) ==
  LET w == Here(p)
  IN  /\ AtItem(p) /\ Runnable(w)
      /\ MoveWorkflow(p, "stuck", RetriesAfter(w))
      /\ Raise(p)

-----------------------------------------------------------------------------
(***************************************************************************)
(* TaskScheduler.dispatch.                                                 *)
(***************************************************************************)

\* Mutant of RetryDue: a run that was only created is taken up too.
RetryDueOrPending ==
  {r \in Runs : /\ \/ runs[r].status = "RETRY_SCHEDULED" /\ runs[r].retryAt = "due"
                   \/ runs[r].status = "PENDING"
                /\ tasks[runs[r].task].enabled}

\* Mutant of RetryDue: it goes by next_retry_at alone, and takes NULL for due.
RetryDueByTime ==
  {r \in Runs : /\ runs[r].status # "none" /\ runs[r].retryAt # "later"
                /\ tasks[runs[r].task].enabled}

RetryDue == {r \in Runs : /\ runs[r].status = "RETRY_SCHEDULED"
                          /\ runs[r].retryAt = "due"
                          /\ tasks[runs[r].task].enabled}
Due == {t \in Scheduled : tasks[t].enabled /\ tasks[t].next = "due"}

\* The rows with nothing of a higher priority before them.
Foremost(set, task) ==
  {x \in set : \A y \in set : Rank[task[x]] <= Rank[task[y]]}

\* Mutant of Dispatch: it begins only for a task that is due.
DispatchDueOnly ==
  /\ Doing("dispatcher", "idle") /\ ~ queue.open /\ queue.tasks = {}
  /\ Due # {}
  /\ queue' = [queue EXCEPT !.runs = RetryDue, !.open = TRUE]
  /\ UNCHANGED <<tasks, runs, workflows, workers, history>>

\* The interval of the job has passed.
Dispatch ==
  /\ Doing("dispatcher", "idle") /\ ~ queue.open /\ queue.tasks = {}
  /\ RetryDue # {} \/ Due # {}
  /\ queue' = [queue EXCEPT !.runs = RetryDue, !.open = TRUE]
  /\ UNCHANGED <<tasks, runs, workflows, workers, history>>

\* retry does not look whether the task is still enabled.
RetryRun ==
  /\ Doing("dispatcher", "idle")
  /\ \E r \in Foremost(queue.runs, [r \in Runs |-> runs[r].task]) :
       /\ Now("dispatcher", [Free EXCEPT !.step = "begin", !.task = runs[r].task, !.run = r])
       /\ queue' = [queue EXCEPT !.runs = @ \ {r}]
  /\ UNCHANGED <<tasks, runs, workflows, history>>

\* After the last retry the due tasks are read.
ReadDue ==
  /\ Doing("dispatcher", "idle") /\ queue.open /\ queue.runs = {}
  /\ queue' = [queue EXCEPT !.tasks = Due, !.open = FALSE, !.loaded = Due # {}]
  /\ UNCHANGED <<tasks, runs, workflows, workers, history>>

\* execute refuses a task that was disabled since, unless the session has not
\* looked again; update_next_run follows all the same.
ExecuteTask ==
  /\ Doing("dispatcher", "idle")
  /\ \E t \in Foremost(queue.tasks, [t \in Tasks |-> t]) :
       /\ queue' = [queue EXCEPT !.tasks = @ \ {t}, !.loaded = FALSE]
       /\ \/ /\ queue.loaded \/ tasks[t].enabled
             /\ CreateRun("dispatcher", t)
          \/ /\ ~ queue.loaded /\ ~ tasks[t].enabled
             /\ Now("dispatcher", [Free EXCEPT !.step = "moveNext", !.task = t])
             /\ UNCHANGED <<tasks, runs, workflows, history>>

\* Mutant of UpdateNextRun: next_run_at stays.
UpdateNothing ==
  /\ Doing("dispatcher", "moveNext")
  /\ Now("dispatcher", Free)
  /\ UNCHANGED <<tasks, runs, workflows, queue, history>>

UpdateNextRun ==
  LET t == workers["dispatcher"].task
  IN  /\ Doing("dispatcher", "moveNext")
      /\ tasks' = [tasks EXCEPT ![t].next = NextFire(t)]
      /\ Now("dispatcher", Free)
      /\ UNCHANGED <<runs, workflows, queue, history>>

-----------------------------------------------------------------------------
(***************************************************************************)
(* The users, the clock, and the interruptions.                            *)
(***************************************************************************)

\* PATCH /{task_id}/enabled
SetEnabled(t, enabled) ==
  /\ Doing("api", "idle")
  /\ tasks' = [tasks EXCEPT ![t] = NewTask(t, enabled)]
  /\ UNCHANGED <<runs, workflows, workers, queue, history>>

\* Somebody else approves, clarifies, cancels or retries a workflow.
OthersMove(r, i) ==
  /\ i \in 1 .. Len(workflows[r])
  /\ \/ /\ workflows[r][i].state = "done"
        /\ workflows' = [workflows EXCEPT ![r][i].state = "ready"]
     \/ /\ workflows[r][i].state = "ready"
        /\ workflows' = [workflows EXCEPT ![r][i].state = "done"]
     \/ /\ Retried(workflows[r][i])
        /\ workflows' = [workflows EXCEPT ![r][i].state = "ready", ![r][i].retries = @ + 1]
  /\ UNCHANGED <<tasks, runs, workers, queue, history>>

\* The time of a task comes, or that of a retry.
TaskFalls(t) ==
  /\ tasks[t].next = "later"
  /\ tasks' = [tasks EXCEPT ![t].next = "due"]
  /\ fires' = [fires EXCEPT ![t] = @ + 1]
  /\ UNCHANGED <<runs, workflows, workers, queue, attempts, lost, interrupts>>

RetryFalls(r) ==
  /\ runs[r].retryAt = "later"
  /\ runs' = [runs EXCEPT ![r].retryAt = "due"]
  /\ UNCHANGED <<tasks, workflows, workers, queue, history>>

\* The process ends, or the database fails under a worker: nobody takes up
\* what it had begun.  The workflow it was running may have moved.
Interrupt(p) ==
  LET k == workers[p]
  IN  /\ \/ k.step # "idle"
         \/ p = "dispatcher" /\ (queue.open \/ queue.tasks # {})
      /\ Now(p, Free)
      /\ queue' = IF p = "dispatcher" THEN NoQueue ELSE queue
      /\ lost' = IF k.run # Nil THEN lost \cup {k.run} ELSE lost
      /\ interrupts' = interrupts + 1
      /\ \/ UNCHANGED workflows
         \/ AtItem(p) /\ Runnable(Here(p)) /\ MoveWorkflow(p, "stuck", RetriesAfter(Here(p)))
      /\ UNCHANGED <<tasks, runs, attempts, fires>>

\* The steps of an attempt.
AttemptStep(p) ==
  \/ Begin(p) \/ CreateWorkflow(p) \/ NoTargets(p) \/ Close(p)
  \/ TimesOut(p) \/ Refused(p) \/ RunWorkflow(p) \/ WorkflowRaises(p)

DispatcherStep ==
  \/ AttemptStep("dispatcher")
  \/ Dispatch \/ RetryRun \/ ReadDue \/ ExecuteTask \/ UpdateNextRun

TaskNext ==
  \/ AttemptStep("api") \/ DispatcherStep
  \/ \E t \in Tasks : RunTask(t) \/ TaskFalls(t) \/ \E e \in BOOLEAN : SetEnabled(t, e)
  \/ \E r \in Runs : RetryFalls(r) \/ \E i \in 1 .. Len(workflows[r]) : OthersMove(r, i)
  \/ \E p \in Workers : Interrupt(p)

\* A worker that has begun goes on, the job is started at its interval, and
\* the delay of a retry passes.
TaskFairness ==
  /\ WF_taskVars(AttemptStep("api"))
  /\ WF_taskVars(DispatcherStep)
  /\ \A r \in Runs : WF_taskVars(RetryFalls(r))

TaskSpec == TaskInit /\ [][TaskNext]_taskVars /\ TaskFairness

-----------------------------------------------------------------------------
(***************************************************************************)
(* Properties.                                                             *)
(***************************************************************************)
TaskTypeOK ==
  /\ tasks \in [Tasks -> TaskRow]
  /\ runs \in [Runs -> RunRow]
  /\ workflows \in [Runs -> Seq(Workflow)]
  /\ workers \in [Workers -> Worker]
  /\ queue \in [runs : SUBSET Runs, tasks : SUBSET Tasks, open : BOOLEAN,
             loaded : BOOLEAN]
  /\ attempts \in [Runs -> Nat]
  /\ fires \in [Tasks -> Nat]
  /\ lost \subseteq Runs
  /\ interrupts \in Nat

Holds(p, r) == workers[p].run = r

\* An attempt belongs to one worker: two never work on the same run, and what
\* waits for its retry or is finished is in nobody's hands but those of the
\* dispatcher about to retry it.
OneWorkerPerRun ==
  \A r \in Runs :
    /\ ~ (Holds("api", r) /\ Holds("dispatcher", r))
    /\ runs[r].status \in Finished => \A p \in Workers : ~ Holds(p, r)
    /\ runs[r].status \in {"PENDING", "RUNNING"} /\ r \notin lost =>
         \E p \in Workers : Holds(p, r)

\* Each attempt of a run but the last cost one of its retries, and the run
\* fails only when all of them are used up.
RunRetryBudget ==
  \A r \in Runs : runs[r].status # "none" =>
    LET max == MaxRetries[runs[r].task]
    IN  /\ runs[r].retries <= max
        /\ attempts[r] \in {runs[r].retries, runs[r].retries + 1}
        /\ runs[r].status = "RETRY_SCHEDULED" => attempts[r] = runs[r].retries
        /\ runs[r].status = "FAILED" => attempts[r] = max + 1

\* A run that is finished stays as it is.
FinishedIsFinal ==
  [][\A r \in Runs : runs[r].status \in Finished => runs'[r] = runs[r]]_taskVars

\* A run that has workflows succeeds only by an attempt that brought every one
\* of them to rest: a workflow that an earlier attempt, or somebody else, got
\* done is refused, and the run with it.
SucceedsAtOnce ==
  \A r \in Runs :
    runs[r].status = "SUCCESS" /\ runs[r].results # << >> =>
      /\ Len(workflows[r]) = Len(runs[r].results)
      /\ \A i \in 1 .. Len(workflows[r]) :
           runs[r].results[i] /\ workflows[r][i].doneAt = attempts[r]

\* Each time a task falls due it is executed once, unless the dispatcher was
\* interrupted.
DispatchedOnce ==
  \A t \in Tasks :
    Cardinality({r \in Runs : runs[r].task = t /\ runs[r].by = "dispatcher"})
      <= fires[t] + interrupts

Disabled == {t \in Tasks : ~ tasks[t].enabled}

\* A run that waits for a retry comes to its end, unless its task is disabled
\* or the attempt is interrupted.
RetriesEnd ==
  \A r \in Runs :
    runs[r].status = "RETRY_SCHEDULED" ~>
      runs[r].status \in Finished \/ r \in lost \/ runs[r].task \in Disabled

=============================================================================
