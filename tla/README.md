# Verification of the Agentic HR System

TLA+ models of the workflow engine in `src/backend/app`, TLC configurations that
check them on small instances, and theorems that TLAPS proves for every
instance.

## 1. The system

A request of an employee becomes a *workflow*: a row in PostgreSQL that agents
move through a table of states. Compliance may deny the proposed action, ask a
human to approve it, or let it run against an HR system.

| Component (`backend/app/...`) | State it keeps | Operations | What makes it correct |
|---|---|---|---|
| State machine `workflows/state_machine.py` | none (a table) | `validate_transition`, `is_terminal_state` | terminal states have no way out |
| Workflow service and repository | workflow row (state, previous, version, pause, retries, stamps), transition ledger, clarifications, idempotency records | create, transition, set_intent, pause, resume, cancel, retry, clarify, respond | the ledger tells how the row came where it is; terminal is final; retries bounded |
| Approval service and repository | approval row, decision entries | create_request, decide, delegate, cancel, process_expired | only authorised signatures, one per level; resolved is final; workflow and request agree |
| Orchestrator `services/agent_orchestration.py` | writes agent executions, evidence, decisions | run, resume after clarification, resume after approval | a run comes to rest; the action happens once per attempt |
| Task service, scheduler | scheduled tasks, task runs | create, execute, retry, dispatch every 10 s | no run lost or repeated; success means success of every workflow |
| HR integration, adapters | HR tables, idempotency records | fetch_context, execute_action | a write happens once per key; stale data is not used |
| Agents, LLM client | none | execute, generate (bounded retry) | decisions follow the rules whatever the model answers |
| Audit log | hash chain per entity | log_event | the chain does not fork |
| Rate limiter | per-client window in memory | allow | at most `limit` per window |
| RAG: ingestion, search, incident memory | policies, chunks, embeddings, incidents | ingest, search, remember | every word in a chunk; a policy has its chunks |
| Evaluation, observability, auth, employees, frontend | scores, counters, users | CRUD | not subject to interleavings worth a model |

Interaction. The API handlers are `async def` functions that call synchronous
services: the event loop serves **one handler at a time**. The APScheduler thread
(`workers/task_scheduler.py`) runs `dispatch` beside it, in a session of its own.
So there are **two actors**, and they share only the database. Services call
repositories, repositories commit: one service call is several transactions, and
nothing undoes the first when a later one fails. A session (`db/session.py`,
`expire_on_commit=False`) reads a row once and keeps its copy until a
`db.refresh`, and an UPDATE writes the changed columns `WHERE id = ?`.

The hard behaviours follow from that: stale copies between the two actors,
a crash between two commits of one call, calls that arrive in an order nobody
planned (a `/resume` while an approval is pending, an answer to an old
clarification), expiry racing a decision, retries. `PROJECT.json` lists each
hazard with the line where it bites and the properties that watch it.

## 2. Modules

| Module | Models | Composition |
|---|---|---|
| `WorkflowStateMachine` | `VALID_TRANSITIONS`, terminal states, what a well-formed ledger is | extended by the workflow modules and `Orchestrator` |
| `WorkflowLifecycle` | abstract: what the service promises about a workflow | refined by `WorkflowService` |
| `WorkflowService` | the services and repository, one action per call | |
| `ApprovalService` | the approval service on top of the workflow service; a call is the list of what its commits store | extends `WorkflowService` |
| `WorkflowSessions` | the same calls and the orchestrator's run, broken into SELECT, UPDATE and refresh, by two callers | instantiates `WorkflowService` |
| `HRAdapters` | the six HR systems: which record is read and written, what a dry run refuses, the freshness gate | operators, no variables |
| `Agents` | the rules of the five agents, as functions of the request | extends `HRAdapters` |
| `ChangeControl` | abstract: a change is applied only under a grant, and a grant is used once | refined by `Orchestrator` |
| `Orchestrator` | a run from `RECEIVED` to the change in the HR system, broken where it waits and where it commits | extends `WorkflowStateMachine`, `Agents` |
| `TaskRuns` | scheduled tasks, their runs, retries and dispatch by two workers | |
| `RateLimiter` | the moving window of each client | |
| `PolicyIngestion` | chunking, the commits of `ingest`, what a search can return | |
| `WorkflowServiceProofs`, `OrchestratorProofs`, `ChangeControlProofs`, `RateLimiterProofs`, `ApprovalServiceProofs`, `TaskRunsProofs`, `WorkflowSessionsProofs`, `PolicyIngestionProofs` | theorems and proofs | each extends the module it is about |
| `MCApprovalService`, `MCWorkflowSessions`, `MCOrchestrator`, `MCServices` | constants and bounds for TLC | `MCServices` puts the three modules that share no state side by side |

Three modules look at a workflow from three distances. `WorkflowService` and
`ApprovalService` have every call on it, whole. `WorkflowSessions` has two calls at a
time, statement by statement, with the payload left out. `Orchestrator` has one run at a
time with the payload: what was seen, proposed, decided, granted and written; the other
calls are only its environment (`UserStep`). What `TaskRuns` needs to know of a workflow
is whether it can be run and how that ended.

**WorkflowService.** `rows[w]` is the row: `current_state` is `state`, `paused_at IS NOT NULL`
is `paused`, `completed_at IS NOT NULL` is `completed`, `intent IS NOT NULL` is
`intent`. `history[w]` is the list of `workflow_transitions`. A guard is an early
return of the service; a call that returns an error without a commit is a disabled
action. `RetryWorkflow` and `RespondToClarification` keep their several commits,
among them the outcome where the second half is refused. The version column is
left out because calls that do not overlap cannot fail its check;
`WorkflowSessions` has it.

**ApprovalService.** `approvals[a]` is the row with its decision entries. Time is
`overdue`, which becomes true at any moment (`expires_at`). `DecideCommits` and
its siblings list what the database holds after each commit; `Completes` stores
the last of them, `Dies` one of the others. `grants` is the audit trail of
delegations (`approval_delegated`), which `SignedWithAuthority` reads.

**WorkflowSessions.** One workflow and two callers. `session[c]` is the call that
`c` serves: its copy of the row, what is left to do, and the ledger entry it owes.
`Select` is the query with the version, `Commit` the UPDATE that no longer looks at
it, `Refresh` reads the row again and records the transition. `RunScript` is the
orchestrator's run; `Raise` is an agent, an adapter or the freshness check that
raises; `Refuse` leads to `_mark_failed` and its fallback. `Abandon` is a crash or
an exception that nothing catches. `Runners` and `Retriers` say which of the two
callers run and retry, so that a property can be checked where it holds and
refuted where it does not.

**Orchestrator.** `run[w].stage` is where the call of `run()` is: an agent that waits for the
model, the fetching of the context, the change, its record, the end. `finding`,
`proposal` and `decisions` are the stored executions and compliance records that an
approved run reads back; `keys` are the `idempotency_records`. A request (`Agents!Request`)
is reduced to what the rules look at. `AskAgain` and `AgentFails` are the retry loop of the
language model client. What the model says is free where an agent takes it over
(the intent, whether to ask) and absent where the agent computes the key itself.
`Edit` and `Ages` are other users of the HR systems and the clock, `Crash` the end of
the process, which also empties the memory of the benefits and learning providers.
The intent can be changed at any time (`/intent`), and an approved run goes by the new one:
`Domain` is `system_for` as it is evaluated then. `applied`, `writes` and `crashes` are history:
on which decision each change was applied, how often an adapter wrote, how often the process ended.

**TaskRuns.** `workers[p]` is what the dispatcher or the API has in hand: the steps of
`_attempt` end where it commits. `queue` is what `dispatch` has read: first the runs whose
retry is due, then the tasks. `loaded` is the session that has not yet committed since it
read the tasks and so goes by the rows as they were. `Stored` is SQLAlchemy's view of a
JSON column changed in place: it is written only if the session had forgotten the old value.
Times are `none`, `later` or `due`.

**RateLimiter.** `served[c]` is the deque and all that was popped from it; `popped[c]` says how
much. Time is counted in ticks, `TicksASecond` to a second, so that the rounding of
`Retry-After` to whole seconds shows. **PolicyIngestion.** A document is its number of words, a
chunk the range of words it holds.

## 3. Runs

All bounds are constants of the cfg files.

| Run | Question | Bounds | Result |
|---|---|---|---|
| `approval_retry` | Is every sequence of calls of both services consistent and a life cycle, and do two requests of one workflow stay apart? | 1 workflow; 2 clarifications, or 2 requests of 1 level; 1 retry; ledger of 28 (twice the way to the approval, a failure between), 16 once a clarification was asked | holds |
| `approval_crash` | Are signatures, chains and resolutions right, also after a crash between two commits? | 1 request of 2 levels, 3 users of whom one is a superuser, ledger of 11 (the way to the end of the approval), 3 signatures, no intent set | holds |
| `sessions_serial` | Are calls that do not overlap atomic, and do runs come to rest? | 6 calls of either caller | holds |
| `sessions` | Under interference and crashes, are the retry budget and the execution count safe, and does every call end? | 3 calls, runs by the scheduler, retries by the API | holds |
| `orchestration` | Is every change granted, at most once repeated by a crash, and never once recorded; does every run end? | 1 workflow, 15 kinds of request, 2 intents, 1 model retry, 1 workflow retry, 1 crash and 1 edit, or data ages once | holds |
| `services` | Who works on a run, what does its success mean, how often is a task dispatched; is the rate bounded; is a policy found whole? | 2 tasks, 2 runs, 2 targets, 1 retry, 1 interruption or 2 switches or 1 foreign move; 2 clients, limit 2, window of 2 s at 2 ticks, 6 ticks; 2 documents of 2 or 6 words, 2 ingestions | holds |
| `approval_paused` | Is a waiting workflow paused (`README.md:347`)? | 1 request of 2 levels | **violated** by `/resume` |
| `approval_rejection` | Does a rejection end a request (`docs/WORKFLOW.md:128`)? | 1 request of 2 levels | **violated** after a crash |
| `sessions_budget` | Retries within the budget when both callers retry? | 3 calls | **violated**: a lost increment |
| `sessions_terminal` | Do versions keep a run under way from moving a cancelled workflow (`docs/HLD.md:70`, `:114`)? | 2 calls | **violated** by a cancel |
| `sessions_ledger` | Is the transition history complete (`docs/HLD.md:126`)? | 2 calls, no overlap | **violated**: `CONTEXT_RETRIEVAL` to `FAILED` |
| `orchestration_freshness` | Does stale data fail a workflow (`docs/WORKFLOW.md:139`)? | as `orchestration`, data ages once | **violated**: the refresher dates the same data anew |

Why the bounds are enough. Workflows share nothing in these operations, so one
workflow shows what many would (the proofs do not need this). Two clarifications
are the least that lets a late answer meet a state it was not meant for; two
levels are the least where a delegation can outlive its level; two requests are
the least where one can be confused with the other. Clarifications and requests are
explored apart in `approval_retry` (`MaxAskingHistory`): they meet only in the row. Three
calls with a run among them are a run, the retry that races its end, and the second run.

`orchestration`: the fifteen requests are one for each way through the rules and
each kind of system: low and high risk, the two in-memory providers, a named record, a field that is missing or
not on the allow list, a system that does not exist, a conflict, a violation, overrides
valid and not, nobody concerned. One crash and one retry are enough for a change to be
applied twice; one edit for the proposal to differ from the record.

`services` (`MCServices`). The three parts share no state, so a behaviour is of one of them
(`part`). The loop over the workflows of an attempt is run without interleavings
(`Loop`): it reads nothing that the other worker writes, save the moves of `OthersMove`,
which come before or after. A behaviour has one kind of disturbance; run ids are used
in order; the first run has two workflows and the second one or none; the task with a
retry comes second in the dispatch, so that a task can be switched off after its turn was read. Six
ticks are a window and a half: a request refused in the first is served in the second.

`CHECK_DEADLOCK FALSE` everywhere: a cancelled workflow, a bounded number of
calls, a finished task, really stop.

Every property of a passing run has a mutant in `PROJECT.json`: a definition with a
plausible bug (a retry that is not counted, a delegation kept, a version ignored, a key
not looked up) under which TLC finds the property violated.

**Fairness.** `WorkflowSessions` assumes weak fairness of `Step(c)`, the next step of a
call that has begun: the event loop and the scheduler thread do not stop inside a
synchronous function. `Orchestrator` assumes the same of `RunStep(w)`; that a model call
returns or raises is the time-out of its HTTP client. `TaskRuns` assumes it of an attempt that has begun
(`AttemptStep`), of the dispatcher, a job that APScheduler starts every ten seconds
(`DispatcherStep`), and that the delay of a retry passes (`RetryFalls`). Nothing is
assumed of the users: no clause says that someone calls `/run`, `/retry` or `/approve`, nor
that a task falls due. There is no liveness for expiry: nothing
but `POST /approvals/expired/process` calls `process_expired`, so an overdue request may stay
pending for ever; and none for a run that was interrupted, which stays `RUNNING`.

## 4. What is proved

For every value of the constants that the named `ASSUME`s of the modules allow:

| Theorem | Property |
|---|---|
| `WorkflowServiceProofs!TypeCorrect` | `TypeOK` |
| `LedgerIsFaithful` | `HistoryMatchesRow` |
| `CompletionStamp` | `CompletedIffTerminal` |
| `TerminalStaysFinal` | `TerminalIsFinal` |
| `RetriesAreBounded` | `RetryBudget`, if nobody asks `transition_workflow` for `RETRY_SCHEDULED` |
| `ServiceImplementsLifecycle` | `ImplementsLifecycle` |
| `ApprovalServiceProofs!ApprovalTypesHold` | `ApprovalTypeOK` |
| `SignaturesAreAuthorised` | `SignedWithAuthority` |
| `ApprovedChainsAreSigned` | `ApprovedChainIsSigned` |
| `ResolvedRequestsAreFinal` | `ResolvedIsFinal` |
| `WorkflowsAreApprovedByRequest` | `ApprovedOnlyByRequest`, if nobody asks `transition_workflow` for `APPROVED` and the requests are finitely many |
| `OutcomesAreTold` | `OutcomesMatchLedger`, when calls are served to their end, nobody asks `transition_workflow` for a state that belongs to requests (`Reserved`), and the requests are finitely many |
| `WaitingHasOneRequest` | `WaitsForOneRequest`, under the same conditions |
| `OrchestratorProofs!OrchestratorTypes` | `OrchestratorTypeOK` |
| `ChangeControlProofs!ChangesAreGranted` | `AppliedWasGranted` |
| `HighRiskNeedsApproval` | `HighRiskIsApproved` |
| `RecordedOnce` | `RecordedIsNotRepeated` |
| `CrashesBoundRepetitions` | `RepetitionsNeedCrash` |
| `OrchestrationControlsChanges` | `ImplementsChangeControl` |
| `CompletedIsApplied` | `CompletedMeansApplied`, if nobody asks `transition_workflow` for `COMPLETED` |
| `TaskRunsProofs!TaskTypesHold` | `TaskTypeOK` |
| `RunsHaveOneWorker` | `OneWorkerPerRun` |
| `RunsKeepBudget` | `RunRetryBudget` |
| `RunsSucceedAtOnce` | `SucceedsAtOnce` |
| `TasksAreDispatchedOnce` | `DispatchedOnce` |
| `FinishedRunsAreFinal` | `FinishedIsFinal` |
| `WorkflowSessionsProofs!SessionTypes` | `SessionTypeOK` |
| `SessionRetriesWithinBudget` | `RetriesWithinBudget`, if at most one caller retries (`OneRetrier`) |
| `SessionExecutesOncePerAttempt` | `ExecutedOncePerAttempt`, if only the scheduler runs workflows and only the API retries them (`Apart`) |
| `SerialNotStranded` | `NotStranded`, when calls do not overlap |
| `SerialTerminalIsFinal` | `TerminalIsFinal`, when calls do not overlap |
| `SerialCommitsAreOperations` | `CommitsAreOperations`, when calls do not overlap |
| `RateLimiterProofs!LimitHolds` | `WindowBound` |
| `PatienceIsRewarded` | `PatientIsServed` |
| `PolicyIngestionProofs!PoliciesAreFoundWhole` | `FoundWhole` |
| `ChunksOverlapAsConfigured` | `CutsOverlap` |

**Workflow service.** The invariant is `TypeOK /\ HistoryMatchesRow /\ CompletedIffTerminal`. The parts
need each other: a cancellation keeps the ledger well-formed only because the
row's state is where the ledger ends, and the stamp is right only because a
terminal row is never moved. One lemma per kind of write (`WriteRowKeeps`, `WriteMoveKeeps`) says what the
write preserves, and the step lemma `InvStep` applies it to each action. `UncheckedEdges` is where two edges that the
repository writes without asking the table (`FAILED` to `RETRY_SCHEDULED`, `NEEDS_CLARIFICATION` to
`CLASSIFYING`) are found in it. `RetryBudget` is not
inductive with `/transition` open to `RETRY_SCHEDULED`, hence the assumption in
the theorem: the requester may ask the endpoint for that edge, and such a retry is not
counted. The life cycle is refined with `phase`, `held` and `ledger` read off the rows.

**Approval service.** The first five of `ApprovalServiceProofs` are theorems of `CrashSpec`, in which any call may die between two of
its commits (`ApprovalSpec` has fewer steps). `ApprovalInv` says that every request is `Sound`: its signatures are in
order, authorised, and cover with an approval all levels below the current one; the
delegate of the moment was given the current level; an `APPROVED` request has its last level
signed as well. Each commit of each call leaves a sound request (`CreateCommitsFit`,
`DecideCommitsFit` and their siblings), so it does not matter after which of them the call dies
(`SomeCommit`). For `ApprovedOnlyByRequest` the same lists of commits are split into calm and
granted ones: `decide` resolves the request before the workflow moves, so no list has an entry to
`APPROVED` that is not granted. `/transition` can be asked for `APPROVED` by the requester, hence the
assumption.

`OutcomesAreTold` and `WaitingHasOneRequest` are theorems of `ApprovalSpec`; under `CrashSpec` they are false, as
a request is settled some commits before its workflow is moved. `OutcomesInv` says for each workflow that
its ledger enters each of the four states that belong to requests as often as it has requests of that outcome
(`Matches`), and that it waits just while one of them is pending (`Waits`). The last commit of a call settles
both sides at once: it `Asks`, `Settles`, `Drops` or `GoesOn` with a request (`CallsConclude`).
Every other call leaves both sides alone (`ServiceReservesNone`): no edge that it takes leads into one of the four
states, unless `/transition` is asked for it, and out of `WAITING_FOR_APPROVAL` it only cancels. After
such a cancellation the request stays pending and may still expire, which is why `Times(w, "EXPIRED")` is only
bounded.

**Change control.** `TypeInv` is the types, plus `Routed`: a run that may write has a system.
`ControlInv` adds, for each workflow, five facts of which none is inductive alone: the decisions are
those the rules give (`Judged`); a run that executes, and a workflow that is `APPROVED`, stand
for the *last* decision, which let the change through, is about the last proposal, and was not
yet used (`MayExecute`); nothing runs on a workflow that waits or was approved (`Rests`); a
pending request is about the last decision (`Waiting`); what was applied was granted
(`AppliedRightly`). Most steps neither decide, propose, resolve nor apply: they are `Quiet`,
and one lemma (`QuietKeeps`) does for all of them; a step of one workflow is quiet for all
others (`ElsewhereQuiet`). `Propose`, `Review`, `Resolve` and `WriteRecord` have a
lemma each. The refinement then needs that grants stay (`GrantsStay`) and that a write uses
one that was not used (`WriteUsesGrant`).

`CompletedIsApplied` has an invariant of its own (`CarriedInv`): a run that is about to record its change has
applied it, one that is about to finish has it recorded or had none to make, and a completed workflow has
no run that could propose anew. Only four steps come nearer to the end of a change (`ChangeCarried`); all others
end the run, stay before the change, or leave it where it is (`AgentsIdle`, `UsersIdle`). A requester who
asks `/transition` for `VERIFYING` and then for `COMPLETED` completes a workflow by hand, hence the assumption;
`VERIFYING` alone does no harm, since the run is then refused and fails.

`CrashesBoundRepetitions` counts. A change is `Closed` while it is on record, or its run has written it and
has only to record it; nothing applies it then, and only a crash can end such a run before the
record (`RecordIsNext`): no model call, no other user and no failure comes in between. `Accounted` says that a change was
applied at most once more than the process ended, and no more often than that where it is not closed, so there is room for
each write (`WriteAccounted`). TLC checks one crash; the theorem has no bound, and one crash counts for
every workflow whose run it ends.

**Task runs.** `ControlInv` is inductive by itself. It ties a run to its worker: the status of the run
tells how far the worker is (`WorkerFits`), two workers hold two runs (`Apart`), what
the dispatcher has read as due for a retry is in nobody's hands (`QueueFits`), and the number of attempts
follows from the status and the retries (`RunFits`). Every step in which a worker does something to its run
`Handles` it, and `HandlesKeeps` is proved once for all of them. `ResultsInv` follows the outcomes
in memory: as long as none failed, all so far are successes of the attempt that is going on, each of
which moved a workflow, so that `Stored` writes the list when the attempt ends in `SUCCESS`.
`FiresInv` strengthens `DispatchedOnce` by the run a task is still owed (`Owed`): it was due when the dispatcher
looked, or is due now, and the dispatcher has not created its run yet.

**Sessions.** `SessionTypes`, `SessionRetriesWithinBudget` and `SessionExecutesOncePerAttempt` are theorems of
`CrashSpec`: any callers, any overlap, a call may die anywhere. `Typed` adds to the types what a call in each
step holds. `Budgeted`: the ledger shows no more retries than the row counts, and the copy of a caller that
retries has the row's count, so a retry that has still to be written is within the budget. That needs
`OneRetrier`; with two, each writes the count it read (`SessionsBudget.cfg`). `Executing` counts the executions in the
ledger, those in flight (an entry is added only at `Refresh`), and the one that the attempt may still have
ahead (`Chance`), against `1 + row.retries` (`Room`). It needs to know that a failed workflow is left
alone by the run that failed it (`RunPart`) and that the API's retry finds it failed (`ApiPart`). `Apart` are the roles
that TLC's run has too. The endpoints can run a workflow as well, and then the bound is lost: with
`Runners = {Api, Scheduler}` two runs in lockstep pass the same version checks, and both execute the action of the
first attempt (TLC finds it in 57 states; too deep for a run of the project).

The three theorems of `SerialSpec` ask nothing of the callers. `Serial` says that at most one call is open, that its copy is the row, and
that the row is such as the writes it has left expect (`Stands`): a list has a shape (`Sound`) in which
nothing before the last write stops or ends the workflow and the last one brings it to rest; a list that is no run is
`Calm`. Between calls the row is `AtRest`, which is `NotStranded`. Since the copy is the row, each
commit is a `Service!WorkflowStep`, `Rescheduled` or `ForcedFailure`. This is the proof that
`WorkflowService`, `ApprovalService` and `Orchestrator` may take a call that is not overlapped for one step.

**Rate limiter.** The invariant says that what was popped is older than the window, that the
deque holds at most `Limit` times in order (`DequeInv`), and that a promise made to a client
covers the oldest time in its deque (`PromiseInv`); the arithmetic of the rounding is
`RetryAfterBound`.

**Policy ingestion.** What the recursive function `ChunksFrom` computes is shown by induction on where a chunk
starts, from the end of the document. The library's induction theorems take an operator, so the
induction is made of its well-founded ones: a set stands for the predicate, and a least element of its complement for a
counterexample (`Least`, `FromTheEnd`). It is used twice: the recursion has a solution (`RecursionHasSolution`), and
from each start it cuts the rest of the document into chunks that hold all its words and overlap
as configured (`ChunksCut`). `ChunkAssumption` (the overlap is smaller than the chunk) is what makes each start greater
than the last. `IngestInv` then follows a document through the two commits of `ingest`: a stored policy has all its
chunks or none, and a call works on the policy that it created, with its words. `NoPolicyAssumption` says that `None` is no row.

**Only model-checked**: the liveness properties (`RunsComeToRest`, `CallsEnd`, `RunsEnd`,
`RetriesEnd`), which are out of the prover's reach. Every invariant and every other action property of
the passing runs is a theorem.

## 5. Not modelled

- *Audit log.* Nothing in the system decides on an audit record. No caller passes
  `current_state`, so each `current_hash` is the hash of `{}`: a property of the chain would be
  as true of a forked chain as of a whole one.
- *Evidence, incident memory, evaluation, observability.* Rows that are added and read for display,
  and scores in floating point.
- *Cron expressions.* APScheduler's in production (`requirements.txt`); the fallback is a search
  without state. `NextFire` keeps what matters here: a time that is later than now, or none.
- *Similarity scores, embeddings, text extraction.* Floating point and libraries.
- *Authentication.* Tokens and password hashes are library calls. Who holds which role is a
  constant of `ApprovalService`.
- *Employees, frontend, migrations, seed data.* Single rows, a client, and scripts run by hand.
- *Overlapping runs of one workflow with their payload.* `WorkflowSessions` interleaves two runs
  without the payload, `Orchestrator` has the payload and one run per workflow. Two runs that
  both look up the idempotency key before either records it would both write; this is not in
  either module.
