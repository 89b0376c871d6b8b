-------------------------- MODULE WorkflowSessions --------------------------
(***************************************************************************)
(* One workflow row, and the calls that work on it at the same time.       *)
(*                                                                         *)
(* The API process serves its handlers one at a time on the event loop;    *)
(* the APScheduler thread runs the task dispatcher beside it.  Each of the *)
(* two holds a SQLAlchemy session: the row is read once, later queries of  *)
(* the same session give the same object back (the identity map), and only *)
(* db.refresh after a commit reads it again.  An UPDATE writes the columns *)
(* that changed in the object, WHERE id = ?.  So a call is the sequence    *)
(*                                                                         *)
(*    Open      load the row into the session's copy                       *)
(*    Select    a transition re-reads it WHERE version = copy.version      *)
(*    Commit    the UPDATE of the changed columns, and COMMIT              *)
(*    Refresh   read the row into the copy again, and insert and commit    *)
(*              the WorkflowTransition (which no other call reads)         *)
(*                                                                         *)
(* repeated for every write the call makes, and the steps of two calls     *)
(* interleave.  Clarification answers and approval decisions are not among *)
(* the calls here; WorkflowService and ApprovalService have them.          *)
(***************************************************************************)
EXTENDS WorkflowStateMachine, Integers, FiniteSets

CONSTANTS
  Api,         \* the API's event loop
  Scheduler,   \* the APScheduler thread
  Runners,     \* who calls AgentOrchestrationService.run
  Retriers,    \* who calls WorkflowService.retry_workflow
  MaxRetries,
  NoState

Callers == {Api, Scheduler}

ASSUME CallersAssumption == Api # Scheduler
ASSUME RunnersAssumption == Runners \subseteq Callers
ASSUME RetriersAssumption == Retriers \subseteq Callers
ASSUME MaxRetriesAssumption == MaxRetries \in Nat
ASSUME NoStateAssumption == NoState \notin WorkflowState

VARIABLES
  row,      \* the Workflow row
  ledger,   \* its WorkflowTransition rows, in the order of their commits
  session   \* session[c]: the call that caller c is serving

vars == <<row, ledger, session>>

Closed == [step |-> "closed"]
Active(c) == session[c] # Closed
Running(c) == Active(c) /\ session[c].run

\* What the ledger will show once the calls under way have recorded the
\* moves that they committed.
Pending(c) == IF Active(c) THEN session[c].entry ELSE << >>
Told == ledger \o Pending(Api) \o Pending(Scheduler)

\* The row and ledger as the service's operations know them: no version.
Unversioned(r) == [f \in DOMAIN r \ {"version"} |-> r[f]]

Service ==
  INSTANCE WorkflowService
    WITH Workflows <- {"w"}, Clarifications <- {}, CallerTargets <- WorkflowState,
         created <- {"w"}, clarifications <- << >>,
         rows <- [w \in {"w"} |-> Unversioned(row)], history <- [w \in {"w"} |-> Told]

NewRow ==
  [ state |-> "RECEIVED", previous |-> NoState, paused |-> FALSE, retries |-> 0,
    completed |-> FALSE, intent |-> FALSE, version |-> 1 ]

Init ==
  /\ row = NewRow
  /\ ledger = << >>
  /\ session = [c \in Callers |-> Closed]

-----------------------------------------------------------------------------
(***************************************************************************)
(* What a call has left to do: a list of writes.                           *)
(***************************************************************************)
Move(s) == [do |-> "move", to |-> s]
Do(what) == [do |-> what]
Moves(states) == [i \in 1 .. Len(states) |-> Move(states[i])]

\* AgentOrchestrationService.run: of a RECEIVED workflow, and from the
\* context on.
RunFromContext ==
  Moves(<<"CONTEXT_RETRIEVAL", "DATA_FRESHNESS_CHECK", "INVESTIGATING",
          "POLICY_RETRIEVAL", "ACTION_PROPOSED", "COMPLIANCE_REVIEW">>)
  \o <<Do("decide")>>

RunScript ==
  Moves(<<"AUTHENTICATED", "AUTHORIZED", "CLASSIFYING">>)
  \o <<Do("intent"), Do("understand")>> \o RunFromContext

\* Mutant of Understandings: the question is asked and the state forgotten.
UnderstandingsSilent(rest) == {rest, <<Do("pause")>>}

\* The supervisor has understood the request of a CLASSIFYING workflow: a
\* run goes on where a clarification interrupted it, or where one was cut
\* short.
Resumable(r) == r.state = "CLASSIFYING" /\ r.intent

CanRun(r) == ~ r.paused /\ (r.state = "RECEIVED" \/ Resumable(r))
RunOf(r)  == IF r.state = "RECEIVED" THEN RunScript ELSE RunFromContext

\* What the supervisor may find: the request is clear, or it has to ask.
Understandings(rest) == {rest, <<Move("NEEDS_CLARIFICATION"), Do("pause")>>}

\* What _apply_decision does with the compliance decision.
Decisions ==
  { <<Move("DENIED")>>, <<Move("ESCALATED")>>,
    Moves(<<"EXECUTING", "VERIFYING", "COMPLETED">>),
    <<Move("WAITING_FOR_APPROVAL"), Do("hold")>> }

\* The writes before which an agent, an adapter or the freshness check runs,
\* and may raise.
MayRaiseBefore(w) ==
  \/ w.do \in {"intent", "decide"}
  \/ /\ w.do = "move"
     /\ w.to \in {"DATA_FRESHNESS_CHECK", "INVESTIGATING", "POLICY_RETRIEVAL",
                  "ACTION_PROPOSED", "COMPLIANCE_REVIEW", "VERIFYING"}

\* update_workflow_state, and it alone, looks at the version.
Versioned(w) == w.do \in {"move", "fail", "force"}

Target(w) == IF w.do = "move" THEN w.to ELSE "FAILED"

\* What the service checks on its copy before the write.
Permits(w, copy) ==
  CASE w.do \in {"move", "fail"} -> Service!CanMove(copy, Target(w))
    [] w.do = "pause"            -> ~ IsTerminal(copy.state) /\ ~ copy.paused
    [] OTHER                     -> TRUE

Bumped(copy) == [copy EXCEPT !.version = @ + 1]

\* Mutant of Written: the retry is not counted.
WrittenUncounted(w, copy) ==
  CASE Versioned(w)               -> Bumped(Service!MovedTo(copy, Target(w)))
    [] w.do \in {"pause", "hold"} -> Bumped(Service!Paused(copy))
    [] w.do = "resume"            -> Bumped(Service!Resumed(copy))
    [] w.do = "cancel"            -> Bumped(Service!Cancelled(copy))
    [] w.do = "retry"             -> Bumped(Service!RetryUncounted(copy))
    [] w.do = "intent"            -> [copy EXCEPT !.intent = TRUE]

\* The copy once the write is applied to it.
Written(w, copy) ==
  CASE Versioned(w)               -> Bumped(Service!MovedTo(copy, Target(w)))
    [] w.do \in {"pause", "hold"} -> Bumped(Service!Paused(copy))
    [] w.do = "resume"            -> Bumped(Service!Resumed(copy))
    [] w.do = "cancel"            -> Bumped(Service!Cancelled(copy))
    [] w.do = "retry"             -> Bumped(Service!RetryScheduled(copy))
    [] w.do = "intent"            -> [copy EXCEPT !.intent = TRUE]

\* Mutant of Entry: a cancellation is not recorded.
EntryWithoutCancel(w, copy) ==
  CASE w.do \in {"move", "fail"} -> <<Service!Edge(copy.state, Target(w))>>
    [] w.do = "retry"            -> <<Service!Edge("FAILED", "RETRY_SCHEDULED")>>
    [] OTHER                     -> << >>

\* The WorkflowTransition that goes with the write.  A forced failure has
\* none.
Entry(w, copy) ==
  CASE w.do \in {"move", "fail"} -> <<Service!Edge(copy.state, Target(w))>>
    [] w.do = "cancel"           -> <<Service!Edge(copy.state, "CANCELLED")>>
    [] w.do = "retry"            -> <<Service!Edge("FAILED", "RETRY_SCHEDULED")>>
    [] OTHER                     -> << >>

\* The UPDATE: the columns that changed in the copy, whatever the row holds.
\* A pause always has a new time.
Update(w, old, new) ==
  row' = [f \in DOMAIN row |->
            IF new[f] # old[f] \/ (f = "paused" /\ w.do = "hold")
            THEN new[f] ELSE row[f]]

-----------------------------------------------------------------------------
(***************************************************************************)
(* The calls.                                                              *)
(***************************************************************************)
Open(c, todo, run) ==
  /\ ~ Active(c)
  /\ session' = [session EXCEPT ![c] =
       [ step |-> "ready", copy |-> row, todo |-> todo, run |-> run,
         entry |-> << >> ]]
  /\ UNCHANGED <<row, ledger>>

OpenRun(c) ==
  c \in Runners /\ CanRun(row) /\ Open(c, RunOf(row), TRUE)

OpenPause(c) ==
  /\ ~ IsTerminal(row.state) /\ ~ row.paused
  /\ Open(c, <<Do("pause")>>, FALSE)

OpenResume(c) == row.paused /\ Open(c, <<Do("resume")>>, FALSE)

\* Mutant of OpenCancel: nothing is checked.
OpenCancelUnchecked(c) == Open(c, <<Do("cancel")>>, FALSE)

OpenCancel(c) ==
  /\ ~ IsTerminal(row.state) /\ ValidTransition(row.state, "CANCELLED")
  /\ Open(c, <<Do("cancel")>>, FALSE)

\* The endpoint retries; a task run retries a FAILED workflow and runs it,
\* in the same session.
OpenRetry(c) ==
  /\ c \in Retriers
  /\ row.state = "FAILED" /\ row.retries < MaxRetries
  /\ Open(c, <<Do("retry"), Move("RECEIVED")>>
              \o (IF c = Scheduler THEN <<Do("run")>> ELSE << >>), FALSE)

-----------------------------------------------------------------------------
(***************************************************************************)
(* The steps of a call that is under way.                                  *)
(***************************************************************************)
\* Mutant of Continue: a call that has nothing left to do stays open.
ContinueUnclosed(c, todo, copy) ==
  session' = [session EXCEPT ![c] =
    [@ EXCEPT !.step = "ready", !.todo = todo, !.copy = copy, !.entry = << >>]]

Continue(c, todo, copy) ==
  session' = [session EXCEPT ![c] =
    IF todo = << >> THEN Closed
    ELSE [@ EXCEPT !.step = "ready", !.todo = todo, !.copy = copy, !.entry = << >>]]

At(c, step) == Active(c) /\ session[c].step = step
NextWrite(c) == Head(session[c].todo)
Rest(c) == Tail(session[c].todo)
Copy(c) == session[c].copy

\* Mutant of MarkFailed: the failure is swallowed.
MarkFailedNever(c) == << >>

\* _mark_failed: nothing to do when the copy is FAILED already.
MarkFailed(c) == IF Copy(c).state = "FAILED" THEN << >> ELSE <<Do("fail")>>

\* The steps of a run that only decide what it does next.
Deciding == {"run", "understand", "decide"}

\* The query of update_workflow_state finds the row at the copy's version.
Select(c) ==
  /\ At(c, "ready") /\ Versioned(NextWrite(c))
  /\ Permits(NextWrite(c), Copy(c))
  /\ row.version = Copy(c).version
  /\ session' = [session EXCEPT ![c].step = "selected"]
  /\ UNCHANGED <<row, ledger>>

\* Mutant of Refuses: the call waits for a version that it knows.
RefusesByGuardOnly(c) == ~ Permits(NextWrite(c), Copy(c))

Refuses(c) ==
  \/ ~ Permits(NextWrite(c), Copy(c))
  \/ Versioned(NextWrite(c)) /\ row.version # Copy(c).version

\* A run whose transition is refused is marked failed; when that is refused
\* too, FAILED is written without asking the table.  Any other call ends.
Refuse(c) ==
  /\ At(c, "ready")
  /\ NextWrite(c).do \notin Deciding
  /\ Refuses(c)
  /\ \/ NextWrite(c).do = "move" /\ session[c].run /\ Continue(c, MarkFailed(c), Copy(c))
     \/ NextWrite(c).do = "fail" /\ Continue(c, <<Do("force")>>, Copy(c))
     \/ /\ ~ (NextWrite(c).do = "move" /\ session[c].run)
        /\ NextWrite(c).do # "fail"
        /\ Continue(c, << >>, Copy(c))
  /\ UNCHANGED <<row, ledger>>

\* Nothing is checked again here: the row may have changed since Select, and
\* pause, resume, cancel and retry never looked at its version.
Commit(c) ==
  LET new == Written(NextWrite(c), Copy(c))
  IN  /\ \/ At(c, "selected")
         \/ /\ At(c, "ready")
            /\ ~ Versioned(NextWrite(c))
            /\ NextWrite(c).do \notin Deciding
            /\ Permits(NextWrite(c), Copy(c))
      /\ Update(NextWrite(c), Copy(c), new)
      /\ session' = [session EXCEPT ![c].step = "written", ![c].copy = new,
                                    ![c].entry = Entry(NextWrite(c), Copy(c))]
      /\ UNCHANGED ledger

Refresh(c) ==
  /\ At(c, "written")
  /\ ledger' = ledger \o session[c].entry
  /\ Continue(c, Rest(c), row)
  /\ UNCHANGED row

\* A task run goes from the retry to the run, which looks at the copy.
Begin(c) ==
  /\ At(c, "ready") /\ NextWrite(c).do = "run"
  /\ \/ /\ CanRun(Copy(c))
        /\ session' = [session EXCEPT ![c].todo = RunOf(Copy(c)), ![c].run = TRUE]
     \/ ~ CanRun(Copy(c)) /\ Continue(c, << >>, Copy(c))
  /\ UNCHANGED <<row, ledger>>

\* The supervisor's answer, and the compliance decision.
Understand(c) ==
  /\ At(c, "ready") /\ NextWrite(c).do = "understand"
  /\ \E todo \in Understandings(Rest(c)) : Continue(c, todo, Copy(c))
  /\ UNCHANGED <<row, ledger>>

ApplyDecision(c) ==
  /\ At(c, "ready") /\ NextWrite(c).do = "decide"
  /\ \E todo \in Decisions : Continue(c, todo, Copy(c))
  /\ UNCHANGED <<row, ledger>>

\* An agent, an adapter or the freshness check raises.
Raise(c) ==
  /\ Running(c) /\ At(c, "ready") /\ MayRaiseBefore(NextWrite(c))
  /\ Continue(c, MarkFailed(c), Copy(c))
  /\ UNCHANGED <<row, ledger>>

\* The process dies in the middle of a call, or an exception that the code
\* does not catch ends it: the session is gone, what was committed stays.
Abandon(c) ==
  /\ Active(c)
  /\ session' = [session EXCEPT ![c] = Closed]
  /\ UNCHANGED <<row, ledger>>

OpenCall ==
  \/ \E c \in Callers : OpenRun(c) \/ OpenRetry(c)
  \/ OpenPause(Api) \/ OpenResume(Api) \/ OpenCancel(Api)

Step(c) ==
  \/ Select(c) \/ Refuse(c) \/ Commit(c) \/ Refresh(c)
  \/ Begin(c) \/ Understand(c) \/ ApplyDecision(c) \/ Raise(c)

Next == OpenCall \/ \E c \in Callers : Step(c)

\* The steps of a call that has begun are taken: the event loop and the
\* scheduler thread do not stop in the middle of a synchronous function.
Fairness == \A c \in Callers : WF_vars(Step(c))

Spec == Init /\ [][Next]_vars /\ Fairness
CrashSpec == Init /\ [][Next \/ \E c \in Callers : Abandon(c)]_vars

\* The same calls, one after the other.
OneAtATime == ~ (Active(Api) /\ Active(Scheduler))
SerialSpec == Init /\ [][Next /\ OneAtATime']_vars /\ Fairness

-----------------------------------------------------------------------------
(***************************************************************************)
(* Properties.                                                             *)
(***************************************************************************)
Row ==
  [ state : WorkflowState, previous : WorkflowState \cup {NoState},
    paused : BOOLEAN, retries : Nat, completed : BOOLEAN, intent : BOOLEAN,
    version : Nat ]

\* Every copy is a row, and an open call has something left to do.
SessionTypeOK ==
  /\ row \in Row
  /\ ledger \in Seq(Transition)
  /\ \A c \in Callers : Active(c) => Copy(c) \in Row /\ session[c].todo # << >>

\* The states a run passes through, and that no other call leaves.
RunStates ==
  {"AUTHENTICATED", "AUTHORIZED", "CLASSIFYING", "CONTEXT_RETRIEVAL",
   "DATA_FRESHNESS_CHECK", "INVESTIGATING", "POLICY_RETRIEVAL",
   "ACTION_PROPOSED", "COMPLIANCE_REVIEW", "EXECUTING", "VERIFYING"}

Quiet == \A c \in Callers : ~ Active(c)

\* The failure that _mark_failed writes when the table has no edge for it.
ForcedFailure ==
  /\ Unversioned(row)' = Service!MovedTo(Unversioned(row), "FAILED")
  /\ Told' = Told

\* The first of the two moves of a retry.
Rescheduled ==
  /\ row.state = "FAILED" /\ row.retries < MaxRetries
  /\ Unversioned(row)' = Service!RetryScheduled(Unversioned(row))
  /\ Told' = Append(Told, Service!Edge("FAILED", "RETRY_SCHEDULED"))

\* Calls that do not overlap are atomic: whatever a call commits is, one
\* commit after the other, an operation of WorkflowService on the row and
\* its ledger, or a failure forced without an edge.  This is what lets
\* WorkflowService and ApprovalService take a call for one step.
CommitsAreOperations ==
  [][Service!WorkflowStep("w") \/ Rescheduled \/ ForcedFailure]_<<Unversioned(row), Told>>

\* A ledger that says how the workflow came where it is: once no call is
\* under way, its entries lead to row.state without a gap.
LedgerExplainsRow == Quiet => Service!HistoryMatchesRow

\* Once no call is under way the workflow does not stand in the middle of a
\* run, where no run would take it further.
NotStranded == Quiet => row.state \notin RunStates \/ Resumable(row)

\* A run that has moved the workflow moves it on until it rests.
RunsComeToRest == row.state \in RunStates ~> row.state \notin RunStates

\* Every call ends, whatever the other caller writes into its row.
CallsEnd == \A c \in Callers : Active(c) ~> ~ Active(c)

\* A workflow that reached a terminal state stays in it.
TerminalIsFinal == [][IsTerminal(row.state) => row'.state = row.state]_vars

\* The retries stay within the budget, and the count misses none that the
\* ledger shows, although retry_workflow checks no version.
RetriesWithinBudget ==
  /\ row.retries <= MaxRetries
  /\ Cardinality(Service!RetryEntries(Told)) <= row.retries

\* An attempt at a workflow executes its action once: the first attempt, and
\* one for each retry.
ExecutedOncePerAttempt ==
  Cardinality({i \in 1 .. Len(Told) : Told[i].to = "EXECUTING"}) <= 1 + row.retries

=============================================================================
