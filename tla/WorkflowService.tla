-------------------------- MODULE WorkflowService --------------------------
(***************************************************************************)
(* WorkflowService and WorkflowRepository: the persisted workflow row, the *)
(* WorkflowTransition ledger and the clarification requests, with one      *)
(* action per service operation.  An action is a whole call, with every    *)
(* commit it makes: this is the service as a single API process runs it,   *)
(* where the event loop serves one handler at a time.  The module          *)
(* WorkflowSessions breaks the same operations into their database         *)
(* statements.                                                             *)
(*                                                                         *)
(* The `version` column is left out here: calls that do not overlap never  *)
(* fail the version check.  An early return that changes nothing is an     *)
(* action that is not enabled.                                             *)
(***************************************************************************)
EXTENDS WorkflowStateMachine, Integers, FiniteSets

CONSTANTS
  Workflows,       \* workflow ids
  Clarifications,  \* clarification request ids
  MaxRetries,      \* Workflow.max_retries (default 3)
  CallerTargets,   \* the states callers of transition_workflow ask for
  NoState          \* previous_state of a new row (NULL)

ASSUME MaxRetriesAssumption == MaxRetries \in Nat
ASSUME CallerTargetsAssumption == CallerTargets \subseteq WorkflowState
ASSUME NoStateAssumption == NoState \notin WorkflowState

VARIABLES
  created,         \* ids present in the workflows table
  rows,            \* rows[w]: the Workflow row
  history,         \* history[w]: the WorkflowTransition rows of w
  clarifications   \* clarifications[c]: the ClarificationRequest row

serviceVars == <<created, rows, history, clarifications>>

Row ==
  [ state     : WorkflowState,
    previous  : WorkflowState \cup {NoState},
    paused    : BOOLEAN,      \* paused_at is set
    retries   : Nat,          \* retry_count
    completed : BOOLEAN,      \* completed_at is set
    intent    : BOOLEAN ]     \* intent is set

NewRow ==
  [ state |-> "RECEIVED", previous |-> NoState, paused |-> FALSE,
    retries |-> 0, completed |-> FALSE, intent |-> FALSE ]

\* A request is open until answered, and overdue once required_by passed.
ClarificationStatus == {"none", "open", "overdue", "answered"}
Clarification == [status : ClarificationStatus, workflow : Workflows]

TypeOK ==
  /\ created \subseteq Workflows
  /\ rows \in [Workflows -> Row]
  /\ history \in [Workflows -> Seq(Transition)]
  /\ clarifications \in [Clarifications -> Clarification]

ServiceInit ==
  /\ created = {}
  /\ rows = [w \in Workflows |-> NewRow]
  /\ history = [w \in Workflows |-> << >>]
  /\ clarifications \in
       [Clarifications -> [status : {"none"}, workflow : Workflows]]

-----------------------------------------------------------------------------
(***************************************************************************)
(* What the repository writes into a row.                                  *)
(***************************************************************************)

\* Mutant of CompletingStates: one of the three lists lacks EXPIRED.
CompletingStatesShort ==
  {"COMPLETED", "DENIED", "ESCALATED", "REJECTED", "CANCELLED"}

\* The states that stamp completed_at, as update_workflow_state lists them.
CompletingStates ==
  {"COMPLETED", "DENIED", "ESCALATED", "REJECTED", "CANCELLED", "EXPIRED"}

\* update_workflow_state: previous follows, completed_at is stamped.
MovedTo(row, to) ==
  [row EXCEPT !.previous = row.state, !.state = to,
              !.completed = @ \/ to \in CompletingStates]

Paused(row)  == [row EXCEPT !.paused = TRUE]
Resumed(row) == [row EXCEPT !.paused = FALSE]

\* Mutant of Cancelled: previous_state is not kept.
CancelledWithoutPrevious(row) ==
  [row EXCEPT !.state = "CANCELLED", !.completed = TRUE]

\* cancel_workflow: the pause is not cleared.
Cancelled(row) ==
  [row EXCEPT !.previous = row.state, !.state = "CANCELLED", !.completed = TRUE]

\* Mutants of RetryScheduled: the retry is not counted; retry_count counts
\* down.
RetryUncounted(row) ==
  [row EXCEPT !.previous = "FAILED", !.state = "RETRY_SCHEDULED"]
RetryCountdown(row) ==
  [row EXCEPT !.previous = "FAILED", !.state = "RETRY_SCHEDULED",
              !.retries = @ - 1]

\* retry_workflow: only the state is changed, and the count goes up.
RetryScheduled(row) ==
  [row EXCEPT !.previous = "FAILED", !.state = "RETRY_SCHEDULED",
              !.retries = @ + 1]

\* Mutant of CanMove: the pause is not looked at.
CanMoveWhilePaused(row, to) ==
  ~ IsTerminal(row.state) /\ ValidTransition(row.state, to)

\* The guards of transition_workflow.
CanMove(row, to) ==
  /\ ~ IsTerminal(row.state)
  /\ ~ row.paused
  /\ ValidTransition(row.state, to)

Edge(from, to) == [from |-> from, to |-> to]

-----------------------------------------------------------------------------
(***************************************************************************)
(* The operations.                                                         *)
(***************************************************************************)
CreateWorkflow(w) ==
  /\ w \notin created
  /\ created' = created \cup {w}
  /\ UNCHANGED <<rows, history, clarifications>>

\* One row and its ledger change; the rest of the database does not.
WriteMove(w, row, added) ==
  /\ rows' = [rows EXCEPT ![w] = row]
  /\ history' = [history EXCEPT ![w] = @ \o added]
  /\ UNCHANGED created

WriteRow(w, row) ==
  /\ rows' = [rows EXCEPT ![w] = row]
  /\ UNCHANGED <<created, history>>

TransitionWorkflow(w, to) ==
  /\ CanMove(rows[w], to)
  /\ WriteMove(w, MovedTo(rows[w], to), <<Edge(rows[w].state, to)>>)
  /\ UNCHANGED clarifications

SetIntent(w) ==
  /\ WriteRow(w, [rows[w] EXCEPT !.intent = TRUE])
  /\ UNCHANGED clarifications

\* Mutant of PauseWorkflow: a terminal workflow can be paused.
PauseAnyWorkflow(w) ==
  /\ ~ rows[w].paused
  /\ WriteRow(w, Paused(rows[w]))
  /\ UNCHANGED clarifications

PauseWorkflow(w) ==
  /\ ~ IsTerminal(rows[w].state)
  /\ ~ rows[w].paused
  /\ WriteRow(w, Paused(rows[w]))
  /\ UNCHANGED clarifications

\* Only the pause is looked at: a terminal workflow can be resumed too.
ResumeWorkflow(w) ==
  /\ rows[w].paused
  /\ WriteRow(w, Resumed(rows[w]))
  /\ UNCHANGED clarifications

\* A paused workflow can be cancelled.
CancelWorkflow(w) ==
  /\ ~ IsTerminal(rows[w].state)
  /\ ValidTransition(rows[w].state, "CANCELLED")
  /\ WriteMove(w, Cancelled(rows[w]), <<Edge(rows[w].state, "CANCELLED")>>)
  /\ UNCHANGED clarifications

\* The retry is scheduled first, and then transition_workflow restarts the
\* workflow.  It refuses a paused workflow, which has then been moved to
\* RETRY_SCHEDULED all the same.
RetryWorkflow(w) ==
  LET scheduled == RetryScheduled(rows[w])
      first     == Edge("FAILED", "RETRY_SCHEDULED")
  IN  /\ rows[w].state = "FAILED"
      /\ rows[w].retries < MaxRetries
      /\ \/ /\ CanMove(scheduled, "RECEIVED")
            /\ WriteMove(w, MovedTo(scheduled, "RECEIVED"),
                         <<first, Edge("RETRY_SCHEDULED", "RECEIVED")>>)
         \/ /\ ~ CanMove(scheduled, "RECEIVED")
            /\ WriteMove(w, scheduled, <<first>>)
      /\ UNCHANGED clarifications

\* A workflow may have several open requests.
RequestClarification(w, c) ==
  /\ rows[w].state = "NEEDS_CLARIFICATION"
  /\ clarifications[c].status = "none"
  /\ clarifications' =
       [clarifications EXCEPT ![c] = [status |-> "open", workflow |-> w]]
  /\ UNCHANGED <<created, rows, history>>

\* The answer lifts the pause of the workflow whatever its state, and moves
\* it on if it still waits for a clarification.
RespondToClarification(c) ==
  LET w == clarifications[c].workflow
      awake == Resumed(rows[w])
  IN  /\ clarifications[c].status = "open"
      /\ clarifications' = [clarifications EXCEPT ![c].status = "answered"]
      /\ \/ /\ rows[w].state = "NEEDS_CLARIFICATION"
            /\ WriteMove(w, MovedTo(awake, "CLASSIFYING"),
                         <<Edge("NEEDS_CLARIFICATION", "CLASSIFYING")>>)
         \/ /\ rows[w].state # "NEEDS_CLARIFICATION"
            /\ WriteRow(w, awake)

\* The clock passes required_by: an answer is refused from here on.
ClarificationOverdue(c) ==
  /\ clarifications[c].status = "open"
  /\ clarifications' = [clarifications EXCEPT ![c].status = "overdue"]
  /\ UNCHANGED <<created, rows, history>>

WorkflowStep(w) ==
  \/ \E to \in CallerTargets : TransitionWorkflow(w, to)
  \/ SetIntent(w)
  \/ PauseWorkflow(w)
  \/ ResumeWorkflow(w)
  \/ CancelWorkflow(w)
  \/ RetryWorkflow(w)
  \/ \E c \in Clarifications : RequestClarification(w, c)

ClarificationStep(c) == RespondToClarification(c) \/ ClarificationOverdue(c)

ServiceNext ==
  \/ \E w \in Workflows : CreateWorkflow(w)
  \/ \E w \in created : WorkflowStep(w)
  \/ \E c \in Clarifications : ClarificationStep(c)

ServiceSpec == ServiceInit /\ [][ServiceNext]_serviceVars

-----------------------------------------------------------------------------
(***************************************************************************)
(* Properties.                                                             *)
(***************************************************************************)

\* A ledger that tells how a row came to be: it leads to the row's state,
\* and previous_state is where its last entry started.
Tells(ledger, row) ==
  /\ LeadsTo(ledger, row.state)
  /\ row.previous =
       IF ledger = << >> THEN NoState ELSE ledger[Len(ledger)].from

\* The ledger tells the whole story of every workflow: it leads from
\* RECEIVED to current_state without a gap along edges of the table, although
\* the row and its WorkflowTransition are written by different functions.
HistoryMatchesRow == \A w \in Workflows : Tells(history[w], rows[w])

\* completed_at is stamped exactly on the workflows in a terminal state,
\* although three functions of the repository stamp it, each with a list of
\* its own.
CompletedIffTerminal ==
  \A w \in Workflows : rows[w].completed <=> IsTerminal(rows[w].state)

\* The ledger's entries that schedule a retry.
RetryEntries(ledger) ==
  {i \in 1 .. Len(ledger) : ledger[i].to = "RETRY_SCHEDULED"}

\* retry_count is the number of retries the ledger shows, and it does not
\* pass max_retries.
WithinBudget(ledger, row) ==
  /\ row.retries <= MaxRetries
  /\ Cardinality(RetryEntries(ledger)) = row.retries

\* Every workflow stays within its retry budget, although the count, the
\* state and the ledger are written by different functions and only
\* retry_workflow looks at the budget.  (When no caller of
\* transition_workflow asks for RETRY_SCHEDULED itself.)
RetryBudget == \A w \in Workflows : WithinBudget(history[w], rows[w])

\* What a call leaves alone when it does not disturb a workflow: the state,
\* the ledger, the count; its pause may be lifted and its intent set.
Undisturbed(w) ==
  /\ history'[w] = history[w]
  /\ rows'[w].state = rows[w].state
  /\ rows'[w].previous = rows[w].previous
  /\ rows'[w].retries = rows[w].retries
  /\ rows'[w].paused => rows[w].paused

\* No call disturbs a workflow that reached a terminal state.
TerminalIsFinal ==
  [][\A w \in Workflows : IsTerminal(rows[w].state) => Undisturbed(w)]_serviceVars

\* Every call of the service is a step of the abstract life cycle, or moves
\* nothing.
Lifecycle ==
  INSTANCE WorkflowLifecycle
    WITH phase  <- [w \in Workflows |-> rows[w].state],
         held   <- [w \in Workflows |-> rows[w].paused],
         ledger <- history

ImplementsLifecycle == Lifecycle!LifecycleSpec

=============================================================================
