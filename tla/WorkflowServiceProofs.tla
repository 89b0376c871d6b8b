----------------------- MODULE WorkflowServiceProofs -----------------------
(***************************************************************************)
(* What the workflow service guarantees for any number of workflows,       *)
(* clarification requests, retries and calls: the types, the three         *)
(* invariants of WorkflowService, that a terminal workflow is final, and   *)
(* that the service implements WorkflowLifecycle.                          *)
(***************************************************************************)
EXTENDS WorkflowService, FiniteSetTheorems, SequenceTheorems, TLAPS

(***************************************************************************)
(* Facts about the table and about ledgers.                                *)
(***************************************************************************)

\* The two edges that the service takes without asking the table.
LEMMA UncheckedEdges ==
  /\ ValidTransition("FAILED", "RETRY_SCHEDULED")
  /\ ValidTransition("NEEDS_CLARIFICATION", "CLASSIFYING")
BY DEF ValidTransition, VALID_TRANSITIONS

\* The list in update_workflow_state is the list of terminal states.
LEMMA CompletingIsTerminal == CompletingStates = TERMINAL_STATES
BY DEF CompletingStates, TERMINAL_STATES

\* retry_workflow writes a row.
LEMMA RetryScheduledIsRow ==
  ASSUME NEW row \in Row
  PROVE  /\ RetryScheduled(row) \in Row
         /\ RetryScheduled(row).state = "RETRY_SCHEDULED"
         /\ RetryScheduled(row).previous = "FAILED"
         /\ RetryScheduled(row).completed = row.completed
         /\ RetryScheduled(row).retries = row.retries + 1
<1>1. "FAILED" \in WorkflowState /\ "RETRY_SCHEDULED" \in WorkflowState
  BY DEF WorkflowState
<1> DEFINE n == row.retries + 1
<1>2. n \in Nat
  BY DEF Row
<1>3. RetryScheduled(row) =
        [row EXCEPT !.previous = "FAILED", !.state = "RETRY_SCHEDULED",
                    !.retries = n]
  BY DEF RetryScheduled
<1> HIDE DEF n
<1>4. /\ RetryScheduled(row) \in Row
      /\ RetryScheduled(row).state = "RETRY_SCHEDULED"
      /\ RetryScheduled(row).previous = "FAILED"
      /\ RetryScheduled(row).completed = row.completed
      /\ RetryScheduled(row).retries = n
  BY <1>1, <1>2, <1>3 DEF Row
<1> QED BY <1>4 DEF n

\* Appending the edge that a row takes keeps the ledger telling the row.
LEMMA TellsMoved ==
  ASSUME NEW ledger \in Seq(Transition), NEW row \in Row,
         NEW to \in WorkflowState, NEW moved \in Row,
         Tells(ledger, row), ValidTransition(row.state, to),
         moved.state = to, moved.previous = row.state
  PROVE  LET longer == ledger \o <<Edge(row.state, to)>>
         IN  longer \in Seq(Transition) /\ Tells(longer, moved)
<1> DEFINE e == Edge(row.state, to)
           longer == ledger \o <<e>>
<1>1. row.state \in WorkflowState
  BY DEF Row
<1>2. e \in Transition /\ e.from = row.state /\ e.to = to
  BY <1>1 DEF Edge, Transition
<1>3. /\ longer \in Seq(Transition)
      /\ Len(longer) = Len(ledger) + 1
      /\ longer[Len(longer)] = e
      /\ \A i \in 1 .. Len(ledger) : longer[i] = ledger[i]
  BY <1>2
<1>4. Len(ledger) \in Nat /\ (Len(ledger) = 0 <=> ledger = << >>)
  BY EmptySeq, LenProperties
<1> HIDE DEF e, longer
<1>5. longer # << >>
  BY <1>3, <1>4, EmptySeq
<1>6. LeadsTo(ledger, row.state)
  BY DEF Tells
<1>7. longer[1].from = "RECEIVED"
  <2>1. CASE Len(ledger) = 0
    BY <2>1, <1>2, <1>3, <1>4, <1>6 DEF LeadsTo
  <2>2. CASE Len(ledger) # 0
    BY <2>2, <1>3, <1>4, <1>6 DEF LeadsTo
  <2> QED BY <2>1, <2>2
<1>8. \A i \in 1 .. Len(longer) : ValidTransition(longer[i].from, longer[i].to)
  BY <1>2, <1>3, <1>4, <1>6 DEF LeadsTo
<1>9. ASSUME NEW i \in 1 .. Len(longer), i > 1
      PROVE  longer[i].from = longer[i - 1].to
  <2>1. CASE i <= Len(ledger)
    <3>1. i \in 1 .. Len(ledger) /\ i - 1 \in 1 .. Len(ledger)
      BY <2>1, <1>9, <1>4
    <3>2. ledger[i].from = ledger[i - 1].to
      BY <3>1, <1>9, <1>6 DEF LeadsTo
    <3> QED BY <3>1, <3>2, <1>3
  <2>2. CASE i = Len(longer)
    <3>1. Len(ledger) # 0 /\ i - 1 = Len(ledger) /\ Len(ledger) \in 1 .. Len(ledger)
      BY <2>2, <1>9, <1>3, <1>4
    <3>2. ledger[Len(ledger)].to = row.state
      BY <3>1, <1>4, <1>6 DEF LeadsTo
    <3> QED BY <3>1, <3>2, <2>2, <1>2, <1>3
  <2> QED BY <2>1, <2>2, <1>3, <1>4
<1>10. LeadsTo(longer, to)
  BY <1>2, <1>3, <1>5, <1>7, <1>8, <1>9 DEF LeadsTo
<1>11. Tells(longer, moved)
  BY <1>10, <1>5, <1>3, <1>2 DEF Tells
<1> QED BY <1>3, <1>11 DEF longer, e

\* Two entries added at once, or one after the other.
LEMMA TwoEntries ==
  ASSUME NEW ledger \in Seq(Transition), NEW e \in Transition, NEW f \in Transition
  PROVE  (ledger \o <<e>>) \o <<f>> = ledger \o <<e, f>>
<1> DEFINE one == ledger \o <<e>>
           two == one \o <<f>>
           both == ledger \o <<e, f>>
<1>1. /\ both \in Seq(Transition) /\ Len(both) = Len(ledger) + 2
      /\ one \in Seq(Transition) /\ Len(one) = Len(ledger) + 1
      /\ two \in Seq(Transition) /\ Len(two) = Len(ledger) + 2
  OBVIOUS
<1>2. ASSUME NEW i \in 1 .. Len(ledger) + 2 PROVE both[i] = two[i]
  BY <1>1
<1> QED BY <1>1, <1>2, SeqEqual

\* An appended edge adds itself to the retry entries or nothing.
LEMMA RetryEntriesAppend ==
  ASSUME NEW ledger \in Seq(Transition), NEW e \in Transition
  PROVE  /\ IsFiniteSet(RetryEntries(ledger))
         /\ Cardinality(RetryEntries(ledger)) \in Nat
         /\ Cardinality(RetryEntries(ledger \o <<e>>)) =
              IF e.to = "RETRY_SCHEDULED"
              THEN Cardinality(RetryEntries(ledger)) + 1
              ELSE Cardinality(RetryEntries(ledger))
<1> DEFINE n == Len(ledger)
           longer == ledger \o <<e>>
<1>1. n \in Nat
  BY LenProperties
<1>2. /\ Len(longer) = n + 1
      /\ longer[n + 1] = e
      /\ \A i \in 1 .. n : longer[i] = ledger[i]
  OBVIOUS
<1>3. IsFiniteSet(1 .. n)
  BY <1>1, FS_Interval
<1>4. RetryEntries(ledger) \subseteq 1 .. n
  BY DEF RetryEntries
<1>5. IsFiniteSet(RetryEntries(ledger))
  BY <1>3, <1>4, FS_Subset
<1>6. Cardinality(RetryEntries(ledger)) \in Nat
  BY <1>5, FS_CardinalityType
<1>7. n + 1 \notin RetryEntries(ledger)
  BY <1>1, <1>4
<1> HIDE DEF longer
<1>8. RetryEntries(longer) =
        IF e.to = "RETRY_SCHEDULED"
        THEN RetryEntries(ledger) \cup {n + 1} ELSE RetryEntries(ledger)
  BY <1>1, <1>2 DEF RetryEntries
<1>9. Cardinality(RetryEntries(ledger) \cup {n + 1})
        = Cardinality(RetryEntries(ledger)) + 1
  BY <1>5, <1>7, FS_AddElement
<1> QED BY <1>5, <1>6, <1>8, <1>9 DEF longer

-----------------------------------------------------------------------------
(***************************************************************************)
(* The inductive invariant.  HistoryMatchesRow and CompletedIffTerminal    *)
(* are inductive once the types are known: every write of a row comes with *)
(* the ledger entries that explain it.                                     *)
(***************************************************************************)
Inv == TypeOK /\ HistoryMatchesRow /\ CompletedIffTerminal

\* A row whose completed_at agrees with its state.
Stamped(row) == row.completed <=> IsTerminal(row.state)

\* One row and its ledger are written together and agree: what the service
\* keeps about every workflow is kept.
LEMMA WriteKeeps ==
  ASSUME Inv, NEW w \in Workflows, NEW row \in Row,
         NEW ledger \in Seq(Transition), Tells(ledger, row), Stamped(row),
         rows' = [rows EXCEPT ![w] = row],
         history' = [history EXCEPT ![w] = ledger],
         created' \subseteq Workflows,
         clarifications' \in [Clarifications -> Clarification]
  PROVE  Inv'
<1>1. TypeOK'
  BY DEF Inv, TypeOK
<1>2. HistoryMatchesRow'
  BY DEF Inv, TypeOK, HistoryMatchesRow
<1>3. CompletedIffTerminal'
  BY DEF Inv, TypeOK, CompletedIffTerminal, Stamped
<1> QED BY <1>1, <1>2, <1>3 DEF Inv

\* A row that only changes in its pause, its intent or its clarification is
\* explained by the same ledger.
LEMMA WriteRowKeeps ==
  ASSUME Inv, NEW w \in Workflows, NEW row \in Row,
         row.state = rows[w].state, row.previous = rows[w].previous,
         row.completed = rows[w].completed,
         WriteRow(w, row), clarifications' \in [Clarifications -> Clarification]
  PROVE  Inv'
<1>1. history[w] \in Seq(Transition) /\ Tells(history[w], rows[w]) /\ Stamped(rows[w])
  BY DEF Inv, TypeOK, HistoryMatchesRow, CompletedIffTerminal, Stamped
<1>2. Tells(history[w], row) /\ Stamped(row)
  BY <1>1 DEF Tells, Stamped
<1>3. history' = [history EXCEPT ![w] = history[w]]
  BY DEF WriteRow, Inv, TypeOK
<1>4. created' \subseteq Workflows
  BY DEF WriteRow, Inv, TypeOK
<1> QED BY <1>1, <1>2, <1>3, <1>4, WriteKeeps DEF WriteRow

\* A row that moves along an edge, together with the entry of that edge.
LEMMA WriteMoveKeeps ==
  ASSUME Inv, NEW w \in Workflows, NEW to \in WorkflowState,
         NEW row \in Row, row.state = to, row.previous = rows[w].state,
         ValidTransition(rows[w].state, to), Stamped(row),
         WriteMove(w, row, <<Edge(rows[w].state, to)>>),
         clarifications' \in [Clarifications -> Clarification]
  PROVE  Inv'
<1> DEFINE ledger == history[w] \o <<Edge(rows[w].state, to)>>
<1>1. history[w] \in Seq(Transition) /\ rows[w] \in Row /\ Tells(history[w], rows[w])
  BY DEF Inv, TypeOK, HistoryMatchesRow
<1>2. ledger \in Seq(Transition) /\ Tells(ledger, row)
  BY <1>1, TellsMoved
<1>3. history' = [history EXCEPT ![w] = ledger] /\ created' \subseteq Workflows
  BY DEF WriteMove, Inv, TypeOK
<1> HIDE DEF ledger
<1> QED BY <1>2, <1>3, WriteKeeps DEF WriteMove

\* Initially every ledger is empty and every workflow is RECEIVED.
LEMMA InvInit == ServiceInit => Inv
<1> SUFFICES ASSUME ServiceInit PROVE Inv
  OBVIOUS
<1>1. NewRow \in Row
  BY DEF NewRow, Row, WorkflowState
<1>2. TypeOK
  <2>1. << >> \in Seq(Transition)
    OBVIOUS
  <2>2. clarifications \in [Clarifications -> Clarification]
    BY DEF ServiceInit, Clarification, ClarificationStatus
  <2> QED BY <1>1, <2>1, <2>2 DEF ServiceInit, TypeOK
<1>3. HistoryMatchesRow
  BY DEF ServiceInit, HistoryMatchesRow, Tells, LeadsTo, NewRow
<1>4. CompletedIffTerminal
  BY DEF ServiceInit, CompletedIffTerminal, NewRow, IsTerminal, TERMINAL_STATES
<1> QED BY <1>2, <1>3, <1>4 DEF Inv

(* Every call of the service preserves the inductive invariant. *)
LEMMA InvStep == Inv /\ [ServiceNext]_serviceVars => Inv'
<1> SUFFICES ASSUME Inv, [ServiceNext]_serviceVars PROVE Inv'
  OBVIOUS
<1> USE CallerTargetsAssumption, NoStateAssumption, MaxRetriesAssumption
<1>a. /\ created \subseteq Workflows
      /\ rows \in [Workflows -> Row]
      /\ history \in [Workflows -> Seq(Transition)]
      /\ clarifications \in [Clarifications -> Clarification]
  BY DEF Inv, TypeOK
<1>b. \A v \in Workflows : Stamped(rows[v])
  BY DEF Inv, CompletedIffTerminal, Stamped
<1>1. ASSUME NEW w \in Workflows, CreateWorkflow(w) PROVE Inv'
  <2>1. created' \subseteq Workflows /\ UNCHANGED <<rows, history, clarifications>>
    BY <1>1, <1>a DEF CreateWorkflow
  <2> QED BY <2>1 DEF Inv, TypeOK, HistoryMatchesRow, CompletedIffTerminal
<1>2. ASSUME NEW w \in created, NEW to \in CallerTargets,
             TransitionWorkflow(w, to)
      PROVE  Inv'
  <2>1. /\ w \in Workflows /\ to \in WorkflowState /\ rows[w] \in Row
        /\ ValidTransition(rows[w].state, to) /\ ~ IsTerminal(rows[w].state)
    BY <1>2, <1>a DEF TransitionWorkflow, CanMove
  <2>2. /\ MovedTo(rows[w], to) \in Row
        /\ MovedTo(rows[w], to).state = to
        /\ MovedTo(rows[w], to).previous = rows[w].state
        /\ Stamped(MovedTo(rows[w], to))
    BY <2>1, <1>b, CompletingIsTerminal DEF MovedTo, Row, Stamped, IsTerminal
  <2>3. clarifications' \in [Clarifications -> Clarification]
    BY <1>2, <1>a DEF TransitionWorkflow
  <2> QED BY <1>2, <2>1, <2>2, <2>3, WriteMoveKeeps DEF TransitionWorkflow
<1>3. ASSUME NEW w \in created, SetIntent(w) PROVE Inv'
  <2>1. [rows[w] EXCEPT !.intent = TRUE] \in Row /\ w \in Workflows
    BY <1>a DEF Row
  <2> QED BY <1>3, <1>a, <2>1, WriteRowKeeps DEF SetIntent, Row
<1>4. ASSUME NEW w \in created, PauseWorkflow(w) PROVE Inv'
  <2>1. Paused(rows[w]) \in Row /\ w \in Workflows
    BY <1>a DEF Row, Paused
  <2> QED BY <1>4, <1>a, <2>1, WriteRowKeeps DEF PauseWorkflow, Paused, Row
<1>5. ASSUME NEW w \in created, ResumeWorkflow(w) PROVE Inv'
  <2>1. Resumed(rows[w]) \in Row /\ w \in Workflows
    BY <1>a DEF Row, Resumed
  <2> QED BY <1>5, <1>a, <2>1, WriteRowKeeps DEF ResumeWorkflow, Resumed, Row
<1>6. ASSUME NEW w \in created, CancelWorkflow(w) PROVE Inv'
  <2>1. w \in Workflows /\ rows[w] \in Row /\ "CANCELLED" \in WorkflowState
    BY <1>a DEF WorkflowState
  <2>2. /\ Cancelled(rows[w]) \in Row
        /\ Cancelled(rows[w]).state = "CANCELLED"
        /\ Cancelled(rows[w]).previous = rows[w].state
        /\ Stamped(Cancelled(rows[w]))
    BY <2>1 DEF Cancelled, Row, Stamped, IsTerminal, TERMINAL_STATES
  <2>3. clarifications' \in [Clarifications -> Clarification]
    BY <1>6, <1>a DEF CancelWorkflow
  <2> QED BY <1>6, <2>1, <2>2, <2>3, WriteMoveKeeps DEF CancelWorkflow
<1>7. ASSUME NEW w \in created, RetryWorkflow(w) PROVE Inv'
  <2> DEFINE scheduled == RetryScheduled(rows[w])
             first     == Edge("FAILED", "RETRY_SCHEDULED")
             second    == Edge("RETRY_SCHEDULED", "RECEIVED")
             once      == history[w] \o <<first>>
  <2>1. /\ w \in Workflows /\ rows[w] \in Row /\ rows[w].state = "FAILED"
        /\ "RETRY_SCHEDULED" \in WorkflowState /\ "RECEIVED" \in WorkflowState
        /\ ~ IsTerminal("FAILED") /\ ~ IsTerminal("RETRY_SCHEDULED")
        /\ ~ IsTerminal("RECEIVED")
    BY <1>7, <1>a DEF RetryWorkflow, WorkflowState, IsTerminal, TERMINAL_STATES
  <2>2. /\ scheduled \in Row /\ scheduled.state = "RETRY_SCHEDULED"
        /\ scheduled.previous = "FAILED" /\ Stamped(scheduled)
    <3>1. /\ scheduled \in Row /\ scheduled.state = "RETRY_SCHEDULED"
          /\ scheduled.previous = "FAILED"
          /\ scheduled.completed = rows[w].completed
      BY <2>1, RetryScheduledIsRow
    <3>2. Stamped(rows[w])
      BY <2>1, <1>b
    <3> HIDE DEF scheduled
    <3> QED BY <3>1, <3>2, <2>1 DEF Stamped
  <2>3. once \in Seq(Transition) /\ Tells(once, scheduled)
    BY <2>1, <2>2, <1>a, UncheckedEdges, TellsMoved DEF Inv, HistoryMatchesRow
  <2>4. created' \subseteq Workflows
        /\ clarifications' \in [Clarifications -> Clarification]
    BY <1>7, <1>a DEF RetryWorkflow, WriteMove
  <2>5. CASE CanMove(scheduled, "RECEIVED")
    <3> DEFINE restarted == MovedTo(scheduled, "RECEIVED")
               twice     == once \o <<second>>
    <3>1. /\ restarted \in Row /\ restarted.state = "RECEIVED"
          /\ restarted.previous = "RETRY_SCHEDULED" /\ Stamped(restarted)
      BY <2>1, <2>2, CompletingIsTerminal DEF MovedTo, Row, Stamped, IsTerminal
    <3>2. ValidTransition("RETRY_SCHEDULED", "RECEIVED")
      BY <2>5, <2>2 DEF CanMove
    <3>3. twice \in Seq(Transition) /\ Tells(twice, restarted)
      BY <3>1, <3>2, <2>1, <2>2, <2>3, TellsMoved
    <3>4. rows' = [rows EXCEPT ![w] = restarted]
          /\ history' = [history EXCEPT ![w] = history[w] \o <<first, second>>]
      BY <1>7, <2>5 DEF RetryWorkflow, WriteMove
    <3>5. history[w] \o <<first, second>> = twice
      <4>1. history[w] \in Seq(Transition) /\ first \in Transition /\ second \in Transition
        BY <1>a, <2>1 DEF Edge, Transition, WorkflowState
      <4> HIDE DEF first, second
      <4> QED BY <4>1, TwoEntries
    <3> HIDE DEF twice, restarted
    <3> QED BY <3>1, <3>3, <3>4, <3>5, <2>1, <2>4, WriteKeeps
  <2>6. CASE ~ CanMove(scheduled, "RECEIVED")
    <3>1. rows' = [rows EXCEPT ![w] = scheduled] /\ history' = [history EXCEPT ![w] = once]
      BY <1>7, <2>6 DEF RetryWorkflow, WriteMove
    <3> HIDE DEF once, scheduled
    <3> QED BY <3>1, <2>1, <2>2, <2>3, <2>4, WriteKeeps
  <2> QED BY <2>5, <2>6
<1>8. ASSUME NEW w \in created, NEW c \in Clarifications, RequestClarification(w, c)
      PROVE  Inv'
  <2>1. [status |-> "open", workflow |-> w] \in Clarification
    BY <1>a DEF Clarification, ClarificationStatus
  <2>2. clarifications' \in [Clarifications -> Clarification]
        /\ UNCHANGED <<created, rows, history>>
    BY <1>8, <1>a, <2>1 DEF RequestClarification
  <2> QED BY <2>2 DEF Inv, TypeOK, HistoryMatchesRow, CompletedIffTerminal
<1>9. ASSUME NEW c \in Clarifications, RespondToClarification(c) PROVE Inv'
  <2> DEFINE w     == clarifications[c].workflow
             awake == Resumed(rows[w])
  <2>1. w \in Workflows /\ rows[w] \in Row
    BY <1>a DEF Clarification
  <2>2. clarifications' \in [Clarifications -> Clarification]
    BY <1>9, <1>a DEF RespondToClarification, Clarification, ClarificationStatus
  <2>3. /\ awake \in Row /\ awake.state = rows[w].state
        /\ awake.previous = rows[w].previous
        /\ awake.completed = rows[w].completed
    BY <2>1 DEF Resumed, Row
  <2>4. CASE rows[w].state = "NEEDS_CLARIFICATION"
    <3> DEFINE row == MovedTo(awake, "CLASSIFYING")
    <3>1. "CLASSIFYING" \in WorkflowState /\ ~ IsTerminal("CLASSIFYING")
          /\ ~ IsTerminal("NEEDS_CLARIFICATION")
      BY DEF WorkflowState, IsTerminal, TERMINAL_STATES
    <3>2. /\ row \in Row /\ row.state = "CLASSIFYING"
          /\ row.previous = rows[w].state /\ Stamped(row)
      BY <3>1, <2>1, <2>3, <2>4, <1>b, CompletingIsTerminal
      DEF MovedTo, Row, Stamped, IsTerminal
    <3>3. WriteMove(w, row, <<Edge(rows[w].state, "CLASSIFYING")>>)
      BY <1>9, <2>4 DEF RespondToClarification
    <3> HIDE DEF row, w
    <3> QED BY <3>1, <3>2, <3>3, <2>1, <2>2, <2>4, UncheckedEdges, WriteMoveKeeps
  <2>5. CASE rows[w].state # "NEEDS_CLARIFICATION"
    <3>1. WriteRow(w, awake)
      BY <1>9, <2>5 DEF RespondToClarification
    <3> HIDE DEF w, awake
    <3> QED BY <3>1, <2>1, <2>2, <2>3, WriteRowKeeps
  <2> QED BY <2>4, <2>5
<1>10. ASSUME NEW c \in Clarifications, ClarificationOverdue(c) PROVE Inv'
  <2>1. clarifications' \in [Clarifications -> Clarification]
        /\ UNCHANGED <<created, rows, history>>
    BY <1>10, <1>a DEF ClarificationOverdue, Clarification, ClarificationStatus
  <2> QED BY <2>1 DEF Inv, TypeOK, HistoryMatchesRow, CompletedIffTerminal
<1>11. CASE UNCHANGED serviceVars
  BY <1>11 DEF serviceVars, Inv, TypeOK, HistoryMatchesRow, CompletedIffTerminal
<1> QED BY <1>1, <1>2, <1>3, <1>4, <1>5, <1>6, <1>7, <1>8, <1>9, <1>10, <1>11
        DEF ServiceNext, WorkflowStep, ClarificationStep

\* The invariant holds in every reachable state.
LEMMA InvAlways == ServiceSpec => []Inv
BY InvInit, InvStep, PTL DEF ServiceSpec

-----------------------------------------------------------------------------
(***************************************************************************)
(* What follows from it.                                                   *)
(***************************************************************************)

\* Every value stored by a call of the service has its type.
THEOREM TypeCorrect == ServiceSpec => []TypeOK
BY InvAlways, PTL DEF Inv

\* The ledger of WorkflowTransition rows reconstructs current_state and
\* previous_state of every workflow, for any callers of the service.
THEOREM LedgerIsFaithful == ServiceSpec => []HistoryMatchesRow
BY InvAlways, PTL DEF Inv

\* completed_at is set exactly on workflows in a terminal state.
THEOREM CompletionStamp == ServiceSpec => []CompletedIffTerminal
BY InvAlways, PTL DEF Inv

\* No call of the service disturbs a terminal workflow.
LEMMA TerminalStep ==
  Inv /\ [ServiceNext]_serviceVars =>
    \A v \in Workflows : IsTerminal(rows[v].state) => Undisturbed(v)
<1> SUFFICES ASSUME Inv, [ServiceNext]_serviceVars, NEW v \in Workflows,
                    IsTerminal(rows[v].state)
             PROVE  Undisturbed(v)
  OBVIOUS
<1>a. /\ created \subseteq Workflows /\ rows \in [Workflows -> Row]
      /\ history \in [Workflows -> Seq(Transition)]
      /\ clarifications \in [Clarifications -> Clarification]
  BY DEF Inv, TypeOK
<1>b. ~ IsTerminal("FAILED") /\ ~ IsTerminal("NEEDS_CLARIFICATION")
  BY DEF IsTerminal, TERMINAL_STATES
<1>1. ASSUME UNCHANGED <<rows[v], history[v]>> PROVE Undisturbed(v)
  BY <1>1 DEF Undisturbed
<1>2. ASSUME NEW w \in created, w # v, NEW row, NEW added,
             WriteMove(w, row, added) \/ WriteRow(w, row)
      PROVE  Undisturbed(v)
  BY <1>2, <1>a, <1>1 DEF WriteMove, WriteRow
<1>3. ASSUME NEW w \in created, NEW row \in Row, WriteRow(w, row),
             row.state = rows[w].state, row.previous = rows[w].previous,
             row.retries = rows[w].retries, row.paused => rows[w].paused
      PROVE  Undisturbed(v)
  BY <1>3, <1>a DEF WriteRow, Undisturbed
<1>4. ASSUME NEW w \in created, WorkflowStep(w) PROVE Undisturbed(v)
  <2>1. CASE \E to \in CallerTargets : TransitionWorkflow(w, to)
    BY <2>1, <1>2 DEF TransitionWorkflow, CanMove
  <2>2. CASE SetIntent(w)
    <3>1. [rows[w] EXCEPT !.intent = TRUE] \in Row
      BY <1>a DEF Row
    <3> QED BY <2>2, <3>1, <1>a, <1>3 DEF SetIntent, Row
  <2>3. CASE PauseWorkflow(w)
    BY <2>3, <1>2 DEF PauseWorkflow
  <2>4. CASE ResumeWorkflow(w)
    <3>1. Resumed(rows[w]) \in Row
      BY <1>a DEF Row, Resumed
    <3> QED BY <2>4, <3>1, <1>a, <1>3 DEF ResumeWorkflow, Resumed, Row
  <2>5. CASE CancelWorkflow(w)
    BY <2>5, <1>2 DEF CancelWorkflow
  <2>6. CASE RetryWorkflow(w)
    BY <2>6, <1>2, <1>b DEF RetryWorkflow
  <2>7. CASE \E c \in Clarifications : RequestClarification(w, c)
    BY <2>7, <1>1 DEF RequestClarification
  <2> QED BY <1>4, <2>1, <2>2, <2>3, <2>4, <2>5, <2>6, <2>7 DEF WorkflowStep
<1>5. ASSUME NEW c \in Clarifications, RespondToClarification(c)
      PROVE  Undisturbed(v)
  <2> DEFINE w == clarifications[c].workflow
  <2>1. rows[w] \in Row /\ w \in Workflows
    BY <1>a DEF Clarification
  <2>2. CASE rows[w].state = "NEEDS_CLARIFICATION"
    <3>1. w # v /\ UNCHANGED created
      BY <2>2, <1>b, <1>5 DEF RespondToClarification, WriteMove
    <3> QED BY <3>1, <2>2, <1>5, <1>a, <1>1 DEF RespondToClarification, WriteMove
  <2>3. CASE rows[w].state # "NEEDS_CLARIFICATION"
    <3>1. /\ Resumed(rows[w]).state = rows[w].state
          /\ Resumed(rows[w]).previous = rows[w].previous
          /\ Resumed(rows[w]).retries = rows[w].retries
          /\ Resumed(rows[w]).paused = FALSE
      BY <2>1 DEF Resumed, Row
    <3>2. WriteRow(w, Resumed(rows[w]))
      BY <2>3, <1>5 DEF RespondToClarification
    <3> HIDE DEF w
    <3> QED BY <3>1, <3>2, <2>1, <1>a DEF WriteRow, Undisturbed
  <2> QED BY <2>2, <2>3
<1>6. CASE \E w \in Workflows : CreateWorkflow(w)
  BY <1>6, <1>1 DEF CreateWorkflow
<1>7. CASE \E c \in Clarifications : ClarificationOverdue(c)
  BY <1>7, <1>1 DEF ClarificationOverdue
<1>8. CASE UNCHANGED serviceVars
  BY <1>8, <1>1 DEF serviceVars
<1> QED BY <1>4, <1>5, <1>6, <1>7, <1>8 DEF ServiceNext, ClarificationStep

\* A terminal state is final for every call sequence: state, ledger and
\* retry count of a terminal workflow never change.
THEOREM TerminalStaysFinal == ServiceSpec => TerminalIsFinal
<1>1. Inv /\ [ServiceNext]_serviceVars =>
        [\A w \in Workflows : IsTerminal(rows[w].state) => Undisturbed(w)]_serviceVars
  BY TerminalStep
<1> QED BY <1>1, InvAlways, PTL DEF ServiceSpec, TerminalIsFinal

-----------------------------------------------------------------------------
(***************************************************************************)
(* The retry budget.                                                       *)
(***************************************************************************)

\* One entry added to the ledger of a row, together with the new count.
LEMMA BudgetMoved ==
  ASSUME NEW ledger \in Seq(Transition), NEW row \in Row, WithinBudget(ledger, row),
         NEW e \in Transition, NEW moved \in Row,
         moved.retries =
           IF e.to = "RETRY_SCHEDULED" THEN row.retries + 1 ELSE row.retries,
         e.to = "RETRY_SCHEDULED" => row.retries < MaxRetries
  PROVE  WithinBudget(ledger \o <<e>>, moved)
<1>1. row.retries \in Nat /\ MaxRetries \in Nat
  BY MaxRetriesAssumption DEF Row
<1>2. Cardinality(RetryEntries(ledger \o <<e>>)) = moved.retries
  BY RetryEntriesAppend DEF WithinBudget
<1>3. moved.retries <= MaxRetries
  BY <1>1 DEF WithinBudget
<1> QED BY <1>2, <1>3 DEF WithinBudget

(* Before the first call nothing has been retried. *)
LEMMA BudgetInit == ServiceInit => RetryBudget
<1>1. Cardinality(RetryEntries(<< >>)) = 0
  BY FS_EmptySet DEF RetryEntries
<1> QED BY <1>1, MaxRetriesAssumption
        DEF ServiceInit, RetryBudget, WithinBudget, NewRow

\* Every step keeps the budget, when nobody asks for RETRY_SCHEDULED.
LEMMA BudgetStep ==
  ASSUME "RETRY_SCHEDULED" \notin CallerTargets,
         Inv, RetryBudget, [ServiceNext]_serviceVars
  PROVE  RetryBudget'
<1>a. /\ created \subseteq Workflows /\ rows \in [Workflows -> Row]
      /\ history \in [Workflows -> Seq(Transition)]
      /\ clarifications \in [Clarifications -> Clarification]
  BY DEF Inv, TypeOK
<1>b. CallerTargets \subseteq WorkflowState
  BY CallerTargetsAssumption
<1>c. \A s, t \in WorkflowState : Edge(s, t) \in Transition /\ Edge(s, t).to = t
  BY DEF Edge, Transition
<1>d. \A v \in Workflows : rows[v].state \in WorkflowState
  BY <1>a DEF Row
<1>1. CASE UNCHANGED <<rows, history>>
  BY <1>1 DEF RetryBudget
<1>2. ASSUME NEW w \in Workflows, NEW row \in Row,
             NEW ledger \in Seq(Transition), WithinBudget(ledger, row),
             rows' = [rows EXCEPT ![w] = row],
             history' = [history EXCEPT ![w] = ledger]
      PROVE  RetryBudget'
  BY <1>2, <1>a DEF RetryBudget
<1>3. ASSUME NEW w \in Workflows, NEW row \in Row, WriteRow(w, row),
             row.retries = rows[w].retries
      PROVE  RetryBudget'
  <2>1. WithinBudget(history[w], row)
    BY <1>3 DEF RetryBudget, WithinBudget
  <2>2. history' = [history EXCEPT ![w] = history[w]]
    BY <1>3, <1>a DEF WriteRow
  <2> QED BY <2>1, <2>2, <1>2, <1>3, <1>a DEF WriteRow
<1>4. ASSUME NEW w \in Workflows, NEW to \in WorkflowState, to # "RETRY_SCHEDULED",
             NEW row \in Row, row.retries = rows[w].retries,
             WriteMove(w, row, <<Edge(rows[w].state, to)>>)
      PROVE  RetryBudget'
  <2> DEFINE e == Edge(rows[w].state, to)
  <2>1. e \in Transition /\ e.to = to
    BY <1>c, <1>d
  <2> HIDE DEF e
  <2>2. WithinBudget(history[w] \o <<e>>, row)
    BY <2>1, <1>4, <1>a, BudgetMoved DEF RetryBudget
  <2>3. history[w] \o <<e>> \in Seq(Transition)
    BY <2>1, <1>a
  <2> QED BY <2>2, <2>3, <1>2, <1>4 DEF WriteMove, e
<1>5. ASSUME NEW w \in created, WorkflowStep(w) PROVE RetryBudget'
  <2>1. w \in Workflows /\ rows[w] \in Row
    BY <1>a
  <2>2. ASSUME NEW to \in CallerTargets, TransitionWorkflow(w, to) PROVE RetryBudget'
    <3>1. MovedTo(rows[w], to) \in Row
          /\ MovedTo(rows[w], to).retries = rows[w].retries
      BY <2>1, <1>b DEF MovedTo, Row
    <3> QED BY <2>1, <2>2, <3>1, <1>b, <1>4 DEF TransitionWorkflow
  <2>3. CASE SetIntent(w)
    <3>1. [rows[w] EXCEPT !.intent = TRUE] \in Row
          /\ [rows[w] EXCEPT !.intent = TRUE].retries = rows[w].retries
      BY <2>1 DEF Row
    <3> QED BY <2>1, <2>3, <3>1, <1>3 DEF SetIntent
  <2>4. CASE PauseWorkflow(w)
    <3>1. Paused(rows[w]) \in Row /\ Paused(rows[w]).retries = rows[w].retries
      BY <2>1 DEF Row, Paused
    <3> QED BY <2>1, <2>4, <3>1, <1>3 DEF PauseWorkflow
  <2>5. CASE ResumeWorkflow(w)
    <3>1. Resumed(rows[w]) \in Row /\ Resumed(rows[w]).retries = rows[w].retries
      BY <2>1 DEF Row, Resumed
    <3> QED BY <2>1, <2>5, <3>1, <1>3 DEF ResumeWorkflow
  <2>6. CASE CancelWorkflow(w)
    <3>1. "CANCELLED" \in WorkflowState
      BY DEF WorkflowState
    <3>2. Cancelled(rows[w]) \in Row /\ Cancelled(rows[w]).retries = rows[w].retries
      BY <2>1, <3>1 DEF Cancelled, Row
    <3> QED BY <2>1, <2>6, <3>1, <3>2, <1>4 DEF CancelWorkflow
  <2>7. CASE RetryWorkflow(w)
    <3> DEFINE scheduled == RetryScheduled(rows[w])
               first     == Edge("FAILED", "RETRY_SCHEDULED")
               second    == Edge("RETRY_SCHEDULED", "RECEIVED")
               once      == history[w] \o <<first>>
               restarted == MovedTo(scheduled, "RECEIVED")
    <3>1. /\ first \in Transition /\ first.to = "RETRY_SCHEDULED"
          /\ second \in Transition /\ second.to = "RECEIVED"
      BY <1>c DEF WorkflowState
    <3>2. /\ scheduled \in Row /\ scheduled.retries = rows[w].retries + 1
          /\ rows[w].retries < MaxRetries
      BY <2>1, <2>7, RetryScheduledIsRow DEF RetryWorkflow
    <3>3. restarted \in Row /\ restarted.retries = scheduled.retries
      <4>1. "RECEIVED" \in WorkflowState
        BY DEF WorkflowState
      <4> HIDE DEF scheduled
      <4> QED BY <3>2, <4>1 DEF MovedTo, Row
    <3> HIDE DEF first, second, restarted, scheduled
    <3>4. once \in Seq(Transition) /\ WithinBudget(once, scheduled)
      BY <2>1, <3>1, <3>2, <1>a, BudgetMoved DEF RetryBudget
    <3>5. once \o <<second>> \in Seq(Transition)
          /\ WithinBudget(once \o <<second>>, restarted)
      <4> HIDE DEF once
      <4>1. once \o <<second>> \in Seq(Transition)
        BY <3>1, <3>4
      <4>2. WithinBudget(once \o <<second>>, restarted)
        BY <3>1, <3>2, <3>3, <3>4, BudgetMoved
      <4> QED BY <4>1, <4>2
    <3>6. once \o <<second>> = history[w] \o <<first, second>>
      <4>1. history[w] \in Seq(Transition)
        BY <1>a, <2>1
      <4> QED BY <3>1, <4>1, TwoEntries
    <3>7. CASE CanMove(scheduled, "RECEIVED")
      <4>1. WriteMove(w, restarted, <<first, second>>)
        BY <2>7, <3>7 DEF RetryWorkflow, scheduled, restarted, first, second
      <4> QED BY <4>1, <3>3, <3>5, <3>6, <2>1, <1>2 DEF WriteMove
    <3>8. CASE ~ CanMove(scheduled, "RECEIVED")
      <4>1. WriteMove(w, scheduled, <<first>>)
        BY <2>7, <3>8 DEF RetryWorkflow, scheduled, first
      <4> QED BY <4>1, <3>2, <3>4, <2>1, <1>2 DEF WriteMove
    <3> QED BY <3>7, <3>8
  <2>8. CASE \E c \in Clarifications : RequestClarification(w, c)
    BY <2>8, <1>1 DEF RequestClarification
  <2> QED BY <1>5, <2>2, <2>3, <2>4, <2>5, <2>6, <2>7, <2>8 DEF WorkflowStep
<1>6. ASSUME NEW c \in Clarifications, RespondToClarification(c) PROVE RetryBudget'
  <2> DEFINE w     == clarifications[c].workflow
             awake == Resumed(rows[w])
             row   == MovedTo(awake, "CLASSIFYING")
  <2>1. w \in Workflows /\ rows[w] \in Row /\ "CLASSIFYING" \in WorkflowState
    BY <1>a DEF Clarification, WorkflowState
  <2>2. awake \in Row /\ awake.retries = rows[w].retries
    BY <2>1 DEF Resumed, Row
  <2>3. row \in Row /\ row.retries = awake.retries
    <3> HIDE DEF awake
    <3> QED BY <2>1, <2>2 DEF MovedTo, Row
  <2>4. WriteMove(w, row, <<Edge(rows[w].state, "CLASSIFYING")>>) \/ WriteRow(w, awake)
    BY <1>6 DEF RespondToClarification
  <2> HIDE DEF w, awake, row
  <2> QED BY <2>1, <2>2, <2>3, <2>4, <1>3, <1>4
<1>7. CASE \E w \in Workflows : CreateWorkflow(w)
  BY <1>7, <1>1 DEF CreateWorkflow
<1>8. CASE \E c \in Clarifications : ClarificationOverdue(c)
  BY <1>8, <1>1 DEF ClarificationOverdue
<1>9. CASE UNCHANGED serviceVars
  BY <1>9, <1>1 DEF serviceVars
<1> QED BY <1>5, <1>6, <1>7, <1>8, <1>9 DEF ServiceNext, ClarificationStep

\* No workflow is retried more than max_retries times, and retry_count is
\* what the ledger shows, as long as retry_workflow is the only way into
\* RETRY_SCHEDULED.
THEOREM RetriesAreBounded ==
  ASSUME "RETRY_SCHEDULED" \notin CallerTargets
  PROVE  ServiceSpec => []RetryBudget
<1>1. Inv /\ RetryBudget /\ [ServiceNext]_serviceVars => RetryBudget'
  BY BudgetStep
<1> QED BY <1>1, BudgetInit, InvAlways, PTL DEF ServiceSpec

-----------------------------------------------------------------------------
(***************************************************************************)
(* The service implements the abstract life cycle.                         *)
(***************************************************************************)

\* Adding entries extends a ledger.
LEMMA ConcatExtends ==
  ASSUME NEW ledger \in Seq(Transition), NEW added \in Seq(Transition)
  PROVE  Extends(ledger \o added, ledger)
BY DEF Extends

\* A call either leaves the state and the ledger of a workflow alone, or
\* moves a workflow that is not terminal, and extends its ledger; it leaves
\* the workflow paused only when it cancels it or schedules its retry.
LEMMA CallMoves ==
  ASSUME Inv, [ServiceNext]_serviceVars, NEW v \in Workflows
  PROVE  \/ history'[v] = history[v] /\ rows'[v].state = rows[v].state
         \/ /\ ~ IsTerminal(rows[v].state)
            /\ Extends(history'[v], history[v])
            /\ rows[v].paused /\ rows'[v].paused =>
                 rows'[v].state \in Lifecycle!MovesWhileHeld
<1> DEFINE Goal ==
      \/ history'[v] = history[v] /\ rows'[v].state = rows[v].state
      \/ /\ ~ IsTerminal(rows[v].state)
         /\ Extends(history'[v], history[v])
         /\ rows[v].paused /\ rows'[v].paused =>
              rows'[v].state \in Lifecycle!MovesWhileHeld
<1> SUFFICES Goal
  OBVIOUS
<1>a. /\ created \subseteq Workflows /\ rows \in [Workflows -> Row]
      /\ history \in [Workflows -> Seq(Transition)]
      /\ clarifications \in [Clarifications -> Clarification]
  BY DEF Inv, TypeOK
<1>b. ~ IsTerminal("FAILED") /\ ~ IsTerminal("NEEDS_CLARIFICATION")
  BY DEF IsTerminal, TERMINAL_STATES
<1>c. /\ \A s, t \in WorkflowState : Edge(s, t) \in Transition
      /\ CallerTargets \subseteq WorkflowState
      /\ {"FAILED", "RETRY_SCHEDULED", "RECEIVED", "CANCELLED",
          "NEEDS_CLARIFICATION", "CLASSIFYING"} \subseteq WorkflowState
  BY CallerTargetsAssumption DEF Edge, Transition, WorkflowState
<1>1. CASE UNCHANGED <<rows[v], history[v]>>
  BY <1>1
<1>2. ASSUME NEW w \in Workflows, NEW row \in Row, WriteRow(w, row),
             row.state = rows[w].state
      PROVE  Goal
  BY <1>2, <1>a DEF WriteRow
<1>3. ASSUME NEW w \in Workflows, NEW row \in Row,
             NEW added \in Seq(Transition), WriteMove(w, row, added),
             ~ IsTerminal(rows[w].state),
             rows[w].paused /\ row.paused => row.state \in {"CANCELLED", "RETRY_SCHEDULED"}
      PROVE  Goal
  <2>1. CASE w = v
    <3>1. rows'[v] = row /\ history'[v] = history[v] \o added
      BY <1>3, <1>a, <2>1 DEF WriteMove
    <3>2. Extends(history'[v], history[v])
      BY <3>1, <1>a, <1>3, ConcatExtends
    <3> QED BY <3>1, <3>2, <1>3, <2>1 DEF Lifecycle!MovesWhileHeld
  <2>2. CASE w # v
    BY <2>2, <1>3, <1>a, <1>1 DEF WriteMove
  <2> QED BY <2>1, <2>2
<1>4. ASSUME NEW w \in created, WorkflowStep(w) PROVE Goal
  <2>1. w \in Workflows /\ rows[w] \in Row /\ rows[w].state \in WorkflowState
    BY <1>a DEF Row
  <2>2. ASSUME NEW to \in CallerTargets, TransitionWorkflow(w, to) PROVE Goal
    <3>1. /\ MovedTo(rows[w], to) \in Row
          /\ ~ MovedTo(rows[w], to).paused
          /\ ~ IsTerminal(rows[w].state)
      BY <2>1, <2>2, <1>c DEF TransitionWorkflow, CanMove, MovedTo, Row
    <3>2. <<Edge(rows[w].state, to)>> \in Seq(Transition)
      BY <1>c, <2>1
    <3> QED BY <2>1, <2>2, <3>1, <3>2, <1>3 DEF TransitionWorkflow
  <2>3. CASE SetIntent(w)
    <3>1. [rows[w] EXCEPT !.intent = TRUE] \in Row
          /\ [rows[w] EXCEPT !.intent = TRUE].state = rows[w].state
      BY <2>1 DEF Row
    <3> QED BY <2>1, <2>3, <3>1, <1>2 DEF SetIntent
  <2>4. CASE PauseWorkflow(w)
    <3>1. Paused(rows[w]) \in Row /\ Paused(rows[w]).state = rows[w].state
      BY <2>1 DEF Row, Paused
    <3> QED BY <2>1, <2>4, <3>1, <1>2 DEF PauseWorkflow
  <2>5. CASE ResumeWorkflow(w)
    <3>1. Resumed(rows[w]) \in Row /\ Resumed(rows[w]).state = rows[w].state
      BY <2>1 DEF Row, Resumed
    <3> QED BY <2>1, <2>5, <3>1, <1>2 DEF ResumeWorkflow
  <2>6. CASE CancelWorkflow(w)
    <3>1. Cancelled(rows[w]) \in Row /\ Cancelled(rows[w]).state = "CANCELLED"
      BY <2>1, <1>c DEF Cancelled, Row
    <3>2. <<Edge(rows[w].state, "CANCELLED")>> \in Seq(Transition)
      BY <1>c, <2>1
    <3> QED BY <2>1, <2>6, <3>1, <3>2, <1>3 DEF CancelWorkflow
  <2>7. CASE RetryWorkflow(w)
    <3> DEFINE scheduled == RetryScheduled(rows[w])
               first     == Edge("FAILED", "RETRY_SCHEDULED")
               second    == Edge("RETRY_SCHEDULED", "RECEIVED")
               restarted == MovedTo(scheduled, "RECEIVED")
    <3>1. scheduled \in Row /\ scheduled.state = "RETRY_SCHEDULED"
          /\ ~ IsTerminal(rows[w].state)
      BY <2>1, <2>7, <1>b, RetryScheduledIsRow DEF RetryWorkflow
    <3>2. <<first>> \in Seq(Transition) /\ <<first, second>> \in Seq(Transition)
      <4>1. first \in Transition /\ second \in Transition
        BY <1>c
      <4> HIDE DEF first, second
      <4> QED BY <4>1
    <3>3. CASE CanMove(scheduled, "RECEIVED")
      <4>1. ~ scheduled.paused
        BY <3>3 DEF CanMove
      <4>2. WriteMove(w, restarted, <<first, second>>)
        BY <2>7, <3>3 DEF RetryWorkflow
      <4> HIDE DEF scheduled
      <4>3. restarted \in Row /\ ~ restarted.paused
        BY <3>1, <4>1, <1>c DEF MovedTo, Row
      <4> HIDE DEF restarted, first, second
      <4> QED BY <4>2, <4>3, <3>1, <3>2, <2>1, <1>3
    <3>4. CASE ~ CanMove(scheduled, "RECEIVED")
      <4>1. WriteMove(w, scheduled, <<first>>)
        BY <2>7, <3>4 DEF RetryWorkflow
      <4> HIDE DEF scheduled, first
      <4> QED BY <4>1, <3>1, <3>2, <2>1, <1>3
    <3> QED BY <3>3, <3>4
  <2>8. CASE \E c \in Clarifications : RequestClarification(w, c)
    BY <2>8, <1>1 DEF RequestClarification
  <2> QED BY <1>4, <2>2, <2>3, <2>4, <2>5, <2>6, <2>7, <2>8 DEF WorkflowStep
<1>5. ASSUME NEW c \in Clarifications, RespondToClarification(c) PROVE Goal
  <2> DEFINE w     == clarifications[c].workflow
             awake == Resumed(rows[w])
             row   == MovedTo(awake, "CLASSIFYING")
             entry == <<Edge("NEEDS_CLARIFICATION", "CLASSIFYING")>>
  <2>1. w \in Workflows /\ rows[w] \in Row
    BY <1>a DEF Clarification
  <2>2. awake \in Row /\ awake.state = rows[w].state /\ ~ awake.paused
    BY <2>1 DEF Resumed, Row
  <2>3. row \in Row /\ ~ row.paused
    <3> HIDE DEF awake
    <3> QED BY <2>2, <1>c DEF MovedTo, Row
  <2>4. entry \in Seq(Transition)
    BY <1>c
  <2>5. \/ rows[w].state = "NEEDS_CLARIFICATION" /\ WriteMove(w, row, entry)
        \/ WriteRow(w, awake)
    BY <1>5 DEF RespondToClarification
  <2> HIDE DEF w, awake, row, entry, Goal
  <2>6. CASE rows[w].state = "NEEDS_CLARIFICATION" /\ WriteMove(w, row, entry)
    BY <2>6, <2>1, <2>3, <2>4, <1>b, <1>3
  <2>7. CASE WriteRow(w, awake)
    BY <2>7, <2>1, <2>2, <1>2
  <2> QED BY <2>5, <2>6, <2>7
<1>6. CASE \E w \in Workflows : CreateWorkflow(w)
  BY <1>6, <1>1 DEF CreateWorkflow
<1>7. CASE \E c \in Clarifications : ClarificationOverdue(c)
  BY <1>7, <1>1 DEF ClarificationOverdue
<1>8. CASE UNCHANGED serviceVars
  BY <1>8, <1>1 DEF serviceVars
<1> HIDE DEF Goal
<1> QED BY <1>4, <1>5, <1>6, <1>7, <1>8 DEF ServiceNext, ClarificationStep

(* With no row there is no life cycle under way: the abstract start. *)
LEMMA LifecycleStart == ServiceInit => Lifecycle!LifecycleInit
BY DEF ServiceInit, Lifecycle!LifecycleInit, NewRow

(* Every call is a step of the life cycle or leaves it as it is: one of the
   goals above for each action. *)
LEMMA LifecycleStep ==
  ASSUME Inv, Inv', [ServiceNext]_serviceVars
  PROVE  Lifecycle!LifecycleNext
<1>1. ASSUME NEW v \in Workflows PROVE Lifecycle!Hold(v) \/ Lifecycle!Advance(v)
  <2>1. LeadsTo(history'[v], rows'[v].state)
    BY DEF Inv, HistoryMatchesRow, Tells
  <2>2. CASE history'[v] = history[v] /\ rows'[v].state = rows[v].state
    BY <2>2 DEF Lifecycle!Hold
  <2>3. CASE /\ ~ IsTerminal(rows[v].state)
             /\ Extends(history'[v], history[v])
             /\ rows[v].paused /\ rows'[v].paused =>
                  rows'[v].state \in Lifecycle!MovesWhileHeld
    BY <2>1, <2>3 DEF Lifecycle!Advance, Lifecycle!IsTerminal, IsTerminal,
       Lifecycle!TERMINAL_STATES, TERMINAL_STATES, Lifecycle!Extends, Extends,
       Lifecycle!LeadsTo, LeadsTo, Lifecycle!ValidTransition, ValidTransition,
       Lifecycle!VALID_TRANSITIONS, VALID_TRANSITIONS
  <2> QED BY <2>2, <2>3, CallMoves
<1>2. DOMAIN history' = Workflows
  BY DEF Inv, TypeOK
<1> QED BY <1>1, <1>2 DEF Lifecycle!LifecycleNext

\* The workflow service, with every operation and any callers, is an
\* implementation of WorkflowLifecycle: workflows move along the table, the
\* ledger only grows, a held workflow moves only when the call releases,
\* cancels or reschedules it, and a terminal workflow never moves.
THEOREM ServiceImplementsLifecycle == ServiceSpec => ImplementsLifecycle
<1>1. Inv /\ Inv' /\ [ServiceNext]_serviceVars
        => [Lifecycle!LifecycleNext]_(Lifecycle!lifecycleVars)
  BY LifecycleStep
<1> QED BY <1>1, LifecycleStart, InvAlways, PTL
        DEF ServiceSpec, ImplementsLifecycle, Lifecycle!LifecycleSpec

=============================================================================
