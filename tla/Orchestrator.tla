---------------------------- MODULE Orchestrator ----------------------------
(***************************************************************************)
(* AgentOrchestrationService.run and HRIntegrationService: a workflow from *)
(* RECEIVED through the five agents to the compliance decision, and, at    *)
(* once or after an approval, to the change in the HR system.              *)
(*                                                                         *)
(* A run is broken where it waits for the language model and between the   *)
(* commits of the change: there the calls of other users, or the end of    *)
(* the process, come in between.  A transition is one step here, row and   *)
(* ledger together; WorkflowSessions looks inside it, and at two runs of   *)
(* the same workflow.  WorkflowService and ApprovalService have the whole  *)
(* of the calls that are only environment here.                            *)
(***************************************************************************)
EXTENDS WorkflowStateMachine, Agents, Integers, FiniteSets, Sequences

CONSTANTS
  Workflows,
  Requests,      \* the requests a workflow may be created with
  Intents,       \* the intents the model and the requester may name
  MaxTries,      \* llm_max_retries
  MaxRetries,    \* Workflow.max_retries
  CallerTargets  \* the states a requester asks for through /transition

ASSUME RequestsAssumption == Requests \subseteq Request
ASSUME MaxTriesAssumption == MaxTries \in Nat
ASSUME MaxRetriesAssumption == MaxRetries \in Nat
ASSUME CallerTargetsAssumption == CallerTargets \subseteq WorkflowState \ {"APPROVED"}

VARIABLES
  request,     \* request[w]: summary, request_data and employee_id
  state,       \* current_state
  paused,      \* paused_at is set
  retries,     \* retry_count
  intent,      \* the intent column
  supervised,  \* a supervisor execution is stored
  finding,     \* output of the last stored anomaly_investigation execution
  proposal,    \* output of the last stored action execution
  decisions,   \* ComplianceDecisionRecord rows, oldest first
  approvals,   \* ApprovalRequest rows
  keys,        \* IdempotencyRecord rows
  data,        \* the employee's records in the HR systems
  aged,        \* the systems whose data is older than the freshness limit
  run,         \* run[w]: the call of run() that works on w
  applied,     \* history: which changes were applied, on which decision
  writes,      \* history: how often an adapter wrote
  crashes      \* history: how often the process ended

rowVars  == <<state, paused, retries, intent>>
factVars == <<request, supervised, finding, proposal, decisions>>
hrVars   == <<keys, data, aged, applied, writes>>
vars     == <<rowVars, factVars, approvals, hrVars, run, crashes>>

\* The stages of a run.  In the first five an agent waits for the model.
AgentStage == {"classify", "investigate", "policy", "propose", "review"}
Stage == AgentStage \cup {"idle", "context", "execute", "record", "finish"}

\* `system` is source_system in the context of the run, which fetch_context
\* fills in; `seen` is what it showed, `old` whether that was past the limit.
Idle == [stage |-> "idle", tries |-> 0, system |-> Nil, seen |-> Nil, old |-> FALSE]
At(w, stage) == run[w].stage = stage

\* `of` is the compliance decision that asked for the approval, by its place
\* among the decisions of the workflow.
Decided == [decision : ComplianceDecision, proposal : Proposal]
ApprovalStatus == {"PENDING", "APPROVED", "REJECTED", "EXPIRED", "CANCELLED"}
Approval == [of : Nat, status : ApprovalStatus, proposal : Proposal]
Change == [workflow : Workflows, of : Nat, proposal : Proposal]

NoFinding  == [observed |-> Nil, found |-> FALSE]
NoProposal == [type |-> "none", before |-> Nil, after |-> Nil]

Init ==
  /\ request \in [Workflows -> Requests]
  /\ state = [w \in Workflows |-> "RECEIVED"]
  /\ paused = [w \in Workflows |-> FALSE]
  /\ retries = [w \in Workflows |-> 0]
  /\ intent = [w \in Workflows |-> Nil]
  /\ supervised = [w \in Workflows |-> FALSE]
  /\ finding = [w \in Workflows |-> NoFinding]
  /\ proposal = [w \in Workflows |-> NoProposal]
  /\ decisions = [w \in Workflows |-> << >>]
  /\ approvals = [w \in Workflows |-> {}]
  /\ keys = {}
  /\ data = [s \in Systems |->
               [r \in Records |-> IF s \notin InMemory THEN Default
                                  ELSE IF r = "latest" THEN Unread ELSE Nil]]
  /\ aged = {}
  /\ run = [w \in Workflows |-> Idle]
  /\ applied = {}
  /\ writes = 0
  /\ crashes = 0

-----------------------------------------------------------------------------
(***************************************************************************)
(* Moving the workflow and the run.                                        *)
(***************************************************************************)

\* transition_workflow, as WorkflowService has it.
CanMove(w, to) ==
  ~ IsTerminal(state[w]) /\ ~ paused[w] /\ ValidTransition(state[w], to)

Enter(w, stage) ==
  run' = [run EXCEPT ![w].stage = stage, ![w].tries = 0]

EndRun(w) == run' = [run EXCEPT ![w] = Idle]

\* _mark_failed: a transition, and where that is refused FAILED all the same.
Fail(w) == state' = [state EXCEPT ![w] = "FAILED"] /\ EndRun(w)

\* _transition, and on to the next stage: a refusal fails the workflow.
MoveOn(w, to, stage) ==
  \/ CanMove(w, to) /\ state' = [state EXCEPT ![w] = to] /\ Enter(w, stage)
  \/ ~ CanMove(w, to) /\ Fail(w)

\* The same at the end of the run.
MoveAndEnd(w, to) ==
  \/ CanMove(w, to) /\ state' = [state EXCEPT ![w] = to] /\ EndRun(w)
  \/ ~ CanMove(w, to) /\ Fail(w)

-----------------------------------------------------------------------------
(***************************************************************************)
(* OpenAIResponsesClient.generate: a failure that may pass is tried again, *)
(* MaxTries times; any other, and the last, raises.                        *)
(***************************************************************************)

\* Mutant of AskAgain: at the limit the count starts again.
AskAgainForever(w) ==
  /\ run[w].stage \in AgentStage
  /\ run' = [run EXCEPT ![w].tries = (@ + 1) % (MaxTries + 1)]
  /\ UNCHANGED <<rowVars, factVars, approvals, hrVars>>

\* Mutant of AskAgain: one more try than configured.
AskAgainOnceMore(w) ==
  /\ run[w].stage \in AgentStage /\ run[w].tries <= MaxTries
  /\ run' = [run EXCEPT ![w].tries = @ + 1]
  /\ UNCHANGED <<rowVars, factVars, approvals, hrVars>>

AskAgain(w) ==
  /\ run[w].stage \in AgentStage /\ run[w].tries < MaxTries
  /\ run' = [run EXCEPT ![w].tries = @ + 1]
  /\ UNCHANGED <<rowVars, factVars, approvals, hrVars>>

\* Nothing is stored of an agent that raised.
AgentFails(w) ==
  /\ run[w].stage \in AgentStage
  /\ Fail(w)
  /\ UNCHANGED <<paused, retries, intent, factVars, approvals, hrVars>>

-----------------------------------------------------------------------------
(***************************************************************************)
(* AgentOrchestrationService.run.                                          *)
(***************************************************************************)
Start(w, from, to, stage, system) ==
  /\ state[w] = from
  /\ state' = [state EXCEPT ![w] = to]
  /\ run' = [run EXCEPT ![w].stage = stage, ![w].system = system]

\* The system of the domain: what the request names, or the intent implies.
Named(w) == request[w].system
Implied(w, i) == SystemFor(i, Named(w))

\* Mutant of StartRun: it does not wait for the approval to be given.
StartRunUnapproved(w) ==
  /\ At(w, "idle") /\ ~ paused[w]
  /\ \/ Start(w, "RECEIVED", "CLASSIFYING", "classify", Named(w))
     \/ Start(w, "WAITING_FOR_APPROVAL", "EXECUTING", "execute", Named(w))
  /\ UNCHANGED <<paused, retries, intent, factVars, approvals, hrVars>>

\* Mutant of StartRun: an interrupted execution is taken up again.
StartRunWhereItStopped(w) ==
  /\ At(w, "idle") /\ ~ paused[w]
  /\ \/ Start(w, "RECEIVED", "CLASSIFYING", "classify", Named(w))
     \/ Start(w, "EXECUTING", "EXECUTING", "execute", Named(w))
  /\ UNCHANGED <<paused, retries, intent, factVars, approvals, hrVars>>

\* A run of a new workflow; one that resumes after a clarification, without
\* the supervisor; one that completes an approved workflow.
StartRun(w) ==
  /\ At(w, "idle") /\ ~ paused[w]
  /\ \/ Start(w, "RECEIVED", "CLASSIFYING", "classify", Named(w))
     \/ /\ supervised[w] /\ intent[w] # Nil
        /\ Start(w, "CLASSIFYING", "CLASSIFYING", "context", Implied(w, intent[w]))
     \/ Start(w, "APPROVED", "EXECUTING", "execute", Named(w))
  /\ UNCHANGED <<paused, retries, intent, factVars, approvals, hrVars>>

\* The supervisor's answer: go on, or ask and pause.
Classify(w) ==
  /\ At(w, "classify")
  /\ \E answer \in SupervisorAnswers(Intents) :
       /\ supervised' = [supervised EXCEPT ![w] = TRUE]
       /\ intent' = [intent EXCEPT ![w] = answer.intent]
       /\ \/ /\ ~ answer.ask
             /\ run' = [run EXCEPT ![w].stage = "context", ![w].tries = 0,
                                   ![w].system = Implied(w, answer.intent)]
             /\ UNCHANGED <<state, paused>>
          \/ /\ answer.ask /\ MoveAndEnd(w, "NEEDS_CLARIFICATION")
             /\ paused' = [paused EXCEPT ![w] = @ \/ CanMove(w, "NEEDS_CLARIFICATION")]
  /\ UNCHANGED <<retries, request, finding, proposal, decisions, approvals, hrVars>>

\* An approved run has no context: it goes by the intent as it is by then.
Domain(w) == SystemFor(intent[w], run[w].system)

\* Incidents, CONTEXT_RETRIEVAL, fetch_context, DATA_FRESHNESS_CHECK, the
\* gate, INVESTIGATING.  HRIS is read beside the domain system.
FetchContext(w) ==
  /\ At(w, "context")
  /\ \/ /\ CanMove(w, "CONTEXT_RETRIEVAL") /\ request[w].employee
        /\ Domain(w) \in Systems
        /\ \A s \in {"HRIS", Domain(w)} : EnsureFresh(TRUE, s \in aged)
        /\ data' = AfterRead(data, Domain(w))
        /\ state' = [state EXCEPT ![w] = "INVESTIGATING"]
        /\ run' = [run EXCEPT ![w] =
             [@ EXCEPT !.stage = "investigate", !.seen = Shown(data, Domain(w)),
                       !.old = aged \cap {"HRIS", Domain(w)} # {}]]
     \/ /\ CanMove(w, "CONTEXT_RETRIEVAL") /\ ~ request[w].employee
        /\ state' = [state EXCEPT ![w] = "INVESTIGATING"]
        /\ Enter(w, "investigate")
        /\ UNCHANGED data
     \/ /\ \/ ~ CanMove(w, "CONTEXT_RETRIEVAL")
           \/ request[w].employee /\ Domain(w) \notin Systems
        /\ Fail(w)
        /\ UNCHANGED data
  /\ UNCHANGED <<paused, retries, intent, factVars, approvals, keys, aged, applied, writes>>

Investigate(w) ==
  /\ At(w, "investigate")
  /\ finding' = [finding EXCEPT ![w] = Investigation(request[w], run[w].seen)]
  /\ MoveOn(w, "POLICY_RETRIEVAL", "policy")
  /\ UNCHANGED <<paused, retries, intent, request, supervised, proposal, decisions,
                 approvals, hrVars>>

GroundInPolicy(w) ==
  /\ At(w, "policy")
  /\ MoveOn(w, "ACTION_PROPOSED", "propose")
  /\ UNCHANGED <<paused, retries, intent, factVars, approvals, hrVars>>

Propose(w) ==
  /\ At(w, "propose")
  /\ proposal' = [proposal EXCEPT ![w] = ProposalFor(request[w], finding[w])]
  /\ MoveOn(w, "COMPLIANCE_REVIEW", "review")
  /\ UNCHANGED <<paused, retries, intent, request, supervised, finding, decisions,
                 approvals, hrVars>>

Pending(w) == {a \in approvals[w] : a.status = "PENDING"}

\* ApprovalService.create_request on the decision that Review stores: the
\* request, and the pause.
AskApproval(w) ==
  \/ /\ Pending(w) = {} /\ CanMove(w, "WAITING_FOR_APPROVAL")
     /\ state' = [state EXCEPT ![w] = "WAITING_FOR_APPROVAL"]
     /\ paused' = [paused EXCEPT ![w] = TRUE]
     /\ approvals' = [approvals EXCEPT ![w] = @ \cup
          {[of |-> Len(decisions[w]) + 1, status |-> "PENDING", proposal |-> proposal[w]]}]
     /\ EndRun(w)
  \/ /\ Pending(w) # {} \/ ~ CanMove(w, "WAITING_FOR_APPROVAL")
     /\ Fail(w)
     /\ UNCHANGED <<paused, approvals>>

\* What _apply_decision does with a decision.
Obey(w, decision) ==
  \/ decision = "REQUIRE_APPROVAL" /\ AskApproval(w)
  \/ /\ \/ decision = "DENY" /\ MoveAndEnd(w, "DENIED")
        \/ decision = "ESCALATE" /\ MoveAndEnd(w, "ESCALATED")
        \/ decision = "ALLOW" /\ MoveOn(w, "EXECUTING", "execute")
     /\ UNCHANGED <<paused, approvals>>

\* The compliance agent, and _apply_decision.  An override that is no
\* decision makes the agent fail.
Review(w) ==
  LET verdict == Verdict(request[w], proposal[w])
  IN  /\ At(w, "review")
      /\ \/ /\ verdict \in ComplianceDecision
            /\ decisions' = [decisions EXCEPT ![w] =
                 Append(@, [decision |-> verdict, proposal |-> proposal[w]])]
            /\ Obey(w, verdict)
         \/ /\ verdict \notin ComplianceDecision
            /\ Fail(w)
            /\ UNCHANGED <<paused, approvals, decisions>>
      /\ UNCHANGED <<retries, intent, request, supervised, finding, proposal, hrVars>>

-----------------------------------------------------------------------------
(***************************************************************************)
(* _execute_adapter_action and HRIntegrationService.execute_action.        *)
(***************************************************************************)
Key(w) == [workflow |-> w, proposal |-> proposal[w]]
ThisChange(w) ==
  [workflow |-> w, of |-> Len(decisions[w]), proposal |-> proposal[w]]

NothingToApply(w) == ~ request[w].employee \/ proposal[w].type = "NO_ACTION"

Accepted(w) == DryRunAccepts(data, Domain(w), request[w].record, request[w].field)

\* No employee, no action, or the saved response of the same key.
SkipAdapter(w) ==
  /\ At(w, "execute")
  /\ NothingToApply(w) \/ Key(w) \in keys
  /\ Enter(w, "finish")
  /\ UNCHANGED <<rowVars, factVars, approvals, hrVars>>

\* Mutant of RefuseInDryRun: the refusal is not reported.
RefuseInDryRunSilently(w) ==
  /\ At(w, "execute") /\ ~ NothingToApply(w) /\ Key(w) \notin keys
  /\ ~ Accepted(w)
  /\ data' = AfterDryRun(data, Domain(w), request[w].field)
  /\ Enter(w, "finish")
  /\ UNCHANGED <<rowVars, factVars, approvals, keys, aged, applied, writes>>

RefuseInDryRun(w) ==
  /\ At(w, "execute") /\ ~ NothingToApply(w) /\ Key(w) \notin keys
  /\ ~ Accepted(w)
  /\ data' = AfterDryRun(data, Domain(w), request[w].field)
  /\ Fail(w)
  /\ UNCHANGED <<paused, retries, intent, factVars, approvals, keys, aged, applied, writes>>

\* Mutant of WriteRecord: the idempotency record is not looked up.
WriteRecordAgain(w) ==
  /\ At(w, "execute") /\ ~ NothingToApply(w)
  /\ Accepted(w)
  /\ data' = AfterWrite(data, Domain(w), request[w].record, request[w].field,
                        proposal[w].after)
  /\ aged' = aged \ {Domain(w)}
  /\ applied' = applied \cup {ThisChange(w)}
  /\ writes' = writes + 1
  /\ Enter(w, "record")
  /\ UNCHANGED <<rowVars, factVars, approvals, keys>>

\* The write commits the change; HRIS dates itself, the tables' updated_at
\* follows.
WriteRecord(w) ==
  /\ At(w, "execute") /\ ~ NothingToApply(w) /\ Key(w) \notin keys
  /\ Accepted(w)
  /\ data' = AfterWrite(data, Domain(w), request[w].record, request[w].field,
                        proposal[w].after)
  /\ aged' = IF Domain(w) = "HRIS" \/ request[w].field # Nil
             THEN aged \ {Domain(w)} ELSE aged
  /\ applied' = applied \cup {ThisChange(w)}
  /\ writes' = writes + 1
  /\ Enter(w, "record")
  /\ UNCHANGED <<rowVars, factVars, approvals, keys>>

\* Mutant of RecordKey: nothing is recorded.
RecordNoKey(w) ==
  /\ At(w, "record")
  /\ Enter(w, "finish")
  /\ UNCHANGED <<rowVars, factVars, approvals, hrVars>>

\* record_idempotency commits the key.
RecordKey(w) ==
  /\ At(w, "record")
  /\ keys' = keys \cup {Key(w)}
  /\ Enter(w, "finish")
  /\ UNCHANGED <<rowVars, factVars, approvals, data, aged, applied, writes>>

\* VERIFYING, COMPLETED.
Finish(w) ==
  /\ At(w, "finish")
  /\ \/ /\ CanMove(w, "VERIFYING")
        /\ state' = [state EXCEPT ![w] = "COMPLETED"]
        /\ EndRun(w)
     \/ ~ CanMove(w, "VERIFYING") /\ Fail(w)
  /\ UNCHANGED <<paused, retries, intent, factVars, approvals, hrVars>>

RunStep(w) ==
  \/ AskAgain(w) \/ AgentFails(w)
  \/ Classify(w) \/ FetchContext(w) \/ Investigate(w) \/ GroundInPolicy(w)
  \/ Propose(w) \/ Review(w)
  \/ SkipAdapter(w) \/ RefuseInDryRun(w) \/ WriteRecord(w) \/ RecordKey(w)
  \/ Finish(w)

-----------------------------------------------------------------------------
(***************************************************************************)
(* The users, the approvers and the clock, as far as a run meets them.     *)
(***************************************************************************)
SetState(w, to) == state' = [state EXCEPT ![w] = to]
SetPause(w, p)  == paused' = [paused EXCEPT ![w] = p]

Pause(w) ==
  /\ ~ IsTerminal(state[w]) /\ ~ paused[w]
  /\ SetPause(w, TRUE) /\ UNCHANGED <<state, retries, intent, approvals>>

Resume(w) ==
  paused[w] /\ SetPause(w, FALSE) /\ UNCHANGED <<state, retries, intent, approvals>>

Cancel(w) ==
  /\ ~ IsTerminal(state[w]) /\ ValidTransition(state[w], "CANCELLED")
  /\ SetState(w, "CANCELLED") /\ UNCHANGED <<paused, retries, intent, approvals>>

\* The /transition endpoint.
RequestTransition(w) ==
  /\ \E to \in CallerTargets : CanMove(w, to) /\ SetState(w, to)
  /\ UNCHANGED <<paused, retries, intent, approvals>>

\* The /intent endpoint, in any state.
SetIntent(w) ==
  /\ \E i \in Intents \cap IntentCategory : intent' = [intent EXCEPT ![w] = i]
  /\ UNCHANGED <<state, paused, retries, approvals>>

\* A paused workflow stays in RETRY_SCHEDULED.
Retry(w) ==
  /\ state[w] = "FAILED" /\ retries[w] < MaxRetries
  /\ retries' = [retries EXCEPT ![w] = @ + 1]
  /\ SetState(w, IF paused[w] THEN "RETRY_SCHEDULED" ELSE "RECEIVED")
  /\ UNCHANGED <<paused, intent, approvals>>

Clarify(w) ==
  /\ state[w] = "NEEDS_CLARIFICATION"
  /\ SetState(w, "CLASSIFYING") /\ SetPause(w, FALSE)
  /\ UNCHANGED <<retries, intent, approvals>>

\* The last decision on an approval, its expiry or its cancellation.
Resolve(w) ==
  /\ state[w] = "WAITING_FOR_APPROVAL"
  /\ \E a \in Pending(w), outcome \in ApprovalStatus \ {"PENDING"} :
       /\ approvals' = [approvals EXCEPT ![w] = (@ \ {a}) \cup {[a EXCEPT !.status = outcome]}]
       /\ SetState(w, outcome)
  /\ SetPause(w, FALSE)
  /\ UNCHANGED <<retries, intent>>

UserStep(w) ==
  /\ \/ Pause(w) \/ Resume(w) \/ Cancel(w) \/ RequestTransition(w) \/ SetIntent(w)
     \/ Retry(w) \/ Clarify(w) \/ Resolve(w)
  /\ UNCHANGED <<factVars, hrVars, run>>

\* Somebody else changes a record of the employee, which dates it; but HRIS
\* goes by data_sync_timestamp once it has one, and an edit leaves that alone.
Edit(s) ==
  /\ s \notin InMemory
  /\ \E v \in Values : data' = [data EXCEPT ![s]["latest"] = v]
  /\ \/ aged' = aged \ {s}
     \/ s = "HRIS" /\ UNCHANGED aged
  /\ UNCHANGED <<rowVars, factVars, approvals, keys, applied, writes, run>>

\* The providers date their answer when they give it.
Ages(s) ==
  /\ s \notin InMemory
  /\ aged' = aged \cup {s}
  /\ UNCHANGED <<rowVars, factVars, approvals, keys, data, applied, writes, run>>

\* The process ends, and starts again.
Crash ==
  /\ run' = [w \in Workflows |-> Idle]
  /\ data' = AfterRestart(data)
  /\ crashes' = crashes + 1
  /\ UNCHANGED <<rowVars, factVars, approvals, keys, aged, applied, writes>>

Next ==
  \/ /\ \/ \E w \in Workflows : StartRun(w) \/ RunStep(w) \/ UserStep(w)
        \/ \E s \in Systems : Edit(s) \/ Ages(s)
     /\ UNCHANGED crashes
  \/ Crash

\* A run that has begun goes on; nobody has to start one, and nobody has to
\* resume, retry or approve.
Fairness == \A w \in Workflows : WF_vars(RunStep(w) /\ UNCHANGED crashes)

Spec == Init /\ [][Next]_vars /\ Fairness

-----------------------------------------------------------------------------
(***************************************************************************)
(* Properties.                                                             *)
(***************************************************************************)
OrchestratorTypeOK ==
  /\ request \in [Workflows -> Request]
  /\ state \in [Workflows -> WorkflowState]
  /\ paused \in [Workflows -> BOOLEAN]
  /\ retries \in [Workflows -> Nat]
  /\ intent \in [Workflows -> IntentCategory \cup {Nil}]
  /\ supervised \in [Workflows -> BOOLEAN]
  /\ finding \in [Workflows -> Finding]
  /\ proposal \in [Workflows -> Proposal \cup {NoProposal}]
  /\ decisions \in [Workflows -> Seq(Decided)]
  /\ approvals \in [Workflows -> SUBSET Approval]
  /\ keys \subseteq [workflow : Workflows, proposal : Proposal]
  /\ data \in Data
  /\ aged \subseteq Systems
  /\ run \in [Workflows -> [stage : Stage, tries : 0 .. MaxTries,
                            system : Systems \cup {Nil, "unknown"},
                            seen : Values \cup {Nil}, old : BOOLEAN]]
  /\ applied \subseteq Change
  /\ writes \in Nat /\ crashes \in Nat

\* Decision i of workflow w lets the change through: compliance allowed it,
\* or asked for an approval that was given.
Approved(w, i) ==
  \E a \in approvals[w] :
    a.of = i /\ a.status = "APPROVED" /\ a.proposal = decisions[w][i].proposal

Granted(w, i) ==
  \/ decisions[w][i].decision = "ALLOW"
  \/ decisions[w][i].decision = "REQUIRE_APPROVAL" /\ Approved(w, i)

\* Every change that was ever applied was let through first, by a decision
\* about exactly that change, also when the workflow was paused, failed,
\* retried, edited or interrupted on the way.
AppliedWasGranted ==
  \A c \in applied :
    /\ c.of \in 1 .. Len(decisions[c.workflow])
    /\ decisions[c.workflow][c.of].proposal = c.proposal
    /\ Granted(c.workflow, c.of)

\* A change of high risk, for which the request names no decision of its
\* own, reaches an HR system only after an approver saw it and agreed.
HighRiskIsApproved ==
  \A c \in applied :
    LET r == request[c.workflow]
    IN  r.high /\ r.override = Nil => Approved(c.workflow, c.of)

\* A change whose key was recorded is never applied again, whatever happened
\* to the workflow in between; and a key stays on record.
RecordedIsNotRepeated ==
  [][/\ keys \subseteq keys'
     /\ \A c \in applied' \ applied :
          [workflow |-> c.workflow, proposal |-> c.proposal] \notin keys]_vars

\* Without a crash a change is applied once; each crash may cost one
\* repetition, of a change whose key was not yet recorded.
RepetitionsNeedCrash ==
  \A k \in [workflow : Workflows, proposal : {c.proposal : c \in applied}] :
    Cardinality({c \in applied : c.workflow = k.workflow /\ c.proposal = k.proposal})
      <= 1 + crashes

\* A workflow that completed has done what it proposed: it proposed nothing
\* to change, or the change is recorded, and what is recorded was applied.
CompletedMeansApplied ==
  /\ \A w \in Workflows :
       state[w] = "COMPLETED" => NothingToApply(w) \/ Key(w) \in keys
  /\ \A k \in keys : \E c \in applied :
       c.workflow = k.workflow /\ c.proposal = k.proposal

\* A run ends, whatever the language model answers or fails to answer.
RunsEnd == \A w \in Workflows : ~ At(w, "idle") ~> At(w, "idle")

\* What is investigated is younger than the freshness limit.
InvestigatesFreshData ==
  \A w \in Workflows : At(w, "investigate") => ~ run[w].old

\* Each change uses up a grant of its own: the orchestration implements
\* ChangeControl.
GrantsOf(w) ==
  {[workflow |-> w, of |-> i, proposal |-> decisions[w][i].proposal] :
     i \in {i \in DOMAIN decisions[w] : Granted(w, i)}}
Grants == UNION {GrantsOf(w) : w \in Workflows}

Control ==
  INSTANCE ChangeControl WITH granted <- Grants, used <- applied

ImplementsChangeControl == Control!ChangeSpec

=============================================================================
