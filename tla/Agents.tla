------------------------------- MODULE Agents -------------------------------
(***************************************************************************)
(* The rules of the agents in backend/app/agents.  Each agent computes its *)
(* result from the request and from what the agents before it found; the   *)
(* language model words it, and the agent puts the computed keys back in   *)
(* the model's answer.  So the model decides nothing, except the intent of *)
(* the request and whether to ask for clarification, which the supervisor  *)
(* takes from the answer.                                                  *)
(***************************************************************************)
EXTENDS HRAdapters

ActionType == {"CORRECT_RECORD", "NO_ACTION"}
ComplianceDecision == {"ALLOW", "REQUIRE_APPROVAL", "DENY", "ESCALATE"}

\* What of a workflow's request the agents look at.  The policies are those
\* of the request or the ones the search finds for it.
Request ==
  [ employee  : BOOLEAN,                         \* concerns an employee
    system    : Systems \cup {Nil, "unknown"},   \* source_system
    record    : Records \cup {Nil, "missing"},   \* record_id, course_id
    field     : {Nil, "listed", "unlisted"},     \* on the allow list?
    observed  : Values \cup {Nil},
    expected  : Values \cup {Nil},
    action    : ActionType \cup {Nil},           \* action_type
    conflict  : BOOLEAN,                         \* its policies disagree
    violation : BOOLEAN,                         \* policy_violation
    high      : BOOLEAN,                         \* risk_level HIGH or CRITICAL
    override  : ComplianceDecision \cup {Nil, "invalid"} ]

Finding == [observed : Values \cup {Nil}, found : BOOLEAN]

Proposal ==
  [type : ActionType, before : Values \cup {Nil}, after : Values \cup {Nil}]

\* Supervisor.execute: what the model's answer is checked for.
SupervisorAnswers(intents) ==
  {a \in [intent : intents, ask : BOOLEAN] : a.intent \in IntentCategory}

\* AnomalyInvestigationAgent.execute, given what the domain system shows.
Investigation(r, shown) ==
  LET observed == IF r.observed = Nil /\ r.field # Nil THEN shown ELSE r.observed
  IN  [ observed |-> observed,
        found    |-> observed # Nil /\ r.expected # Nil /\ observed # r.expected ]

\* PolicyAgent.execute
ConflictDetected(r) == r.conflict

\* ActionAgent.execute.  The idempotency key is a digest of the workflow and
\* of this proposal.
ProposalFor(r, finding) ==
  [ type   |-> IF r.action # Nil THEN r.action
               ELSE IF finding.found THEN "CORRECT_RECORD" ELSE "NO_ACTION",
    before |-> finding.observed,
    after  |-> r.expected ]

\* Mutant of Verdict: a risk of HIGH is not enough for an approval.
VerdictLenient(r, proposal) ==
  IF r.override # Nil THEN r.override
  ELSE IF ConflictDetected(r) THEN "ESCALATE"
  ELSE IF r.violation THEN "DENY"
  ELSE "ALLOW"

\* ComplianceAgent.execute: the first rule that applies decides.
Verdict(r, proposal) ==
  IF r.override # Nil THEN r.override
  ELSE IF ConflictDetected(r) THEN "ESCALATE"
  ELSE IF r.violation THEN "DENY"
  ELSE IF r.high /\ proposal.type # "NO_ACTION" THEN "REQUIRE_APPROVAL"
  ELSE "ALLOW"

=============================================================================
