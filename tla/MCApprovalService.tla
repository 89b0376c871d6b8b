------------------------- MODULE MCApprovalService -------------------------
(* The approval service on small tables, for TLC. *)
EXTENDS ApprovalService

CONSTANTS
  hr, payroll,               \* roles
  ann, ben, dan,             \* an hr and a payroll approver, a requester
  MaxHistory,                \* the longest ledger explored
  MaxAskingHistory,          \* the same, once a clarification was asked for
  MaxDecisions,              \* the most signatures on one request
  WithIntent                 \* whether set_intent is called

MCRoles      == {hr, payroll}
MCRolesOf    ==
  [u \in Users |-> CASE u = ann -> {hr} [] u = ben -> {payroll} [] OTHER -> {}]
MCRequester  == [w \in Workflows |-> dan]
OneLevel     == {<<hr>>}
TwoLevels    == {<<hr, payroll>>}

\* What the orchestrator asks of transition_workflow: everything but the
\* moves that belong to the approval service, to cancel and to retry.
OrchestratorTargets ==
  {"AUTHENTICATED", "AUTHORIZED", "CLASSIFYING", "NEEDS_CLARIFICATION",
   "CONTEXT_RETRIEVAL", "DATA_FRESHNESS_CHECK", "INVESTIGATING",
   "POLICY_RETRIEVAL", "ACTION_PROPOSED", "COMPLIANCE_REVIEW", "EXECUTING",
   "VERIFYING", "COMPLETED", "DENIED", "ESCALATED", "FAILED"}

\* The part of it that leads to an approval.
ApprovalPath == OrchestratorTargets \
  {"NEEDS_CLARIFICATION", "DENIED", "ESCALATED", "FAILED", "EXECUTING",
   "VERIFYING", "COMPLETED"}

\* Clarifications and approvals are explored apart: they meet only in the row
\* of their workflow.
Asked == \E c \in Clarifications : clarifications'[c].status # "none"
Bounded ==
  /\ \A w \in Workflows : rows'[w].intent => WithIntent
  /\ \A w \in Workflows :
       Len(history'[w]) <= IF Asked THEN MaxAskingHistory ELSE MaxHistory
  /\ Asked => \A a \in Approvals : ~ Submitted(a)'
  /\ \A a \in Approvals :
       Submitted(a)' => Len(approvals'[a].decisions) <= MaxDecisions
MCSpec == ApprovalInit /\ [][ApprovalNext /\ Bounded]_vars
MCCrashSpec == ApprovalInit /\ [][CrashNext /\ Bounded]_vars
=============================================================================
