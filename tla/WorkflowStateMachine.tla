------------------------ MODULE WorkflowStateMachine ------------------------
(***************************************************************************)
(* The deterministic workflow state machine of                             *)
(* backend/app/workflows/state_machine.py: a table from each state to the  *)
(* states that may follow it, the terminal states, and the check that      *)
(* every service runs before it moves a workflow.  The module has no       *)
(* variables; the modules that move workflows extend it.                   *)
(***************************************************************************)
EXTENDS Naturals, Sequences

\* The table, one field per state, as the class attribute spells it.
VALID_TRANSITIONS ==
  [ RECEIVED             |-> {"AUTHENTICATED", "CANCELLED"},
    AUTHENTICATED        |-> {"AUTHORIZED", "CANCELLED"},
    AUTHORIZED           |-> {"CLASSIFYING", "NEEDS_CLARIFICATION", "CANCELLED"},
    CLASSIFYING          |-> {"CONTEXT_RETRIEVAL", "NEEDS_CLARIFICATION", "FAILED",
                              "CANCELLED"},
    NEEDS_CLARIFICATION  |-> {"CLASSIFYING", "CANCELLED"},
    CONTEXT_RETRIEVAL    |-> {"DATA_FRESHNESS_CHECK", "CANCELLED"},
    DATA_FRESHNESS_CHECK |-> {"INVESTIGATING", "FAILED", "CANCELLED"},
    INVESTIGATING        |-> {"POLICY_RETRIEVAL", "ACTION_PROPOSED", "FAILED",
                              "CANCELLED"},
    POLICY_RETRIEVAL     |-> {"ACTION_PROPOSED", "FAILED", "CANCELLED"},
    ACTION_PROPOSED      |-> {"COMPLIANCE_REVIEW", "FAILED", "CANCELLED"},
    COMPLIANCE_REVIEW    |-> {"WAITING_FOR_APPROVAL", "EXECUTING", "DENIED",
                              "ESCALATED", "FAILED", "CANCELLED"},
    WAITING_FOR_APPROVAL |-> {"APPROVED", "REJECTED", "EXPIRED", "CANCELLED"},
    APPROVED             |-> {"EXECUTING", "CANCELLED"},
    EXECUTING            |-> {"VERIFYING", "FAILED", "CANCELLED"},
    VERIFYING            |-> {"COMPLETED", "FAILED", "CANCELLED"},
    COMPLETED            |-> {},
    DENIED               |-> {},
    ESCALATED            |-> {},
    FAILED               |-> {"RETRY_SCHEDULED", "CANCELLED"},
    RETRY_SCHEDULED      |-> {"RECEIVED", "CANCELLED"},
    CANCELLED            |-> {},
    EXPIRED              |-> {},
    REJECTED             |-> {} ]

WorkflowState ==
  {"RECEIVED", "AUTHENTICATED", "AUTHORIZED", "CLASSIFYING",
   "NEEDS_CLARIFICATION", "CONTEXT_RETRIEVAL", "DATA_FRESHNESS_CHECK",
   "INVESTIGATING", "POLICY_RETRIEVAL", "ACTION_PROPOSED", "COMPLIANCE_REVIEW",
   "WAITING_FOR_APPROVAL", "APPROVED", "REJECTED", "EXECUTING", "VERIFYING",
   "COMPLETED", "DENIED", "ESCALATED", "FAILED", "RETRY_SCHEDULED", "CANCELLED",
   "EXPIRED"}

TERMINAL_STATES ==
  {"COMPLETED", "DENIED", "ESCALATED", "CANCELLED", "EXPIRED", "REJECTED"}

IsTerminal(s) == s \in TERMINAL_STATES

\* validate_transition: refuses a self-loop, then looks the pair up.
ValidTransition(from, to) == from # to /\ to \in VALID_TRANSITIONS[from]

-----------------------------------------------------------------------------
(***************************************************************************)
(* Paths through the table.  A ledger is the list of WorkflowTransition    *)
(* rows of one workflow, oldest first.                                     *)
(***************************************************************************)
Transition == [from : WorkflowState, to : WorkflowState]

\* The ledger leads from RECEIVED to `s` along edges of the table, with no
\* gap: each row starts where the one before it ended.
LeadsTo(ledger, s) ==
  /\ IF ledger = << >>
     THEN s = "RECEIVED"
     ELSE ledger[1].from = "RECEIVED" /\ ledger[Len(ledger)].to = s
  /\ \A i \in 1 .. Len(ledger) : ValidTransition(ledger[i].from, ledger[i].to)
  /\ \A i \in 1 .. Len(ledger) : i > 1 => ledger[i].from = ledger[i - 1].to

\* `longer` is `ledger` with rows added at its end.
Extends(longer, ledger) ==
  /\ Len(longer) >= Len(ledger)
  /\ \A i \in 1 .. Len(ledger) : longer[i] = ledger[i]

=============================================================================
