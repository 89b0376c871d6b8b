-------------------------- MODULE ApprovalService --------------------------
(***************************************************************************)
(* ApprovalService and ApprovalRepository on top of the workflow service:  *)
(* a proposed action waits for one signature per required role, in order.  *)
(*                                                                         *)
(* A call of the approval service is a sequence of commits, some on the    *)
(* approval_requests row, some on the workflow row and its ledger, and     *)
(* there is no transaction around them.  Each call is written here as the  *)
(* list of what is stored after each of its commits.  A call that is       *)
(* served to its end stores the last of them (ApprovalNext); a call that   *)
(* dies on the way (process killed, database error) leaves one of the      *)
(* earlier ones (InterruptedStep), which only CrashSpec allows.            *)
(***************************************************************************)
EXTENDS WorkflowService

CONSTANTS
  Approvals,    \* approval request ids
  Users,        \* active users
  Superusers,
  Roles,
  RolesOf,      \* the roles of each user
  Requester,    \* the requester of each workflow
  Chains,       \* the lists required_approver_roles compliance may ask for
  NoUser        \* delegated_to_id is NULL

ASSUME SuperusersAssumption == Superusers \subseteq Users
ASSUME RolesOfAssumption == RolesOf \in [Users -> SUBSET Roles]
ASSUME RequesterAssumption == Requester \in [Workflows -> Users]
ASSUME ChainsAssumption == Chains \subseteq Seq(Roles) \ {<< >>}
ASSUME NoUserAssumption == NoUser \notin Users

VARIABLE approvals  \* approvals[a]: the ApprovalRequest row

vars == <<created, rows, history, clarifications, approvals>>

Decision == [level : Nat, approver : Users, approve : BOOLEAN]
Resolution == {"APPROVED", "REJECTED", "EXPIRED", "CANCELLED"}

Approval ==
  [ status    : {"PENDING"} \cup Resolution,
    workflow  : Workflows,
    roles     : Seq(Roles),           \* required_approver_roles
    level     : Nat,                  \* current_level, from 0
    delegate  : Users \cup {NoUser},  \* delegated_to_id
    overdue   : BOOLEAN,              \* expires_at has passed
    decisions : Seq(Decision),        \* ApprovalDecisionEntry rows
    grants    : SUBSET (Nat \X Users) \* approval_delegated audit events
  ]

NoApproval == [status |-> "none"]

ApprovalTypeOK ==
  /\ TypeOK
  /\ approvals \in [Approvals -> Approval \cup {NoApproval}]

ApprovalInit ==
  /\ ServiceInit
  /\ approvals = [a \in Approvals |-> NoApproval]

NewApproval(w, roles) ==
  [ status |-> "PENDING", workflow |-> w, roles |-> roles, level |-> 0,
    delegate |-> NoUser, overdue |-> FALSE, decisions |-> << >>,
    grants |-> {} ]

IsPending(a) == approvals[a].status = "PENDING"
Submitted(a) == approvals[a] # NoApproval

\* The approvals of a workflow that have a status.
With(status, w) ==
  {a \in Approvals : approvals[a].status = status /\ approvals[a].workflow = w}

\* can_decide: a delegate decides in place of the role.
CanDecide(approval, u) ==
  \/ u \in Superusers
  \/ approval.delegate = u
  \/ /\ approval.delegate = NoUser
     /\ approval.roles[approval.level + 1] \in RolesOf[u]

-----------------------------------------------------------------------------
(***************************************************************************)
(* What is stored: a workflow row, its ledger and an approval row.         *)
(***************************************************************************)
Stored(w, a) ==
  [row |-> rows[w], ledger |-> history[w], approval |-> approvals[a]]

Store(w, a, stored) ==
  /\ rows' = [rows EXCEPT ![w] = stored.row]
  /\ history' = [history EXCEPT ![w] = stored.ledger]
  /\ approvals' = [approvals EXCEPT ![a] = stored.approval]
  /\ UNCHANGED <<created, clarifications>>

\* transition_workflow, once its guards hold: the row, then the ledger entry.
MoveCommits(s, to) ==
  LET moved == [s EXCEPT !.row = MovedTo(@, to)]
  IN  <<moved, [moved EXCEPT !.ledger = Append(@, Edge(s.row.state, to))]>>

\* cancel_workflow, which does nothing where it is refused.
CancelWorkflowCommits(s) ==
  LET cancelled == [s EXCEPT !.row = Cancelled(@)]
  IN  IF ~ IsTerminal(s.row.state) /\ ValidTransition(s.row.state, "CANCELLED")
      THEN <<cancelled,
             [cancelled EXCEPT !.ledger = Append(@, Edge(s.row.state, "CANCELLED"))]>>
      ELSE << >>

\* ApprovalRepository.resolve
Resolved(s, status) == [s EXCEPT !.approval.status = status]

\* `if workflow.paused_at: resume_workflow`
Awake(s) == [s EXCEPT !.row = Resumed(@)]

\* record_decision
Signed(s, u, approve) ==
  [s EXCEPT !.approval.decisions =
     Append(@, [level |-> s.approval.level, approver |-> u, approve |-> approve])]

\* Mutant of Advanced: the delegation survives the level it was given for.
AdvancedWithDelegate(s) == [s EXCEPT !.approval.level = @ + 1]

\* advance_level: the next role in line, with no delegate.
Advanced(s) ==
  [s EXCEPT !.approval.level = @ + 1, !.approval.delegate = NoUser]

\* Mutant of MoreLevels: the last level is skipped.
MoreLevelsButOne(approval) == approval.level + 2 < Len(approval.roles)

MoreLevels(approval) == approval.level + 1 < Len(approval.roles)

-----------------------------------------------------------------------------
(***************************************************************************)
(* The commits of each call, for a workflow w and an approval a.           *)
(***************************************************************************)
CreateCommits(w, a, roles) ==
  LET asked(s) == [s EXCEPT !.approval = NewApproval(w, roles)]
      held(s)  == [s EXCEPT !.row = Paused(@)]
      waiting  == MoveCommits(Stored(w, a), "WAITING_FOR_APPROVAL")
  IN  waiting \o <<asked(waiting[2]), held(asked(waiting[2]))>>

\* Mutant of DecideCommits: the workflow moves before the request is resolved.
DecideCommitsMoveFirst(w, a, u, approve) ==
  LET signed  == Signed(Stored(w, a), u, approve)
      outcome == IF approve THEN "APPROVED" ELSE "REJECTED"
      moved   == MoveCommits(Awake(signed), outcome)
  IN  IF approve /\ MoreLevels(approvals[a])
      THEN <<signed, Advanced(signed)>>
      ELSE <<signed, Awake(signed)>> \o moved \o <<Resolved(moved[2], outcome)>>

DecideCommits(w, a, u, approve) ==
  LET signed   == Signed(Stored(w, a), u, approve)
      outcome  == IF approve THEN "APPROVED" ELSE "REJECTED"
      resolved == Resolved(signed, outcome)
  IN  IF approve /\ MoreLevels(approvals[a])
      THEN <<signed, Advanced(signed)>>
      ELSE <<signed, resolved, Awake(resolved)>> \o MoveCommits(Awake(resolved), outcome)

\* Mutant of DelegateCommits: the role is stored where a user belongs.
DelegateCommitsToRole(w, a, target) ==
  << [Stored(w, a) EXCEPT !.approval.delegate = approvals[a].roles[approvals[a].level + 1]] >>

DelegateCommits(w, a, target) ==
  << [Stored(w, a) EXCEPT !.approval.delegate = target,
                          !.approval.grants = @ \cup {<<approvals[a].level, target>>}] >>

\* Mutant of CancelCommits: a cancelled request is filed as a rejection.
CancelCommitsRejecting(w, a) ==
  LET resolved == Resolved(Stored(w, a), "REJECTED")
  IN  <<resolved, Awake(resolved)>> \o CancelWorkflowCommits(Awake(resolved))

CancelCommits(w, a) ==
  LET resolved == Resolved(Stored(w, a), "CANCELLED")
  IN  <<resolved, Awake(resolved)>> \o CancelWorkflowCommits(Awake(resolved))

\* Mutant of ExpireCommits: the workflow is left behind.
ExpireCommitsAlone(w, a) ==
  LET resolved == Resolved(Stored(w, a), "EXPIRED")
  IN  <<resolved, Awake(resolved)>>

ExpireCommits(w, a) ==
  LET resolved == Resolved(Stored(w, a), "EXPIRED")
  IN  <<resolved, Awake(resolved)>> \o
      (IF rows[w].state = "WAITING_FOR_APPROVAL"
       THEN MoveCommits(Awake(resolved), "EXPIRED") ELSE << >>)

-----------------------------------------------------------------------------
(***************************************************************************)
(* When each call gets past its checks.                                    *)
(***************************************************************************)
CanCreate(w, a) ==
  /\ rows[w].state = "COMPLIANCE_REVIEW"
  /\ With("PENDING", w) = {}
  /\ CanMove(rows[w], "WAITING_FOR_APPROVAL")
  /\ ~ Submitted(a)

DecisionAllowed(a, u) ==
  /\ IsPending(a)
  /\ rows[approvals[a].workflow].state = "WAITING_FOR_APPROVAL"
  /\ ~ approvals[a].overdue
  /\ CanDecide(approvals[a], u)

\* Mutant of DelegationAllowed: a resolved approval can be delegated.
DelegationAllowedLate(a, u, target) ==
  /\ Submitted(a)
  /\ ~ approvals[a].overdue
  /\ CanDecide(approvals[a], u)
  /\ u # target

DelegationAllowed(a, u, target) ==
  /\ IsPending(a)
  /\ ~ approvals[a].overdue
  /\ CanDecide(approvals[a], u)
  /\ u # target

CancellationAllowed(a, u) ==
  IsPending(a) /\ u \in Superusers \cup {Requester[approvals[a].workflow]}

\* Found by process_expired, or by the next decide or delegate.
ExpiryDue(a) == IsPending(a) /\ approvals[a].overdue

-----------------------------------------------------------------------------
(***************************************************************************)
(* The operations.                                                         *)
(***************************************************************************)

\* The call is served to its end; or it dies after some of its commits.
Completes(w, a, commits) == Store(w, a, commits[Len(commits)])
Dies(w, a, commits) == \E n \in 1 .. Len(commits) - 1 : Store(w, a, commits[n])

CreateRequest(w, a, roles) ==
  CanCreate(w, a) /\ Completes(w, a, CreateCommits(w, a, roles))

Decide(a, u, approve) ==
  LET w == approvals[a].workflow
  IN  DecisionAllowed(a, u) /\ Completes(w, a, DecideCommits(w, a, u, approve))

Delegate(a, u, target) ==
  LET w == approvals[a].workflow
  IN  DelegationAllowed(a, u, target) /\ Completes(w, a, DelegateCommits(w, a, target))

\* An overdue request can still be cancelled.
Cancel(a, u) ==
  LET w == approvals[a].workflow
  IN  CancellationAllowed(a, u) /\ Completes(w, a, CancelCommits(w, a))

\* One approval of process_expired; decide and delegate do the same to a
\* request they find overdue.
Expire(a) ==
  LET w == approvals[a].workflow
  IN  ExpiryDue(a) /\ Completes(w, a, ExpireCommits(w, a))

\* The clock passes expires_at.
Overdue(a) ==
  /\ IsPending(a) /\ ~ approvals[a].overdue
  /\ approvals' = [approvals EXCEPT ![a].overdue = TRUE]
  /\ UNCHANGED serviceVars

ApprovalStep(a) ==
  \/ \E w \in created, roles \in Chains : CreateRequest(w, a, roles)
  \/ \E u \in Users, approve \in BOOLEAN : Decide(a, u, approve)
  \/ \E u, target \in Users : Delegate(a, u, target)
  \/ \E u \in Users : Cancel(a, u)
  \/ Expire(a)
  \/ Overdue(a)

ApprovalNext ==
  \/ ServiceNext /\ UNCHANGED approvals
  \/ \E a \in Approvals : ApprovalStep(a)

ApprovalSpec == ApprovalInit /\ [][ApprovalNext]_vars

\* The same call, dying between two commits.
InterruptedStep(a) ==
  LET w == approvals[a].workflow
  IN  \/ \E v \in created, roles \in Chains :
           CanCreate(v, a) /\ Dies(v, a, CreateCommits(v, a, roles))
      \/ \E u \in Users, approve \in BOOLEAN :
           DecisionAllowed(a, u) /\ Dies(w, a, DecideCommits(w, a, u, approve))
      \/ /\ \E u \in Users : CancellationAllowed(a, u)
         /\ Dies(w, a, CancelCommits(w, a))
      \/ ExpiryDue(a) /\ Dies(w, a, ExpireCommits(w, a))

CrashNext == ApprovalNext \/ \E a \in Approvals : InterruptedStep(a)
CrashSpec == ApprovalInit /\ [][CrashNext]_vars

-----------------------------------------------------------------------------
(***************************************************************************)
(* Properties.                                                             *)
(***************************************************************************)

\* Every signature was given by a superuser, a holder of the role its level
\* requires, or a user to whom that very level was delegated: a delegation
\* does not carry over to the next level.
SignedWithAuthority ==
  \A a \in Approvals : Submitted(a) =>
    LET r == approvals[a]
    IN  \A i \in 1 .. Len(r.decisions) :
          LET d == r.decisions[i]
          IN  \/ d.approver \in Superusers
              \/ r.roles[d.level + 1] \in RolesOf[d.approver]
              \/ <<d.level, d.approver>> \in r.grants

\* An APPROVED request carries an approving signature for every level of its
\* chain, in order.
ApprovedChainIsSigned ==
  \A a \in Approvals : approvals[a].status = "APPROVED" =>
    LET r == approvals[a]
    IN  /\ \A k \in 1 .. Len(r.roles) :
             \E i \in 1 .. Len(r.decisions) :
               r.decisions[i].level = k - 1 /\ r.decisions[i].approve
        /\ \A i, j \in 1 .. Len(r.decisions) :
             i < j => r.decisions[i].level <= r.decisions[j].level

\* A signature that rejects ends the request: it is never approved after it.
RejectionEndsRequest ==
  \A a \in Approvals : approvals[a].status = "APPROVED" =>
    \A i \in 1 .. Len(approvals[a].decisions) : approvals[a].decisions[i].approve

\* While a request is pending, its workflow is WAITING_FOR_APPROVAL and paused.
WaitingIsPaused ==
  \A a \in Approvals : IsPending(a) =>
    LET row == rows[approvals[a].workflow]
    IN  row.state = "WAITING_FOR_APPROVAL" => row.paused

\* A request that was resolved never changes again: no second decision, no
\* late expiry, no delegation.
ResolvedIsFinal ==
  [][\A a \in Approvals :
       approvals[a].status \in Resolution => approvals'[a] = approvals[a]]_vars

\* How often workflow w took an edge to s, by its ledger.
Times(w, s) == Cardinality({i \in 1 .. Len(history[w]) : history[w][i].to = s})

\* Each approval moved its workflow once, in the direction it was resolved,
\* and nothing else moved a workflow out of WAITING_FOR_APPROVAL.
OutcomesMatchLedger ==
  \A w \in Workflows :
    /\ Times(w, "APPROVED") = Cardinality(With("APPROVED", w))
    /\ Times(w, "REJECTED") = Cardinality(With("REJECTED", w))
    /\ Times(w, "EXPIRED") <= Cardinality(With("EXPIRED", w))
    /\ Times(w, "WAITING_FOR_APPROVAL") =
         Cardinality({a \in Approvals : Submitted(a) /\ approvals[a].workflow = w})

\* A workflow waits exactly while it has one pending request, unless it was
\* cancelled over the request's head.
WaitsForOneRequest ==
  \A w \in Workflows :
    /\ Cardinality(With("PENDING", w)) <= 1
    /\ rows[w].state = "WAITING_FOR_APPROVAL" => With("PENDING", w) # {}
    /\ With("PENDING", w) # {} =>
         rows[w].state \in {"WAITING_FOR_APPROVAL", "CANCELLED"}

\* A workflow reaches APPROVED once per approved request at most, also when
\* calls die half-way: the request is resolved before the workflow moves.
ApprovedOnlyByRequest ==
  \A w \in Workflows :
    /\ Times(w, "APPROVED") <= Cardinality(With("APPROVED", w))
    /\ rows[w].state = "APPROVED" => With("APPROVED", w) # {}

=============================================================================
