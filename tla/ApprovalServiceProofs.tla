----------------------- MODULE ApprovalServiceProofs -----------------------
(***************************************************************************)
(* What the approval service guarantees for any number of requests, users  *)
(* and levels, also when calls die between two of their commits: the       *)
(* types, that every signature is authorised, that an approved chain is    *)
(* completely signed, that a resolved request is final, and that a         *)
(* workflow is APPROVED only by a request.                                 *)
(*                                                                         *)
(* All but the last is a matter of the request alone.  A request is sound  *)
(* if its signatures are in order, cover the levels below the current one, *)
(* and are authorised.  Each commit of each call stores a sound request,   *)
(* so it does not matter after which of them a call dies.                  *)
(*                                                                         *)
(* At the end: what becomes of a workflow and its requests together, when  *)
(* every call is served to its end.                                        *)
(***************************************************************************)
EXTENDS ApprovalService, WorkflowServiceProofs

Request == Approval \cup {NoApproval}
StoredType == [row : Row, ledger : Seq(Transition), approval : Request]

\* Level k - 1 carries an approving signature.
SignedAt(r, k) ==
  \E i \in 1 .. Len(r.decisions) : r.decisions[i].level = k - 1 /\ r.decisions[i].approve

Authorised(r, d) ==
  \/ d.approver \in Superusers
  \/ r.roles[d.level + 1] \in RolesOf[d.approver]
  \/ <<d.level, d.approver>> \in r.grants

\* The signatures: in order, authorised, approving below the current level.
InOrder(r) ==
  /\ \A i \in 1 .. Len(r.decisions) : r.decisions[i].level <= r.level
  /\ \A i, j \in 1 .. Len(r.decisions) :
       i < j => r.decisions[i].level <= r.decisions[j].level
SignedBelow(r) == \A k \in 1 .. r.level : SignedAt(r, k)
AllAuthorised(r) == \A i \in 1 .. Len(r.decisions) : Authorised(r, r.decisions[i])

\* The delegate of the moment was given this level.
Delegated(r) == r.delegate # NoUser => <<r.level, r.delegate>> \in r.grants

Finished(r) ==
  r.status = "APPROVED" => r.level + 1 = Len(r.roles) /\ SignedAt(r, Len(r.roles))

Sound(r) ==
  /\ r \in Approval
  /\ r.level < Len(r.roles)
  /\ InOrder(r) /\ SignedBelow(r) /\ AllAuthorised(r) /\ Delegated(r) /\ Finished(r)

\* What a commit may leave behind.
Fit == {s \in StoredType : s.approval = NoApproval \/ Sound(s.approval)}

ApprovalInv ==
  /\ TypeOK
  /\ approvals \in [Approvals -> Request]
  /\ \A a \in Approvals : Submitted(a) => Sound(approvals[a])

-----------------------------------------------------------------------------
(***************************************************************************)
(* What the single commits store.                                          *)
(***************************************************************************)

\* NoApproval is not a request.
LEMMA RequestsDiffer ==
  /\ NoApproval \notin Approval
  /\ NoApproval.status = "none"
<1>1. NoApproval.status = "none"
  BY DEF NoApproval
<1>2. \A r \in Approval : r.status # "none"
  BY DEF Approval, Resolution
<1> QED BY <1>1, <1>2

\* What is stored of a workflow and a request is fit.
LEMMA StoredFits ==
  ASSUME ApprovalInv, NEW w \in Workflows, NEW a \in Approvals
  PROVE  Stored(w, a) \in Fit
<1>1. rows[w] \in Row /\ history[w] \in Seq(Transition) /\ approvals[a] \in Request
  BY DEF ApprovalInv, TypeOK
<1>2. approvals[a] = NoApproval \/ Sound(approvals[a])
  BY DEF ApprovalInv, Submitted
<1> QED
  BY <1>1, <1>2 DEF Stored, Fit, StoredType

\* A change of the row and the ledger leaves the request as it was.
LEMMA RowFits ==
  ASSUME NEW s \in Fit, NEW row \in Row, NEW ledger \in Seq(Transition)
  PROVE  [s EXCEPT !.row = row] \in Fit /\ [s EXCEPT !.ledger = ledger] \in Fit
  BY DEF Fit, StoredType

\* A row that is written is a row.
LEMMA RowsWritten ==
  ASSUME NEW row \in Row, NEW to \in WorkflowState
  PROVE  /\ MovedTo(row, to) \in Row /\ Cancelled(row) \in Row
         /\ Paused(row) \in Row /\ Resumed(row) \in Row
         /\ Edge(row.state, to) \in Transition
<1>1. "CANCELLED" \in WorkflowState
  BY DEF WorkflowState
<1>2. MovedTo(row, to) \in Row /\ Cancelled(row) \in Row
  BY <1>1 DEF MovedTo, Cancelled, Row
<1>3. Paused(row) \in Row /\ Resumed(row) \in Row
  BY DEF Paused, Resumed, Row
<1>4. Edge(row.state, to) \in Transition
  BY DEF Edge, Row, Transition
<1> QED BY <1>2, <1>3, <1>4

\* The two commits of a move are fit.
LEMMA MoveFits ==
  ASSUME NEW s \in Fit, NEW to \in WorkflowState
  PROVE  /\ MoveCommits(s, to) \in Seq(Fit)
         /\ MoveCommits(s, to)[2] \in Fit
         /\ MoveCommits(s, to)[2].approval = s.approval
<1> DEFINE moved == [s EXCEPT !.row = MovedTo(s.row, to)]
           entry == Append(moved.ledger, Edge(s.row.state, to))
           told  == [moved EXCEPT !.ledger = entry]
<1>1. s \in StoredType /\ s.row \in Row /\ s.ledger \in Seq(Transition)
  BY DEF Fit, StoredType
<1>2. moved \in Fit /\ moved.ledger = s.ledger /\ moved.approval = s.approval
  BY <1>1, RowsWritten, RowFits DEF StoredType
<1>3. entry \in Seq(Transition)
  BY <1>1, <1>2, RowsWritten
<1> HIDE DEF moved, entry
<1>4. told \in Fit /\ told.approval = s.approval
  BY <1>2, <1>3, RowFits DEF Fit, StoredType
<1>5. MoveCommits(s, to) = <<moved, told>>
  BY DEF MoveCommits, moved, entry
<1> HIDE DEF told
<1> QED BY <1>2, <1>4, <1>5

\* So are those of a cancellation, if it does anything.
LEMMA CancelFits ==
  ASSUME NEW s \in Fit
  PROVE  CancelWorkflowCommits(s) \in Seq(Fit)
<1> DEFINE cancelled == [s EXCEPT !.row = Cancelled(s.row)]
           entry == Append(cancelled.ledger, Edge(s.row.state, "CANCELLED"))
           told  == [cancelled EXCEPT !.ledger = entry]
<1>1. s \in StoredType /\ s.row \in Row /\ s.ledger \in Seq(Transition)
      /\ "CANCELLED" \in WorkflowState
  BY DEF Fit, StoredType, WorkflowState
<1>2. cancelled \in Fit /\ cancelled.ledger = s.ledger
  BY <1>1, RowsWritten, RowFits DEF StoredType
<1>3. entry \in Seq(Transition)
  BY <1>1, <1>2, RowsWritten
<1> HIDE DEF cancelled, entry
<1>4. told \in Fit
  BY <1>2, <1>3, RowFits DEF Fit, StoredType
<1>5. CancelWorkflowCommits(s) = <<cancelled, told>> \/ CancelWorkflowCommits(s) = << >>
  BY DEF CancelWorkflowCommits, cancelled, entry
<1> HIDE DEF told
<1>6. << >> \in Seq(Fit) /\ <<cancelled, told>> \in Seq(Fit)
  BY <1>2, <1>4
<1> QED BY <1>5, <1>6

\* Lifting the pause is fit too.
LEMMA AwakeFits ==
  ASSUME NEW s \in Fit
  PROVE  Awake(s) \in Fit /\ Awake(s).approval = s.approval
<1>1. s.row \in Row
  BY DEF Fit, StoredType
<1>2. Resumed(s.row) \in Row
  BY <1>1, RowsWritten DEF Row
<1> QED
  BY <1>1, <1>2, RowFits DEF Awake, Fit, StoredType

-----------------------------------------------------------------------------
(***************************************************************************)
(* What the single commits do to the request.                              *)
(***************************************************************************)

\* The request of what is stored, and what may take its place.
LEMMA RequestFits ==
  ASSUME NEW s \in Fit
  PROVE  /\ s.approval = NoApproval \/ Sound(s.approval)
         /\ s.row \in Row /\ s.ledger \in Seq(Transition)
         /\ \A r : Sound(r) =>
              /\ [s EXCEPT !.approval = r] \in Fit
              /\ [s EXCEPT !.approval = r].approval = r
  BY DEF Fit, StoredType, Request, Sound

\* A request that is not submitted, or asks for nothing yet, is sound.
LEMMA NewIsSound ==
  ASSUME NEW w \in Workflows, NEW roles \in Chains
  PROVE  Sound(NewApproval(w, roles))
<1> DEFINE r == NewApproval(w, roles)
<1>1. roles \in Seq(Roles) /\ Len(roles) > 0
  BY ChainsAssumption
<1>2. /\ r.level = 0 /\ r.decisions = << >> /\ r.roles = roles
      /\ r.delegate = NoUser /\ r.status = "PENDING"
  BY DEF NewApproval
<1>3. r \in Approval
  BY <1>1 DEF NewApproval, Approval, Resolution
<1> HIDE DEF r
<1>4. Len(r.decisions) = 0
  BY <1>2
<1>5. InOrder(r) /\ SignedBelow(r) /\ AllAuthorised(r)
  BY <1>2, <1>4 DEF InOrder, SignedBelow, AllAuthorised
<1>6. Delegated(r) /\ Finished(r)
  BY <1>2 DEF Delegated, Finished
<1> QED BY <1>1, <1>2, <1>3, <1>5, <1>6 DEF Sound, r

\* Resolving leaves the signatures alone; only a completely signed request may
\* be resolved as APPROVED.
LEMMA ResolvingIsSound ==
  ASSUME NEW s \in Fit, Sound(s.approval), NEW status \in Resolution,
         status = "APPROVED" =>
           /\ ~ MoreLevels(s.approval)
           /\ SignedAt(s.approval, s.approval.level + 1)
  PROVE  Resolved(s, status) \in Fit
<1> DEFINE r == s.approval
           q == [r EXCEPT !.status = status]
<1>1. /\ r \in Approval /\ r.level < Len(r.roles) /\ InOrder(r) /\ SignedBelow(r)
      /\ AllAuthorised(r) /\ Delegated(r)
  BY DEF Sound
<1>2. /\ q \in Approval /\ q.status = status /\ q.decisions = r.decisions
      /\ q.level = r.level /\ q.roles = r.roles /\ q.grants = r.grants
      /\ q.delegate = r.delegate
  BY <1>1 DEF Approval
<1>3. r.level \in Nat /\ Len(r.roles) \in Nat
  BY <1>1 DEF Approval
<1>4. Resolved(s, status) = [s EXCEPT !.approval = q]
  BY DEF Resolved
<1> HIDE DEF q
<1>5. InOrder(q) /\ SignedBelow(q) /\ AllAuthorised(q) /\ Delegated(q)
  BY <1>1, <1>2 DEF InOrder, SignedBelow, SignedAt, AllAuthorised, Authorised, Delegated
<1>6. Finished(q)
  <2>1. CASE status = "APPROVED"
    <3>1. r.level + 1 = Len(r.roles) /\ SignedAt(r, Len(r.roles))
      BY <2>1, <1>1, <1>3 DEF MoreLevels
    <3> QED BY <3>1, <1>2 DEF Finished, SignedAt
  <2>2. CASE status # "APPROVED"
    BY <2>2, <1>2 DEF Finished
  <2> QED BY <2>1, <2>2
<1>7. Sound(q)
  BY <1>1, <1>2, <1>5, <1>6 DEF Sound
<1> QED BY <1>4, <1>7, RequestFits

\* A signature at a level, as a witness.
LEMMA SignedWitness ==
  ASSUME NEW r, NEW k, NEW i \in 1 .. Len(r.decisions),
         r.decisions[i].level = k - 1, r.decisions[i].approve
  PROVE  SignedAt(r, k)
  BY DEF SignedAt

\* A signature of somebody who can decide comes last, at the current level.
LEMMA SigningIsSound ==
  ASSUME NEW s \in Fit, Sound(s.approval), s.approval.status = "PENDING",
         NEW u \in Users, NEW approve \in BOOLEAN, CanDecide(s.approval, u)
  PROVE  /\ Signed(s, u, approve) \in Fit
         /\ Sound(Signed(s, u, approve).approval)
         /\ Signed(s, u, approve).approval.level = s.approval.level
         /\ Signed(s, u, approve).approval.roles = s.approval.roles
         /\ approve => SignedAt(Signed(s, u, approve).approval, s.approval.level + 1)
<1> DEFINE r == s.approval
           n == Len(r.decisions)
           d == [level |-> r.level, approver |-> u, approve |-> approve]
           longer == Append(r.decisions, d)
           q == [r EXCEPT !.decisions = longer]
<1>1. /\ r \in Approval /\ r.level < Len(r.roles) /\ InOrder(r) /\ SignedBelow(r)
      /\ AllAuthorised(r) /\ Delegated(r)
  BY DEF Sound
<1>2. r.level \in Nat /\ r.decisions \in Seq(Decision) /\ n \in Nat
  BY <1>1 DEF Approval
<1>3. d \in Decision /\ d.level = r.level /\ d.approver = u /\ d.approve = approve
  BY <1>2 DEF Decision
<1> HIDE DEF d
<1>4. /\ longer \in Seq(Decision) /\ Len(longer) = n + 1 /\ longer[n + 1] = d
      /\ \A i \in 1 .. n : longer[i] = r.decisions[i]
  BY <1>2, <1>3
<1> HIDE DEF longer
<1>5. /\ q \in Approval /\ q.decisions = longer /\ q.status = "PENDING"
      /\ q.level = r.level /\ q.roles = r.roles /\ q.grants = r.grants
      /\ q.delegate = r.delegate
  BY <1>1, <1>4 DEF Approval
<1>6. Signed(s, u, approve) = [s EXCEPT !.approval = q]
  BY DEF Signed, longer, d
<1> HIDE DEF q
<1>7. \A i \in 1 .. n : r.decisions[i] \in Decision
  BY <1>2
<1>8. InOrder(q)
  <2>1. ASSUME NEW i \in 1 .. n + 1 PROVE longer[i].level <= r.level
    <3>1. CASE i = n + 1
      BY <3>1, <1>2, <1>3, <1>4
    <3>2. CASE i # n + 1
      <4>1. i \in 1 .. n
        BY <3>2, <1>2
      <4> QED BY <4>1, <1>1, <1>4 DEF InOrder
    <3> QED BY <3>1, <3>2
  <2>2. ASSUME NEW i \in 1 .. n + 1, NEW j \in 1 .. n + 1, i < j
        PROVE  longer[i].level <= longer[j].level
    <3>1. CASE j = n + 1
      BY <3>1, <2>1, <1>3, <1>4
    <3>2. CASE j # n + 1
      <4>1. i \in 1 .. n /\ j \in 1 .. n
        BY <3>2, <2>2, <1>2
      <4> QED BY <4>1, <2>2, <1>1, <1>4 DEF InOrder
    <3> QED BY <3>1, <3>2
  <2> QED BY <2>1, <2>2, <1>4, <1>5 DEF InOrder
<1>9. \A k : SignedAt(r, k) => SignedAt(q, k)
  BY <1>2, <1>4, <1>5 DEF SignedAt
<1>10. SignedBelow(q)
  BY <1>1, <1>5, <1>9 DEF SignedBelow
<1>11. Authorised(q, d)
  <2>1. r.delegate = u => <<r.level, u>> \in r.grants
    BY <1>1, NoUserAssumption DEF Delegated
  <2> QED BY <2>1, <1>3, <1>5 DEF CanDecide, Authorised
<1>12. AllAuthorised(q)
  <2>1. ASSUME NEW i \in 1 .. n + 1 PROVE Authorised(q, longer[i])
    <3>1. CASE i = n + 1
      BY <3>1, <1>4, <1>11
    <3>2. CASE i # n + 1
      <4>1. i \in 1 .. n
        BY <3>2, <1>2
      <4> QED BY <4>1, <1>1, <1>4, <1>5 DEF AllAuthorised, Authorised
    <3> QED BY <3>1, <3>2
  <2> QED BY <2>1, <1>4, <1>5 DEF AllAuthorised
<1>13. Delegated(q) /\ Finished(q)
  BY <1>1, <1>5 DEF Delegated, Finished
<1>14. Sound(q)
  BY <1>1, <1>5, <1>8, <1>10, <1>12, <1>13 DEF Sound
<1>15. ASSUME approve PROVE SignedAt(q, r.level + 1)
  <2>1. n + 1 \in 1 .. Len(longer) /\ r.level = (r.level + 1) - 1
    BY <1>2, <1>4
  <2>2. d.approve
    BY <1>15 DEF d
  <2>3. longer[n + 1].level = (r.level + 1) - 1 /\ longer[n + 1].approve
    BY <2>1, <2>2, <1>3, <1>4
  <2>4. /\ n + 1 \in 1 .. Len(q.decisions)
        /\ q.decisions[n + 1].level = (r.level + 1) - 1 /\ q.decisions[n + 1].approve
    BY <2>1, <2>3, <1>5
  <2> QED BY <2>4, SignedWitness
<1> QED BY <1>5, <1>6, <1>14, <1>15, RequestFits

\* The level advances only over a level that was signed, and not past the last.
LEMMA AdvancingIsSound ==
  ASSUME NEW s \in Fit, Sound(s.approval), s.approval.status = "PENDING",
         MoreLevels(s.approval), SignedAt(s.approval, s.approval.level + 1)
  PROVE  Advanced(s) \in Fit
<1> DEFINE r == s.approval
           q == [r EXCEPT !.level = r.level + 1, !.delegate = NoUser]
<1>1. /\ r \in Approval /\ InOrder(r) /\ SignedBelow(r) /\ AllAuthorised(r)
      /\ r.level + 1 < Len(r.roles)
  BY DEF Sound, MoreLevels
<1> DEFINE next == r.level + 1
<1>2. /\ r.level \in Nat /\ next \in Nat
      /\ \A i \in 1 .. Len(r.decisions) : r.decisions[i].level \in Nat
  <2>1. r.level \in Nat /\ r.decisions \in Seq(Decision)
    BY <1>1 DEF Approval
  <2>2. \A i \in 1 .. Len(r.decisions) : r.decisions[i] \in Decision
    BY <2>1
  <2> QED BY <2>1, <2>2 DEF Decision
<1>a. q = [r EXCEPT !.level = next, !.delegate = NoUser]
  OBVIOUS
<1>4. Advanced(s) = [s EXCEPT !.approval = q]
  BY DEF Advanced
<1> HIDE DEF q, next
<1>3. /\ q \in Approval /\ q.decisions = r.decisions /\ q.status = "PENDING"
      /\ q.level = next /\ q.roles = r.roles /\ q.grants = r.grants
      /\ q.delegate = NoUser
  BY <1>1, <1>2, <1>a DEF Approval
<1>5. InOrder(q)
  BY <1>1, <1>2, <1>3 DEF InOrder, next
<1>6. SignedBelow(q)
  <2>1. ASSUME NEW k \in 1 .. next PROVE SignedAt(r, k)
    BY <1>1, <1>2 DEF SignedBelow, next
  <2> QED BY <2>1, <1>3 DEF SignedBelow, SignedAt
<1>7. AllAuthorised(q)
  BY <1>1, <1>3 DEF AllAuthorised, Authorised
<1>8. Delegated(q) /\ Finished(q)
  BY <1>3 DEF Delegated, Finished
<1>9. Sound(q)
  BY <1>1, <1>3, <1>5, <1>6, <1>7, <1>8 DEF Sound, next
<1> QED BY <1>4, <1>9, RequestFits

\* A delegation is for the current level; grants are only added.
LEMMA DelegatingIsSound ==
  ASSUME NEW s \in Fit, Sound(s.approval), NEW target \in Users
  PROVE  LET r == s.approval
         IN  [s EXCEPT !.approval =
                [r EXCEPT !.delegate = target,
                          !.grants = r.grants \cup {<<r.level, target>>}]] \in Fit
<1> DEFINE r == s.approval
           grants == r.grants \cup {<<r.level, target>>}
           q == [r EXCEPT !.delegate = target, !.grants = grants]
<1>1. /\ r \in Approval /\ r.level < Len(r.roles) /\ InOrder(r) /\ SignedBelow(r)
      /\ AllAuthorised(r) /\ Finished(r)
  BY DEF Sound
<1>2. r.level \in Nat /\ r.grants \subseteq Nat \X Users
  BY <1>1 DEF Approval
<1>3. grants \subseteq Nat \X Users /\ r.grants \subseteq grants /\ <<r.level, target>> \in grants
  BY <1>2
<1> HIDE DEF grants
<1>4. /\ q \in Approval /\ q.decisions = r.decisions /\ q.status = r.status
      /\ q.level = r.level /\ q.roles = r.roles /\ q.grants = grants
      /\ q.delegate = target
  BY <1>1, <1>3 DEF Approval
<1> HIDE DEF q
<1>5. InOrder(q) /\ SignedBelow(q) /\ Finished(q)
  BY <1>1, <1>4 DEF InOrder, SignedBelow, SignedAt, Finished
<1>6. AllAuthorised(q)
  BY <1>1, <1>3, <1>4 DEF AllAuthorised, Authorised
<1>7. Delegated(q)
  BY <1>3, <1>4 DEF Delegated
<1>8. Sound(q)
  BY <1>1, <1>4, <1>5, <1>6, <1>7 DEF Sound
<1> QED BY <1>8, RequestFits DEF q, grants

-----------------------------------------------------------------------------
(***************************************************************************)
(* The calls: each commit of each call is fit.                             *)
(***************************************************************************)

\* create_request: the move, the request, the pause.
LEMMA CreateCommitsFit ==
  ASSUME ApprovalInv, NEW w \in Workflows, NEW a \in Approvals, NEW roles \in Chains
  PROVE  CreateCommits(w, a, roles) \in Seq(Fit) /\ Len(CreateCommits(w, a, roles)) > 0
<1> DEFINE waiting == MoveCommits(Stored(w, a), "WAITING_FOR_APPROVAL")
           asked   == [waiting[2] EXCEPT !.approval = NewApproval(w, roles)]
           held    == [asked EXCEPT !.row = Paused(asked.row)]
<1>1. "WAITING_FOR_APPROVAL" \in WorkflowState
  BY DEF WorkflowState
<1>2. waiting \in Seq(Fit) /\ waiting[2] \in Fit
  BY <1>1, StoredFits, MoveFits
<1>3. CreateCommits(w, a, roles) = waiting \o <<asked, held>>
  BY DEF CreateCommits
<1> HIDE DEF waiting
<1>4. asked \in Fit
  BY <1>2, NewIsSound, RequestFits
<1> HIDE DEF asked
<1>5. asked.row \in Row
  BY <1>4, RequestFits
<1>6. held \in Fit
  <2>1. Paused(asked.row) \in Row
    BY <1>1, <1>5, RowsWritten
  <2> QED BY <1>4, <2>1, RowFits DEF Fit, StoredType
<1> HIDE DEF held
<1> QED BY <1>2, <1>3, <1>4, <1>6

\* What a call on a pending request starts from.
LEMMA PendingIsSound ==
  ASSUME ApprovalInv, NEW a \in Approvals, IsPending(a)
  PROVE  /\ approvals[a].workflow \in Workflows
         /\ Stored(approvals[a].workflow, a) \in Fit
         /\ Stored(approvals[a].workflow, a).approval = approvals[a]
         /\ Stored(approvals[a].workflow, a).row = rows[approvals[a].workflow]
         /\ Sound(approvals[a])
<1>1. Submitted(a)
  BY RequestsDiffer DEF IsPending, Submitted
<1>2. Sound(approvals[a])
  BY <1>1 DEF ApprovalInv
<1>3. approvals[a].workflow \in Workflows
  BY <1>2 DEF Sound, Approval
<1> QED BY <1>2, <1>3, StoredFits DEF Stored

\* decide: the signature, then the next level, or the outcome and its move.
LEMMA DecideCommitsFit ==
  ASSUME ApprovalInv, NEW a \in Approvals, NEW u \in Users, NEW approve \in BOOLEAN,
         DecisionAllowed(a, u)
  PROVE  LET commits == DecideCommits(approvals[a].workflow, a, u, approve)
         IN  commits \in Seq(Fit) /\ Len(commits) > 0
<1> DEFINE w        == approvals[a].workflow
           signed   == Signed(Stored(w, a), u, approve)
           outcome  == IF approve THEN "APPROVED" ELSE "REJECTED"
           resolved == Resolved(signed, outcome)
           commits  == DecideCommits(w, a, u, approve)
<1>1. /\ Stored(w, a) \in Fit /\ Stored(w, a).approval = approvals[a]
      /\ Sound(approvals[a]) /\ approvals[a].status = "PENDING"
      /\ CanDecide(approvals[a], u)
  BY PendingIsSound DEF DecisionAllowed, IsPending
<1>2. /\ signed \in Fit /\ Sound(signed.approval)
      /\ signed.approval.level = approvals[a].level
      /\ signed.approval.roles = approvals[a].roles
      /\ approve => SignedAt(signed.approval, signed.approval.level + 1)
      /\ signed.approval.status = "PENDING"
  <2>1. signed.approval.status = "PENDING"
    BY <1>1 DEF Signed, Fit, StoredType, Sound, Approval
  <2> HIDE DEF w
  <2> QED BY <1>1, <2>1, SigningIsSound
<1>3. MoreLevels(signed.approval) <=> MoreLevels(approvals[a])
  BY <1>2 DEF MoreLevels
<1>4. CASE approve /\ MoreLevels(approvals[a])
  <2>1. commits = <<signed, Advanced(signed)>>
    BY <1>4 DEF DecideCommits
  <2> HIDE DEF signed, commits
  <2>2. Advanced(signed) \in Fit
    BY <1>2, <1>3, <1>4, AdvancingIsSound
  <2> QED BY <1>2, <2>1, <2>2 DEF commits
<1>5. CASE ~ (approve /\ MoreLevels(approvals[a]))
  <2> DEFINE moves == MoveCommits(Awake(resolved), outcome)
  <2>1. commits = <<signed, resolved, Awake(resolved)>> \o moves
    BY <1>5 DEF DecideCommits
  <2>2. outcome \in Resolution /\ outcome \in WorkflowState
    BY DEF Resolution, WorkflowState
  <2>3. outcome = "APPROVED" => approve
    OBVIOUS
  <2> HIDE DEF signed, commits, outcome
  <2>4. resolved \in Fit
    BY <1>2, <1>3, <1>5, <2>2, <2>3, ResolvingIsSound
  <2> HIDE DEF resolved
  <2>5. Awake(resolved) \in Fit
    BY <2>4, AwakeFits
  <2>6. moves \in Seq(Fit)
    BY <2>2, <2>5, MoveFits
  <2> HIDE DEF moves
  <2>7. <<signed, resolved, Awake(resolved)>> \in Seq(Fit)
    BY <1>2, <2>4, <2>5
  <2> QED BY <2>1, <2>6, <2>7 DEF commits
<1> QED BY <1>4, <1>5

\* delegate has one commit.
LEMMA DelegateCommitsFit ==
  ASSUME ApprovalInv, NEW a \in Approvals, NEW u \in Users, NEW target \in Users,
         DelegationAllowed(a, u, target)
  PROVE  LET commits == DelegateCommits(approvals[a].workflow, a, target)
         IN  commits \in Seq(Fit) /\ Len(commits) = 1
<1> DEFINE s == Stored(approvals[a].workflow, a)
           r == s.approval
           delegated == [s EXCEPT !.approval =
                           [r EXCEPT !.delegate = target,
                                     !.grants = r.grants \cup {<<r.level, target>>}]]
<1>1. s \in Fit /\ s.approval = approvals[a] /\ Sound(s.approval)
  BY PendingIsSound DEF DelegationAllowed
<1>2. DelegateCommits(approvals[a].workflow, a, target) = <<delegated>>
  BY <1>1 DEF DelegateCommits, Fit, StoredType, Sound, Approval
<1> HIDE DEF s
<1>3. delegated \in Fit
  BY <1>1, DelegatingIsSound
<1> HIDE DEF delegated
<1> QED BY <1>2, <1>3

\* cancel and the expiry resolve the request first.
LEMMA EndCommitsFit ==
  ASSUME ApprovalInv, NEW a \in Approvals, IsPending(a)
  PROVE  LET w == approvals[a].workflow
         IN  /\ CancelCommits(w, a) \in Seq(Fit) /\ Len(CancelCommits(w, a)) > 0
             /\ ExpireCommits(w, a) \in Seq(Fit) /\ Len(ExpireCommits(w, a)) > 0
<1> DEFINE w == approvals[a].workflow
           s == Stored(w, a)
<1>1. s \in Fit /\ Sound(s.approval) /\ s.row = rows[w]
  BY PendingIsSound
<1>2. "EXPIRED" \in WorkflowState
  BY DEF WorkflowState
<1>3. ASSUME NEW status \in {"CANCELLED", "EXPIRED"}
      PROVE  /\ Resolved(s, status) \in Fit /\ Awake(Resolved(s, status)) \in Fit
             /\ <<Resolved(s, status), Awake(Resolved(s, status))>> \in Seq(Fit)
  <2>1. status \in Resolution /\ status # "APPROVED"
    BY DEF Resolution
  <2> HIDE DEF s
  <2>2. Resolved(s, status) \in Fit
    BY <1>1, <2>1, ResolvingIsSound
  <2>3. Awake(Resolved(s, status)) \in Fit
    BY <2>2, AwakeFits
  <2> QED BY <2>2, <2>3
<1>4. CancelCommits(w, a) \in Seq(Fit) /\ Len(CancelCommits(w, a)) > 0
  <2> DEFINE resolved == Resolved(s, "CANCELLED")
             moves == CancelWorkflowCommits(Awake(resolved))
  <2>1. CancelCommits(w, a) = <<resolved, Awake(resolved)>> \o moves
    BY DEF CancelCommits
  <2> HIDE DEF s, w
  <2>2. moves \in Seq(Fit) /\ <<resolved, Awake(resolved)>> \in Seq(Fit)
    BY <1>3, CancelFits
  <2> HIDE DEF moves, resolved
  <2> QED BY <2>1, <2>2
<1>5. ExpireCommits(w, a) \in Seq(Fit) /\ Len(ExpireCommits(w, a)) > 0
  <2> DEFINE resolved == Resolved(s, "EXPIRED")
             moves == IF rows[w].state = "WAITING_FOR_APPROVAL"
                      THEN MoveCommits(Awake(resolved), "EXPIRED") ELSE << >>
  <2>1. ExpireCommits(w, a) = <<resolved, Awake(resolved)>> \o moves
    BY DEF ExpireCommits
  <2> HIDE DEF s, w
  <2>2. <<resolved, Awake(resolved)>> \in Seq(Fit) /\ Awake(resolved) \in Fit
    BY <1>3
  <2>3. MoveCommits(Awake(resolved), "EXPIRED") \in Seq(Fit) /\ << >> \in Seq(Fit)
    BY <1>2, <2>2, MoveFits
  <2>4. moves \in Seq(Fit)
    BY <2>3
  <2> HIDE DEF moves, resolved
  <2> QED BY <2>1, <2>2, <2>4
<1> QED BY <1>4, <1>5

-----------------------------------------------------------------------------
(***************************************************************************)
(* The steps.                                                              *)
(***************************************************************************)

\* The calls of the workflow service keep its types.  (InvStep says more, but
\* of ledgers without a gap, which a call that dies may leave behind.)
LEMMA ServiceTypes ==
  ASSUME TypeOK, ServiceNext
  PROVE  TypeOK'
<1>a. /\ created \subseteq Workflows
      /\ rows \in [Workflows -> Row]
      /\ history \in [Workflows -> Seq(Transition)]
      /\ clarifications \in [Clarifications -> Clarification]
  BY DEF TypeOK
<1>b. {"RECEIVED", "CLASSIFYING", "NEEDS_CLARIFICATION", "CANCELLED", "FAILED",
       "RETRY_SCHEDULED"} \subseteq WorkflowState
  BY DEF WorkflowState
<1>c. \A v \in Workflows : rows[v] \in Row
  BY <1>a
<1>d. \A row \in Row :
        /\ Paused(row) \in Row /\ Resumed(row) \in Row /\ Cancelled(row) \in Row
        /\ [row EXCEPT !.intent = TRUE] \in Row
        /\ \A to \in WorkflowState :
             MovedTo(row, to) \in Row /\ Edge(row.state, to) \in Transition
  <2>1. ASSUME NEW row \in Row PROVE [row EXCEPT !.intent = TRUE] \in Row
    BY DEF Row
  <2> QED BY <1>b, <2>1, RowsWritten
<1>1. ASSUME NEW w \in Workflows, NEW row \in Row, NEW added \in Seq(Transition),
             WriteMove(w, row, added), clarifications' \in [Clarifications -> Clarification]
      PROVE  TypeOK'
  <2>1. history[w] \o added \in Seq(Transition)
    BY <1>a
  <2> QED BY <1>1, <1>a, <2>1 DEF WriteMove, TypeOK
<1>2. ASSUME NEW w \in Workflows, NEW row \in Row, WriteRow(w, row),
             clarifications' \in [Clarifications -> Clarification]
      PROVE  TypeOK'
  BY <1>2, <1>a DEF WriteRow, TypeOK
<1>3. ASSUME NEW w \in Workflows, NEW to \in CallerTargets, TransitionWorkflow(w, to)
      PROVE  TypeOK'
  <2>1. MovedTo(rows[w], to) \in Row /\ Edge(rows[w].state, to) \in Transition
    BY <1>c, <1>d, CallerTargetsAssumption
  <2>2. <<Edge(rows[w].state, to)>> \in Seq(Transition)
    BY <2>1
  <2> QED BY <1>1, <1>3, <1>a, <2>1, <2>2 DEF TransitionWorkflow
<1>4. ASSUME NEW w \in Workflows, SetIntent(w) \/ PauseWorkflow(w) \/ ResumeWorkflow(w)
      PROVE  TypeOK'
  BY <1>2, <1>4, <1>a, <1>c, <1>d DEF SetIntent, PauseWorkflow, ResumeWorkflow
<1>5. ASSUME NEW w \in Workflows, CancelWorkflow(w) PROVE TypeOK'
  <2>1. Cancelled(rows[w]) \in Row /\ Edge(rows[w].state, "CANCELLED") \in Transition
    BY <1>b, <1>c, <1>d
  <2>2. <<Edge(rows[w].state, "CANCELLED")>> \in Seq(Transition)
    BY <2>1
  <2> QED BY <1>1, <1>5, <1>a, <2>1, <2>2 DEF CancelWorkflow
<1>6. ASSUME NEW w \in Workflows, RetryWorkflow(w) PROVE TypeOK'
  <2> DEFINE scheduled == RetryScheduled(rows[w])
             first     == Edge("FAILED", "RETRY_SCHEDULED")
             second    == Edge("RETRY_SCHEDULED", "RECEIVED")
  <2>1. scheduled \in Row
    BY <1>c, RetryScheduledIsRow
  <2>2. MovedTo(scheduled, "RECEIVED") \in Row
    BY <1>b, <1>d, <2>1
  <2>3. first \in Transition /\ second \in Transition
    BY <1>b DEF Edge, Transition
  <2>4. /\ \/ WriteMove(w, MovedTo(scheduled, "RECEIVED"), <<first, second>>)
           \/ WriteMove(w, scheduled, <<first>>)
        /\ UNCHANGED clarifications
    BY <1>6 DEF RetryWorkflow
  <2> HIDE DEF scheduled, first, second
  <2>5. <<first, second>> \in Seq(Transition) /\ <<first>> \in Seq(Transition)
    BY <2>3
  <2> QED BY <1>1, <1>a, <2>1, <2>2, <2>4, <2>5
<1>7. ASSUME NEW w \in Workflows, NEW c \in Clarifications, RequestClarification(w, c)
      PROVE  TypeOK'
  BY <1>7, <1>a DEF RequestClarification, Clarification, ClarificationStatus, TypeOK
<1>8. ASSUME NEW c \in Clarifications, RespondToClarification(c) PROVE TypeOK'
  <2> DEFINE w     == clarifications[c].workflow
             awake == Resumed(rows[w])
  <2>1. w \in Workflows
    BY <1>a DEF Clarification
  <2>2. awake \in Row
    BY <1>c, <1>d, <2>1
  <2>3. MovedTo(awake, "CLASSIFYING") \in Row
    BY <1>b, <1>d, <2>2
  <2>6. <<Edge("NEEDS_CLARIFICATION", "CLASSIFYING")>> \in Seq(Transition)
    <3>1. Edge("NEEDS_CLARIFICATION", "CLASSIFYING") \in Transition
      BY <1>b DEF Edge, Transition
    <3> QED BY <3>1
  <2>4. clarifications' \in [Clarifications -> Clarification]
    BY <1>8, <1>a DEF RespondToClarification, Clarification, ClarificationStatus
  <2>5. \/ WriteMove(w, MovedTo(awake, "CLASSIFYING"),
                    <<Edge("NEEDS_CLARIFICATION", "CLASSIFYING")>>)
        \/ WriteRow(w, awake)
    BY <1>8 DEF RespondToClarification
  <2> HIDE DEF w, awake
  <2> QED BY <1>1, <1>2, <2>1, <2>2, <2>3, <2>4, <2>5, <2>6
<1>9. ASSUME NEW c \in Clarifications, ClarificationOverdue(c) PROVE TypeOK'
  BY <1>9, <1>a DEF ClarificationOverdue, Clarification, ClarificationStatus, TypeOK
<1>10. ASSUME NEW w \in Workflows, CreateWorkflow(w) PROVE TypeOK'
  BY <1>10, <1>a DEF CreateWorkflow, TypeOK
<1> QED
  BY <1>a, <1>3, <1>4, <1>5, <1>6, <1>7, <1>8, <1>9, <1>10
  DEF ServiceNext, WorkflowStep, ClarificationStep

\* What a call, whole or cut short, stores is one of its commits.
LEMMA SomeCommit ==
  ASSUME NEW w, NEW a, NEW commits \in Seq(Fit), Len(commits) > 0,
         Completes(w, a, commits) \/ Dies(w, a, commits)
  PROVE  \E s \in Fit : Store(w, a, s)
<1>1. Len(commits) \in Nat /\ \A n \in 1 .. Len(commits) : commits[n] \in Fit
  OBVIOUS
<1>2. \E n \in 1 .. Len(commits) : Store(w, a, commits[n])
  BY <1>1 DEF Completes, Dies
<1> QED BY <1>1, <1>2

\* Storing what is fit keeps the invariant.
LEMMA StoreKeeps ==
  ASSUME ApprovalInv, NEW w \in Workflows, NEW a \in Approvals, NEW s \in Fit,
         Store(w, a, s)
  PROVE  ApprovalInv'
<1>1. /\ s.row \in Row /\ s.ledger \in Seq(Transition) /\ s.approval \in Request
      /\ s.approval # NoApproval => Sound(s.approval)
  BY DEF Fit, StoredType
<1>2. TypeOK'
  BY <1>1 DEF Store, ApprovalInv, TypeOK
<1>3. approvals' \in [Approvals -> Request]
  BY <1>1 DEF Store, ApprovalInv
<1>4. ASSUME NEW b \in Approvals, approvals'[b] # NoApproval PROVE Sound(approvals'[b])
  <2>1. CASE b = a
    BY <1>1, <1>4, <2>1 DEF Store, ApprovalInv
  <2>2. CASE b # a
    <3>1. approvals'[b] = approvals[b]
      BY <2>2 DEF Store, ApprovalInv
    <3> QED BY <3>1, <1>4 DEF ApprovalInv, Submitted
  <2> QED BY <2>1, <2>2
<1>5. \A b \in Approvals : (Submitted(b) => Sound(approvals[b]))'
  BY <1>4 DEF Submitted, Sound, InOrder, SignedBelow, SignedAt, AllAuthorised,
     Authorised, Delegated, Finished
<1> QED BY <1>2, <1>3, <1>5 DEF ApprovalInv

\* The steps of the approval service, as what they store of which request.
LEMMA CallsStore ==
  ASSUME ApprovalInv, NEW a \in Approvals, ApprovalStep(a) \/ InterruptedStep(a), ~ Overdue(a)
  PROVE  /\ ~ Submitted(a) \/ IsPending(a)
         /\ \E w \in Workflows, s \in Fit : Store(w, a, s)
<1> DEFINE w == approvals[a].workflow
<1>0. created \subseteq Workflows /\ (IsPending(a) => w \in Workflows)
  <2>1. created \subseteq Workflows
    BY DEF ApprovalInv, TypeOK
  <2>2. IsPending(a) => approvals[a].workflow \in Workflows
    BY PendingIsSound
  <2> QED BY <2>1, <2>2
<1>1. ASSUME NEW v \in created, NEW roles \in Chains, CanCreate(v, a),
             \/ Completes(v, a, CreateCommits(v, a, roles))
             \/ Dies(v, a, CreateCommits(v, a, roles))
      PROVE  ~ Submitted(a) /\ \E s \in Fit : Store(v, a, s)
  <2>1. v \in Workflows /\ ~ Submitted(a)
    BY <1>0, <1>1 DEF CanCreate
  <2>2. CreateCommits(v, a, roles) \in Seq(Fit) /\ Len(CreateCommits(v, a, roles)) > 0
    BY <1>1, <2>1, CreateCommitsFit
  <2> QED BY <1>1, <2>1, <2>2, SomeCommit
<1>2. ASSUME NEW u \in Users, NEW approve \in BOOLEAN, DecisionAllowed(a, u),
             \/ Completes(w, a, DecideCommits(w, a, u, approve))
             \/ Dies(w, a, DecideCommits(w, a, u, approve))
      PROVE  IsPending(a) /\ \E s \in Fit : Store(w, a, s)
  BY <1>2, DecideCommitsFit, SomeCommit DEF DecisionAllowed
<1>3. ASSUME NEW u \in Users, NEW target \in Users, DelegationAllowed(a, u, target),
             Completes(w, a, DelegateCommits(w, a, target))
      PROVE  IsPending(a) /\ \E s \in Fit : Store(w, a, s)
  <2> DEFINE commits == DelegateCommits(w, a, target)
  <2>1. commits \in Seq(Fit) /\ Len(commits) = 1
    BY <1>3, DelegateCommitsFit
  <2>2. Completes(w, a, commits)
    BY <1>3
  <2> HIDE DEF commits
  <2> QED BY <1>3, <2>1, <2>2, SomeCommit DEF DelegationAllowed
<1>4. ASSUME IsPending(a),
             \/ Completes(w, a, CancelCommits(w, a)) \/ Dies(w, a, CancelCommits(w, a))
             \/ Completes(w, a, ExpireCommits(w, a)) \/ Dies(w, a, ExpireCommits(w, a))
      PROVE  \E s \in Fit : Store(w, a, s)
  BY <1>4, EndCommitsFit, SomeCommit
<1>5. CASE ApprovalStep(a)
  <2>1. CASE \E v \in created, roles \in Chains : CreateRequest(v, a, roles)
    BY <2>1, <1>0, <1>1 DEF CreateRequest
  <2>2. CASE \E u \in Users, approve \in BOOLEAN : Decide(a, u, approve)
    BY <2>2, <1>0, <1>2 DEF Decide
  <2>3. CASE \E u, target \in Users : Delegate(a, u, target)
    BY <2>3, <1>0, <1>3 DEF Delegate
  <2>4. CASE (\E u \in Users : Cancel(a, u)) \/ Expire(a)
    BY <2>4, <1>0, <1>4 DEF Cancel, CancellationAllowed, Expire, ExpiryDue
  <2> QED BY <1>5, <2>1, <2>2, <2>3, <2>4 DEF ApprovalStep
<1>6. CASE InterruptedStep(a)
  BY <1>6, <1>0, <1>1, <1>2, <1>4 DEF InterruptedStep, CancellationAllowed, ExpiryDue
<1> QED BY <1>5, <1>6

\* At the start no request is submitted.
LEMMA ApprovalStart == ApprovalInit => ApprovalInv
<1> SUFFICES ASSUME ApprovalInit PROVE ApprovalInv
  OBVIOUS
<1>1. TypeOK
  <2>1. NewRow \in Row
    BY DEF NewRow, Row, WorkflowState
  <2> QED BY <2>1 DEF ApprovalInit, ServiceInit, TypeOK, Clarification, ClarificationStatus
<1> QED BY <1>1 DEF ApprovalInit, ApprovalInv, Submitted, Request

\* A step of either service, whole or cut short, keeps the invariant.
LEMMA ApprovalInvStep ==
  ASSUME ApprovalInv, [CrashNext]_vars
  PROVE  ApprovalInv'
<1>1. ASSUME TypeOK', UNCHANGED approvals PROVE ApprovalInv'
  BY <1>1 DEF ApprovalInv, Submitted, Sound, InOrder, SignedBelow, SignedAt,
     AllAuthorised, Authorised, Delegated, Finished
<1>2. CASE ServiceNext /\ UNCHANGED approvals
  <2>1. TypeOK
    BY DEF ApprovalInv
  <2> QED BY <1>1, <1>2, <2>1, ServiceTypes
<1>3. ASSUME NEW a \in Approvals, Overdue(a) PROVE ApprovalInv'
  <2> DEFINE r == approvals[a]
             q == [r EXCEPT !.overdue = TRUE]
             s == Stored(r.workflow, a)
             late == [s EXCEPT !.approval = q]
  <2>1. /\ r.workflow \in Workflows /\ s \in Fit /\ s.row = rows[r.workflow]
        /\ s.ledger = history[r.workflow] /\ Sound(r)
    BY <1>3, PendingIsSound DEF Overdue, Stored
  <2>2. Sound(q)
    BY <2>1 DEF Sound, Approval, InOrder, SignedBelow, SignedAt, AllAuthorised,
       Authorised, Delegated, Finished
  <2>3. /\ UNCHANGED serviceVars
        /\ approvals' = [approvals EXCEPT ![a] = q]
    BY <1>3 DEF Overdue
  <2> HIDE DEF q, s
  <2>4. late \in Fit /\ late.approval = q
    BY <2>1, <2>2, RequestFits
  <2>5. late.row = rows[r.workflow] /\ late.ledger = history[r.workflow]
    BY <2>1 DEF Fit, StoredType
  <2> HIDE DEF late
  <2>6. Store(r.workflow, a, late)
    BY <2>1, <2>3, <2>4, <2>5 DEF Store, serviceVars, ApprovalInv, TypeOK
  <2> QED BY <2>1, <2>4, <2>6, StoreKeeps
<1>4. ASSUME NEW a \in Approvals, ApprovalStep(a) \/ InterruptedStep(a), ~ Overdue(a)
      PROVE  ApprovalInv'
  <2>1. PICK w \in Workflows, s \in Fit : Store(w, a, s)
    BY <1>4, CallsStore
  <2> QED BY <2>1, StoreKeeps
<1>5. CASE UNCHANGED vars
  <2>1. TypeOK'
    BY <1>5 DEF vars, ApprovalInv, TypeOK
  <2> QED BY <1>1, <1>5, <2>1 DEF vars
<1> QED BY <1>2, <1>3, <1>4, <1>5 DEF CrashNext, ApprovalNext

\* The invariant of the approval service.
LEMMA ApprovalInvAlways == CrashSpec => []ApprovalInv
<1>1. ApprovalInv /\ [CrashNext]_vars => ApprovalInv'
  BY ApprovalInvStep
<1> QED BY <1>1, ApprovalStart, PTL DEF CrashSpec

-----------------------------------------------------------------------------
(***************************************************************************)
(* What it gives.                                                          *)
(***************************************************************************)

\* Every row of both services has its type, after any calls, also calls that
\* die half-way.
THEOREM ApprovalTypesHold == CrashSpec => []ApprovalTypeOK
<1>1. ApprovalInv => ApprovalTypeOK
  BY DEF ApprovalInv, ApprovalTypeOK, Request
<1> QED BY <1>1, ApprovalInvAlways, PTL

\* No chain of roles, no delegation and no crash lets somebody sign a level
\* for which he is neither superuser, nor holder of the role, nor the one it
\* was delegated to.
THEOREM SignaturesAreAuthorised == CrashSpec => []SignedWithAuthority
<1>1. ApprovalInv => SignedWithAuthority
  BY DEF ApprovalInv, Sound, AllAuthorised, Authorised, SignedWithAuthority
<1> QED BY <1>1, ApprovalInvAlways, PTL

\* However long the chain, a request is APPROVED only with an approving
\* signature for each of its levels, given in the order of the chain.
THEOREM ApprovedChainsAreSigned == CrashSpec => []ApprovedChainIsSigned
<1>1. ASSUME ApprovalInv, NEW a \in Approvals, approvals[a].status = "APPROVED"
      PROVE  LET r == approvals[a]
             IN  /\ \A k \in 1 .. Len(r.roles) : SignedAt(r, k)
                 /\ \A i, j \in 1 .. Len(r.decisions) :
                      i < j => r.decisions[i].level <= r.decisions[j].level
  <2> DEFINE r == approvals[a]
  <2>1. Sound(r)
    BY <1>1, RequestsDiffer DEF ApprovalInv, Submitted
  <2>2. r.level \in Nat /\ Len(r.roles) \in Nat
    BY <2>1 DEF Sound, Approval
  <2>3. r.level + 1 = Len(r.roles) /\ SignedAt(r, Len(r.roles)) /\ SignedBelow(r) /\ InOrder(r)
    BY <1>1, <2>1 DEF Sound, Finished
  <2> HIDE DEF r
  <2>4. ASSUME NEW k \in 1 .. Len(r.roles) PROVE SignedAt(r, k)
    <3>1. k = Len(r.roles) \/ k \in 1 .. r.level
      BY <2>2, <2>3
    <3> QED BY <2>3, <3>1 DEF SignedBelow
  <2> QED BY <2>3, <2>4 DEF InOrder, r
<1>2. ApprovalInv => ApprovedChainIsSigned
  BY <1>1 DEF ApprovedChainIsSigned, SignedAt
<1> QED BY <1>2, ApprovalInvAlways, PTL

\* A resolved request never changes again: no second decision, no late expiry,
\* no delegation, and no crash brings it back.
THEOREM ResolvedRequestsAreFinal == CrashSpec => ResolvedIsFinal
<1> DEFINE Kept == \A a \in Approvals :
             approvals[a].status \in Resolution => approvals'[a] = approvals[a]
<1>1. ASSUME ApprovalInv, [CrashNext]_vars PROVE [Kept]_vars
  <2>1. \A a \in Approvals : approvals[a].status \in Resolution => Submitted(a) /\ ~ IsPending(a)
    BY RequestsDiffer DEF Submitted, IsPending, Resolution
  <2>2. ASSUME NEW a \in Approvals, ~ Submitted(a) \/ IsPending(a),
               NEW r, approvals' = [approvals EXCEPT ![a] = r]
        PROVE  Kept
    BY <1>1, <2>1, <2>2 DEF ApprovalInv
  <2>3. ASSUME NEW a \in Approvals, ApprovalStep(a) \/ InterruptedStep(a), ~ Overdue(a)
        PROVE  Kept
    <3>1. /\ ~ Submitted(a) \/ IsPending(a)
          /\ \E w \in Workflows, s \in Fit : Store(w, a, s)
      BY <1>1, <2>3, CallsStore
    <3> QED BY <3>1, <2>2 DEF Store
  <2>4. ASSUME NEW a \in Approvals, Overdue(a) PROVE Kept
    BY <2>4, <1>1, <2>1 DEF Overdue, ApprovalInv
  <2>5. CASE UNCHANGED approvals
    BY <2>5
  <2> QED BY <1>1, <2>3, <2>4, <2>5 DEF CrashNext, ApprovalNext, vars
<1> QED BY <1>1, ApprovalInvAlways, PTL DEF CrashSpec, ResolvedIsFinal

-----------------------------------------------------------------------------
(***************************************************************************)
(* A workflow is APPROVED only by a request.  The commits of a call are of *)
(* two kinds: calm ones, which approve neither the request nor the         *)
(* workflow, and granted ones, which leave the request APPROVED and the    *)
(* ledger with at most one more entry to APPROVED.  Since the request is   *)
(* resolved before its workflow moves, there is no third kind.             *)
(***************************************************************************)
ApprovedEntries(ledger) == {i \in 1 .. Len(ledger) : ledger[i].to = "APPROVED"}
Approvings(ledger) == Cardinality(ApprovedEntries(ledger))

Calm(w) ==
  {s \in Fit : /\ s.approval.status # "APPROVED"
               /\ Approvings(s.ledger) = Approvings(history[w])
               /\ s.row.state = "APPROVED" => rows[w].state = "APPROVED"}

Granted(w) ==
  {s \in Fit : /\ s.approval.status = "APPROVED" /\ s.approval.workflow = w
               /\ Approvings(s.ledger) <= Approvings(history[w]) + 1}

\* An entry counts if it leads to APPROVED.
LEMMA ApprovingsAppend ==
  ASSUME NEW ledger \in Seq(Transition), NEW e \in Transition
  PROVE  /\ Approvings(ledger) \in Nat
         /\ Append(ledger, e) = ledger \o <<e>>
         /\ Append(ledger, e) \in Seq(Transition)
         /\ Approvings(Append(ledger, e)) =
              IF e.to = "APPROVED" THEN Approvings(ledger) + 1 ELSE Approvings(ledger)
<1> DEFINE n == Len(ledger)
           longer == Append(ledger, e)
<1>1. n \in Nat
  BY LenProperties
<1>2. /\ Len(longer) = n + 1 /\ longer[n + 1] = e
      /\ \A i \in 1 .. n : longer[i] = ledger[i]
      /\ longer = ledger \o <<e>> /\ longer \in Seq(Transition)
  OBVIOUS
<1>3. IsFiniteSet(1 .. n) /\ ApprovedEntries(ledger) \subseteq 1 .. n
  BY <1>1, FS_Interval DEF ApprovedEntries
<1>4. IsFiniteSet(ApprovedEntries(ledger)) /\ n + 1 \notin ApprovedEntries(ledger)
  BY <1>1, <1>3, FS_Subset
<1> HIDE DEF longer
<1>5. ApprovedEntries(longer) =
        IF e.to = "APPROVED"
        THEN ApprovedEntries(ledger) \cup {n + 1} ELSE ApprovedEntries(ledger)
  BY <1>1, <1>2 DEF ApprovedEntries
<1>6. /\ Approvings(ledger) \in Nat
      /\ Cardinality(ApprovedEntries(ledger) \cup {n + 1}) = Approvings(ledger) + 1
  BY <1>4, FS_AddElement, FS_CardinalityType DEF Approvings
<1> QED BY <1>2, <1>5, <1>6 DEF longer, Approvings

\* A change of the row alone is calm if it does not enter APPROVED, and a
\* granted commit may enter it.
LEMMA RowKind ==
  ASSUME NEW w, NEW s \in Fit, NEW row \in Row
  PROVE  /\ s \in Calm(w) /\ (row.state = "APPROVED" => rows[w].state = "APPROVED")
              => [s EXCEPT !.row = row] \in Calm(w)
         /\ s \in Granted(w) => [s EXCEPT !.row = row] \in Granted(w)
<1> DEFINE t == [s EXCEPT !.row = row]
<1>1. /\ t \in Fit /\ t.row = row /\ t.ledger = s.ledger /\ t.approval = s.approval
  <2>1. << >> \in Seq(Transition)
    OBVIOUS
  <2> QED BY <2>1, RowFits DEF Fit, StoredType
<1> HIDE DEF t
<1>2. s \in Calm(w) /\ (row.state = "APPROVED" => rows[w].state = "APPROVED") => t \in Calm(w)
  BY <1>1 DEF Calm
<1>3. s \in Granted(w) => t \in Granted(w)
  BY <1>1 DEF Granted
<1> QED BY <1>2, <1>3 DEF t

\* A calm commit with a request that is not APPROVED is calm.
LEMMA RequestKind ==
  ASSUME NEW w, NEW s \in Calm(w), NEW r, [s EXCEPT !.approval = r] \in Fit,
         r.status # "APPROVED"
  PROVE  [s EXCEPT !.approval = r] \in Calm(w)
<1> DEFINE t == [s EXCEPT !.approval = r]
<1>1. t \in Fit /\ t.row = s.row /\ t.ledger = s.ledger /\ t.approval = r
  BY DEF Calm, Fit, StoredType
<1> HIDE DEF t
<1>2. t \in Calm(w)
  BY <1>1 DEF Calm
<1> QED BY <1>2 DEF t

\* So is lifting the pause.
LEMMA AwakeKind ==
  ASSUME NEW w, NEW s \in Fit
  PROVE  /\ s \in Calm(w) => Awake(s) \in Calm(w)
         /\ s \in Granted(w) => Awake(s) \in Granted(w)
         /\ Awake(s).ledger = s.ledger
<1>1. s.row \in Row
  BY DEF Fit, StoredType
<1>2. Resumed(s.row) \in Row /\ Resumed(s.row).state = s.row.state
  BY <1>1 DEF Resumed, Row
<1>3. s \in Calm(w) => (s.row.state = "APPROVED" => rows[w].state = "APPROVED")
  BY DEF Calm
<1>4. Awake(s) = [s EXCEPT !.row = Resumed(s.row)]
  BY DEF Awake
<1>5. [s EXCEPT !.row = Resumed(s.row)].ledger = s.ledger
  BY DEF Fit, StoredType
<1> QED BY <1>1, <1>2, <1>3, <1>4, <1>5, RowKind

\* The commits of a move that does not lead to APPROVED are calm; after the
\* request was APPROVED, those of any move are granted.
LEMMA MoveKind ==
  ASSUME NEW w, NEW s \in Fit, NEW to \in WorkflowState, Approvings(history[w]) \in Nat
  PROVE  /\ s \in Calm(w) /\ to # "APPROVED" =>
              MoveCommits(s, to) \in Seq(Calm(w)) /\ MoveCommits(s, to)[2] \in Calm(w)
         /\ s \in Granted(w) /\ Approvings(s.ledger) = Approvings(history[w]) =>
              MoveCommits(s, to) \in Seq(Granted(w))
<1> DEFINE row   == MovedTo(s.row, to)
           moved == [s EXCEPT !.row = row]
           e     == Edge(s.row.state, to)
           entry == Append(s.ledger, e)
           told  == [moved EXCEPT !.ledger = entry]
<1>1. s \in StoredType /\ s.row \in Row /\ s.ledger \in Seq(Transition)
  BY DEF Fit, StoredType
<1>2. row \in Row /\ row.state = to /\ e \in Transition /\ e.to = to
  <2>1. row \in Row /\ e \in Transition
    BY <1>1, RowsWritten
  <2>2. row.state = to
    BY <1>1 DEF MovedTo, Row
  <2>3. e.to = to
    BY DEF Edge
  <2> QED BY <2>1, <2>2, <2>3
<1> HIDE DEF row, e
<1>3. moved \in Fit /\ moved.ledger = s.ledger /\ moved.approval = s.approval /\ moved.row = row
  BY <1>1, <1>2, RowFits DEF StoredType
<1>4. /\ s \in Calm(w) /\ to # "APPROVED" => moved \in Calm(w)
      /\ s \in Granted(w) => moved \in Granted(w)
  BY <1>2, RowKind
<1>5. /\ entry \in Seq(Transition)
      /\ Approvings(entry) = IF to = "APPROVED" THEN Approvings(s.ledger) + 1
                                                ELSE Approvings(s.ledger)
  BY <1>1, <1>2, ApprovingsAppend
<1>6. MoveCommits(s, to) = <<moved, told>>
  BY <1>3 DEF MoveCommits, row, e
<1> HIDE DEF moved, entry
<1>7. told \in Fit /\ told.ledger = entry /\ told.approval = moved.approval /\ told.row = moved.row
  BY <1>2, <1>3, <1>5, RowFits DEF Fit, StoredType
<1> HIDE DEF told
<1>8. CASE s \in Calm(w) /\ to # "APPROVED"
  <2>1. told \in Calm(w)
    BY <1>3, <1>4, <1>5, <1>7, <1>8 DEF Calm
  <2>2. <<moved, told>> \in Seq(Calm(w)) /\ s \notin Granted(w)
    BY <2>1, <1>4, <1>8 DEF Calm, Granted
  <2> QED BY <2>1, <2>2, <1>6
<1>9. CASE s \in Granted(w) /\ Approvings(s.ledger) = Approvings(history[w])
  <2>1. told \in Granted(w)
    BY <1>3, <1>4, <1>5, <1>7, <1>9 DEF Granted
  <2>2. <<moved, told>> \in Seq(Granted(w)) /\ s \notin Calm(w)
    BY <2>1, <1>4, <1>9 DEF Calm, Granted
  <2> QED BY <2>2, <1>6
<1> QED BY <1>8, <1>9

\* A cancellation of the workflow is calm.
LEMMA CancelKind ==
  ASSUME NEW w, NEW s \in Calm(w)
  PROVE  CancelWorkflowCommits(s) \in Seq(Calm(w))
<1> DEFINE row   == Cancelled(s.row)
           moved == [s EXCEPT !.row = row]
           e     == Edge(s.row.state, "CANCELLED")
           entry == Append(s.ledger, e)
           told  == [moved EXCEPT !.ledger = entry]
<1>1. s \in Fit /\ s.row \in Row /\ s.ledger \in Seq(Transition)
  BY DEF Calm, Fit, StoredType
<1>2. /\ "CANCELLED" \in WorkflowState
      /\ row \in Row /\ row.state = "CANCELLED" /\ e \in Transition /\ e.to = "CANCELLED"
  <2>1. "CANCELLED" \in WorkflowState
    BY DEF WorkflowState
  <2> QED BY <2>1, <1>1, RowsWritten DEF Cancelled, Row, Edge
<1> HIDE DEF row, e
<1>3. moved \in Fit /\ moved.ledger = s.ledger /\ moved.approval = s.approval /\ moved.row = row
  BY <1>1, <1>2, RowFits DEF Fit, StoredType
<1>4. moved \in Calm(w)
  BY <1>1, <1>2, RowKind
<1>5. entry \in Seq(Transition) /\ Approvings(entry) = Approvings(s.ledger)
  BY <1>1, <1>2, ApprovingsAppend
<1>6. CancelWorkflowCommits(s) = <<moved, told>> \/ CancelWorkflowCommits(s) = << >>
  BY <1>3 DEF CancelWorkflowCommits, row, e
<1> HIDE DEF moved, entry
<1>7. told \in Fit /\ told.ledger = entry /\ told.approval = moved.approval /\ told.row = moved.row
  BY <1>2, <1>3, <1>5, RowFits DEF Fit, StoredType
<1> HIDE DEF told
<1>8. told \in Calm(w)
  BY <1>3, <1>4, <1>5, <1>7 DEF Calm
<1>9. << >> \in Seq(Calm(w)) /\ <<moved, told>> \in Seq(Calm(w))
  BY <1>4, <1>8
<1> QED BY <1>6, <1>9

\* What a call starts from is calm, unless its request is APPROVED already.
LEMMA StoredKind ==
  ASSUME ApprovalInv, NEW w \in Workflows, NEW a \in Approvals,
         approvals[a].status # "APPROVED"
  PROVE  Stored(w, a) \in Calm(w) /\ Approvings(history[w]) \in Nat
<1>1. Stored(w, a) \in Fit
  BY StoredFits
<1>2. history[w] \in Seq(Transition)
  BY DEF ApprovalInv, TypeOK
<1>3. Approvings(history[w]) \in Nat
  <2>1. PICK e : e \in Transition
    <3>1. Edge("RECEIVED", "RECEIVED") \in Transition
      BY DEF Edge, Transition, WorkflowState
    <3> QED BY <3>1
  <2> QED BY <1>2, <2>1, ApprovingsAppend
<1> QED BY <1>1, <1>3 DEF Calm, Stored

\* create_request asks and approves nothing.
LEMMA CreateKind ==
  ASSUME ApprovalInv, NEW w \in Workflows, NEW a \in Approvals, NEW roles \in Chains,
         ~ Submitted(a)
  PROVE  CreateCommits(w, a, roles) \in Seq(Calm(w))
<1> DEFINE s       == Stored(w, a)
           waiting == MoveCommits(s, "WAITING_FOR_APPROVAL")
           r       == NewApproval(w, roles)
           asked   == [waiting[2] EXCEPT !.approval = r]
           held    == [asked EXCEPT !.row = Paused(asked.row)]
<1>1. "WAITING_FOR_APPROVAL" \in WorkflowState
  BY DEF WorkflowState
<1>2. s \in Calm(w) /\ s \in Fit /\ Approvings(history[w]) \in Nat
  BY RequestsDiffer, StoredKind, StoredFits DEF Submitted
<1>3. CreateCommits(w, a, roles) = waiting \o <<asked, held>>
  BY DEF CreateCommits
<1> HIDE DEF s
<1>4. waiting \in Seq(Calm(w)) /\ waiting[2] \in Calm(w)
  BY <1>1, <1>2, MoveKind
<1> HIDE DEF waiting
<1>5. r.status # "APPROVED" /\ Sound(r)
  BY NewIsSound DEF NewApproval
<1> HIDE DEF r
<1>6. asked \in Fit
  BY <1>4, <1>5, RequestFits DEF Calm
<1>7. asked \in Calm(w)
  BY <1>4, <1>5, <1>6, RequestKind
<1> HIDE DEF asked
<1>8. asked.row \in Row /\ asked \in Fit /\ (asked.row.state = "APPROVED" => rows[w].state = "APPROVED")
  BY <1>7 DEF Calm, Fit, StoredType
<1>9. Paused(asked.row) \in Row /\ Paused(asked.row).state = asked.row.state
  BY <1>8 DEF Paused, Row
<1>10. held \in Calm(w)
  BY <1>7, <1>8, <1>9, RowKind
<1> HIDE DEF held
<1> QED BY <1>3, <1>4, <1>7, <1>10

\* decide is calm up to the resolution; if that approves, what follows is granted.
LEMMA DecideKind ==
  ASSUME ApprovalInv, NEW a \in Approvals, NEW u \in Users, NEW approve \in BOOLEAN,
         DecisionAllowed(a, u)
  PROVE  LET w == approvals[a].workflow
         IN  DecideCommits(w, a, u, approve) \in Seq(Calm(w) \cup Granted(w))
<1> DEFINE w        == approvals[a].workflow
           s        == Stored(w, a)
           signed   == Signed(s, u, approve)
           outcome  == IF approve THEN "APPROVED" ELSE "REJECTED"
           resolved == Resolved(signed, outcome)
           commits  == DecideCommits(w, a, u, approve)
<1>1. /\ s \in Fit /\ s.approval = approvals[a] /\ Sound(approvals[a]) /\ w \in Workflows
      /\ approvals[a].status = "PENDING" /\ CanDecide(approvals[a], u)
  BY PendingIsSound DEF DecisionAllowed, IsPending
<1>2. s \in Calm(w) /\ Approvings(history[w]) \in Nat
  BY <1>1, StoredKind
<1>3. commits \in Seq(Fit)
  BY DecideCommitsFit
<1> DEFINE q == signed.approval
<1>4. /\ q.status = "PENDING" /\ q.workflow = w
      /\ signed = [s EXCEPT !.approval = q]
  BY <1>1 DEF Signed, Fit, StoredType, Sound, Approval
<1>5. signed \in Fit /\ signed \in Calm(w)
  <2> HIDE DEF w, s, q
  <2>1. signed \in Fit
    BY <1>1, SigningIsSound
  <2> HIDE DEF signed
  <2>2. [s EXCEPT !.approval = q] \in Fit /\ q.status # "APPROVED"
    BY <2>1, <1>4
  <2> QED BY <1>2, <1>4, <2>1, <2>2, RequestKind
<1>6. CASE approve /\ MoreLevels(approvals[a])
  <2>1. commits = <<signed, Advanced(signed)>>
    BY <1>6 DEF DecideCommits
  <2>2. Advanced(signed) \in Fit
    BY <1>3, <2>1
  <2> DEFINE next == [q EXCEPT !.level = @ + 1, !.delegate = NoUser]
  <2>3. Advanced(signed) = [signed EXCEPT !.approval = next]
    BY DEF Advanced
  <2>4. next.status = q.status
    <3>1. q \in Approval
      BY <1>5, <1>4, RequestsDiffer DEF Fit, Sound
    <3> HIDE DEF q
    <3> QED BY <3>1 DEF Approval
  <2> HIDE DEF signed, commits, next, w
  <2>5. Advanced(signed) \in Calm(w)
    BY <1>4, <1>5, <2>2, <2>3, <2>4, RequestKind
  <2> QED BY <1>5, <2>1, <2>5 DEF commits, w
<1>7. CASE ~ (approve /\ MoreLevels(approvals[a]))
  <2> DEFINE moves == MoveCommits(Awake(resolved), outcome)
             next  == [q EXCEPT !.status = outcome]
  <2>1. commits = <<signed, resolved, Awake(resolved)>> \o moves
    BY <1>7 DEF DecideCommits
  <2>2. outcome \in WorkflowState
    BY DEF WorkflowState
  <2>3. resolved = [signed EXCEPT !.approval = next]
    BY DEF Resolved
  <2>4. next.status = outcome /\ next.workflow = w
    <3>1. q \in Approval
      BY <1>5, <1>4, RequestsDiffer DEF Fit, Sound
    <3> HIDE DEF q, w
    <3> QED BY <3>1, <1>4 DEF Approval
  <2>5. resolved \in Fit
    <3> HIDE DEF signed, resolved, moves
    <3>1. commits[2] = resolved /\ 2 \in 1 .. Len(commits)
      BY <2>1, <1>3
    <3> QED BY <1>3, <3>1
  <2>6. outcome = "APPROVED" \/ outcome = "REJECTED"
    OBVIOUS
  <2> DEFINE Kind == IF outcome = "APPROVED" THEN Granted(w) ELSE Calm(w)
  <2>7. resolved \in Kind /\ Approvings(resolved.ledger) = Approvings(history[w])
    <3> HIDE DEF signed, next, w, outcome
    <3>1. resolved.ledger = signed.ledger /\ resolved.approval = next
      BY <2>3, <1>5 DEF Fit, StoredType
    <3>2. Approvings(resolved.ledger) = Approvings(history[w])
      BY <3>1, <1>5 DEF Calm
    <3>3. CASE outcome = "APPROVED"
      <4> HIDE DEF resolved
      <4> QED BY <3>1, <3>2, <3>3, <2>4, <2>5, <1>2 DEF Granted
    <3>4. CASE outcome # "APPROVED"
      <4>1. [signed EXCEPT !.approval = next] \in Fit /\ next.status # "APPROVED"
        BY <3>4, <2>3, <2>4, <2>5
      <4>2. [signed EXCEPT !.approval = next] \in Calm(w)
        BY <4>1, <1>5, RequestKind
      <4> QED BY <3>2, <3>4, <4>2, <2>3
    <3> QED BY <3>2, <3>3, <3>4
  <2> HIDE DEF signed, commits, outcome, w, resolved
  <2>8. /\ Awake(resolved) \in Fit /\ Awake(resolved) \in Kind
        /\ Approvings(Awake(resolved).ledger) = Approvings(history[w])
    BY <2>5, <2>7, AwakeKind, AwakeFits
  <2>9. moves \in Seq(Kind)
    BY <2>2, <2>8, <1>2, MoveKind
  <2> HIDE DEF moves
  <2>10. /\ <<signed, resolved, Awake(resolved)>> \in Seq(Calm(w) \cup Granted(w))
         /\ moves \in Seq(Calm(w) \cup Granted(w))
    BY <1>5, <2>7, <2>8, <2>9
  <2> QED BY <2>1, <2>10 DEF commits, w
<1> QED BY <1>6, <1>7

\* delegate is calm.
LEMMA DelegateKind ==
  ASSUME ApprovalInv, NEW a \in Approvals, NEW u \in Users, NEW target \in Users,
         DelegationAllowed(a, u, target)
  PROVE  LET w == approvals[a].workflow
         IN  DelegateCommits(w, a, target) \in Seq(Calm(w) \cup Granted(w))
<1> DEFINE w == approvals[a].workflow
           s == Stored(w, a)
           r == s.approval
           next == [r EXCEPT !.delegate = target,
                             !.grants = r.grants \cup {<<r.level, target>>}]
           delegated == [s EXCEPT !.approval = next]
           commits == DelegateCommits(w, a, target)
<1>1. /\ s \in Fit /\ s.approval = approvals[a] /\ Sound(r) /\ w \in Workflows
      /\ approvals[a].status = "PENDING"
  BY PendingIsSound DEF DelegationAllowed, IsPending
<1>2. s \in Calm(w)
  BY <1>1, StoredKind
<1>3. commits = <<delegated>> /\ next.status = "PENDING"
  BY <1>1 DEF DelegateCommits, Fit, StoredType, Sound, Approval
<1>4. delegated \in Fit
  <2>1. commits \in Seq(Fit) /\ Len(commits) = 1
    BY DelegateCommitsFit
  <2> HIDE DEF commits, delegated
  <2>2. commits[1] \in Fit
    BY <2>1
  <2> QED BY <2>2, <1>3
<1> HIDE DEF next, s, w
<1>5. delegated \in Calm(w)
  BY <1>2, <1>3, <1>4, RequestKind
<1> HIDE DEF delegated, commits
<1> QED BY <1>3, <1>5 DEF commits, w

\* So are cancel and the expiry, to the end.
LEMMA EndKind ==
  ASSUME ApprovalInv, NEW a \in Approvals, IsPending(a)
  PROVE  LET w == approvals[a].workflow
         IN  /\ CancelCommits(w, a) \in Seq(Calm(w) \cup Granted(w))
             /\ ExpireCommits(w, a) \in Seq(Calm(w) \cup Granted(w))
<1> DEFINE w == approvals[a].workflow
           s == Stored(w, a)
<1>1. /\ s \in Fit /\ Sound(s.approval) /\ s.row = rows[w] /\ w \in Workflows
      /\ approvals[a].status = "PENDING"
  BY PendingIsSound DEF IsPending
<1>2. s \in Calm(w) /\ Approvings(history[w]) \in Nat
  BY <1>1, StoredKind
<1>3. ASSUME NEW status \in {"CANCELLED", "EXPIRED"}
      PROVE  /\ Awake(Resolved(s, status)) \in Calm(w)
             /\ <<Resolved(s, status), Awake(Resolved(s, status))>> \in Seq(Calm(w))
  <2> DEFINE next     == [s.approval EXCEPT !.status = status]
             resolved == Resolved(s, status)
  <2>1. status \in Resolution /\ status # "APPROVED"
    BY DEF Resolution
  <2>2. resolved = [s EXCEPT !.approval = next]
    BY DEF Resolved
  <2> HIDE DEF s, w
  <2>3. next.status = status
    BY <1>1 DEF Sound, Approval
  <2>4. resolved \in Fit
    BY <1>1, <2>1, ResolvingIsSound
  <2> HIDE DEF next, resolved
  <2>5. resolved \in Calm(w)
    BY <1>2, <2>1, <2>2, <2>3, <2>4, RequestKind
  <2>6. Awake(resolved) \in Calm(w)
    BY <2>4, <2>5, AwakeKind
  <2> QED BY <2>5, <2>6 DEF resolved
<1>4. CancelCommits(w, a) \in Seq(Calm(w))
  <2> DEFINE resolved == Resolved(s, "CANCELLED")
             moves == CancelWorkflowCommits(Awake(resolved))
  <2>1. CancelCommits(w, a) = <<resolved, Awake(resolved)>> \o moves
    BY DEF CancelCommits
  <2> HIDE DEF s, w
  <2>2. <<resolved, Awake(resolved)>> \in Seq(Calm(w)) /\ Awake(resolved) \in Calm(w)
    BY <1>3
  <2> HIDE DEF resolved
  <2>3. moves \in Seq(Calm(w))
    BY <2>2, CancelKind
  <2> HIDE DEF moves
  <2> QED BY <2>1, <2>2, <2>3
<1>5. ExpireCommits(w, a) \in Seq(Calm(w))
  <2> DEFINE resolved == Resolved(s, "EXPIRED")
             moves == IF rows[w].state = "WAITING_FOR_APPROVAL"
                      THEN MoveCommits(Awake(resolved), "EXPIRED") ELSE << >>
  <2>1. ExpireCommits(w, a) = <<resolved, Awake(resolved)>> \o moves
    BY DEF ExpireCommits
  <2>2. "EXPIRED" \in WorkflowState
    BY DEF WorkflowState
  <2> HIDE DEF s, w
  <2>3. <<resolved, Awake(resolved)>> \in Seq(Calm(w)) /\ Awake(resolved) \in Calm(w)
    BY <1>3
  <2> HIDE DEF resolved
  <2>4. MoveCommits(Awake(resolved), "EXPIRED") \in Seq(Calm(w)) /\ << >> \in Seq(Calm(w))
    <3>1. Awake(resolved) \in Fit
      BY <2>3 DEF Calm
    <3>2. MoveCommits(Awake(resolved), "EXPIRED") \in Seq(Calm(w))
      BY <1>2, <2>2, <2>3, <3>1, MoveKind
    <3> QED BY <3>2
  <2>5. moves \in Seq(Calm(w))
    BY <2>4
  <2> HIDE DEF moves
  <2> QED BY <2>1, <2>3, <2>5
<1> QED BY <1>4, <1>5

\* What a call, whole or cut short, stores is calm or granted.
LEMMA SomeKind ==
  ASSUME NEW w, NEW a, NEW S, NEW commits \in Seq(S), Len(commits) > 0,
         Completes(w, a, commits) \/ Dies(w, a, commits)
  PROVE  \E s \in S : Store(w, a, s)
<1>1. Len(commits) \in Nat /\ \A n \in 1 .. Len(commits) : commits[n] \in S
  OBVIOUS
<1>2. \E n \in 1 .. Len(commits) : Store(w, a, commits[n])
  BY <1>1 DEF Completes, Dies
<1> QED BY <1>1, <1>2

\* Whatever a call of the approval service leaves behind is calm or granted.
LEMMA CallsAreCalmOrGranted ==
  ASSUME ApprovalInv, NEW a \in Approvals, ApprovalStep(a) \/ InterruptedStep(a), ~ Overdue(a)
  PROVE  \E w \in Workflows : \E s \in Calm(w) \cup Granted(w) : Store(w, a, s)
<1> DEFINE w       == approvals[a].workflow
           Kind(v) == Calm(v) \cup Granted(v)
           Goal    == \E v \in Workflows : \E s \in Kind(v) : Store(v, a, s)
<1> HIDE DEF Kind
<1> SUFFICES Goal
  BY DEF Kind
<1>0. created \subseteq Workflows /\ (IsPending(a) => w \in Workflows)
  <2>1. created \subseteq Workflows
    BY DEF ApprovalInv, TypeOK
  <2>2. IsPending(a) => approvals[a].workflow \in Workflows
    BY PendingIsSound
  <2> QED BY <2>1, <2>2
<1>1. ASSUME NEW v \in created, NEW roles \in Chains, CanCreate(v, a),
             \/ Completes(v, a, CreateCommits(v, a, roles))
             \/ Dies(v, a, CreateCommits(v, a, roles))
      PROVE  Goal
  <2>1. v \in Workflows /\ ~ Submitted(a)
    BY <1>0, <1>1 DEF CanCreate
  <2> DEFINE commits == CreateCommits(v, a, roles)
  <2>2. commits \in Seq(Calm(v)) /\ Len(commits) > 0
    BY <1>1, <2>1, CreateCommitsFit, CreateKind
  <2> HIDE DEF commits
  <2>3. commits \in Seq(Kind(v))
    BY <2>2 DEF Kind
  <2>4. \E s \in Kind(v) : Store(v, a, s)
    BY <1>1, <2>2, <2>3, SomeKind DEF commits
  <2> QED BY <2>1, <2>4
<1> DEFINE decide(u, approve) == DecideCommits(w, a, u, approve)
<1>2. ASSUME NEW u \in Users, NEW approve \in BOOLEAN, DecisionAllowed(a, u),
             Completes(w, a, decide(u, approve)) \/ Dies(w, a, decide(u, approve))
      PROVE  Goal
  <2> DEFINE commits == decide(u, approve)
  <2>1. w \in Workflows
    BY <1>0, <1>2 DEF DecisionAllowed
  <2>2. commits \in Seq(Kind(w)) /\ Len(commits) > 0
    BY <1>2, DecideCommitsFit, DecideKind DEF Kind
  <2>3. Completes(w, a, commits) \/ Dies(w, a, commits)
    BY <1>2
  <2> HIDE DEF commits, w
  <2>4. \E s \in Kind(w) : Store(w, a, s)
    BY <2>2, <2>3, SomeKind
  <2> QED BY <2>1, <2>4
<1>3. ASSUME NEW u \in Users, NEW target \in Users, DelegationAllowed(a, u, target),
             Completes(w, a, DelegateCommits(w, a, target))
      PROVE  Goal
  <2> DEFINE commits == DelegateCommits(w, a, target)
  <2>1. w \in Workflows
    BY <1>0, <1>3 DEF DelegationAllowed
  <2>2. commits \in Seq(Kind(w)) /\ Len(commits) = 1
    BY <1>3, DelegateCommitsFit, DelegateKind DEF Kind
  <2>3. Completes(w, a, commits)
    BY <1>3
  <2> HIDE DEF commits, w
  <2>4. \E s \in Kind(w) : Store(w, a, s)
    BY <2>2, <2>3, SomeKind
  <2> QED BY <2>1, <2>4
<1>4. ASSUME IsPending(a), NEW commits \in {CancelCommits(w, a), ExpireCommits(w, a)},
             Completes(w, a, commits) \/ Dies(w, a, commits)
      PROVE  Goal
  <2>1. w \in Workflows
    BY <1>0, <1>4
  <2>2. commits \in Seq(Kind(w)) /\ Len(commits) > 0
    BY <1>4, EndCommitsFit, EndKind DEF Kind
  <2> HIDE DEF w
  <2>3. \E s \in Kind(w) : Store(w, a, s)
    BY <1>4, <2>2, SomeKind
  <2> QED BY <2>1, <2>3
<1> HIDE DEF Goal
<1>5. CASE ApprovalStep(a)
  <2>1. CASE \E v \in created, roles \in Chains : CreateRequest(v, a, roles)
    BY <2>1, <1>1 DEF CreateRequest
  <2>2. CASE \E u \in Users, approve \in BOOLEAN : Decide(a, u, approve)
    BY <2>2, <1>2 DEF Decide
  <2>3. CASE \E u, target \in Users : Delegate(a, u, target)
    BY <2>3, <1>3 DEF Delegate
  <2>4. CASE (\E u \in Users : Cancel(a, u)) \/ Expire(a)
    BY <2>4, <1>4 DEF Cancel, CancellationAllowed, Expire, ExpiryDue
  <2> QED BY <1>5, <2>1, <2>2, <2>3, <2>4 DEF ApprovalStep
<1>6. CASE InterruptedStep(a)
  BY <1>6, <1>1, <1>2, <1>4 DEF InterruptedStep, CancellationAllowed, ExpiryDue
<1> QED BY <1>5, <1>6

\* A call of the workflow service that is not asked for APPROVED approves no
\* workflow.
LEMMA ServiceApprovesNone ==
  ASSUME "APPROVED" \notin CallerTargets, TypeOK, ServiceNext, NEW v \in Workflows
  PROVE  /\ Approvings(history'[v]) = Approvings(history[v])
         /\ rows'[v].state = "APPROVED" => rows[v].state = "APPROVED"
<1> DEFINE Goal == /\ Approvings(history'[v]) = Approvings(history[v])
                   /\ rows'[v].state = "APPROVED" => rows[v].state = "APPROVED"
<1> SUFFICES Goal
  OBVIOUS
<1>a. /\ created \subseteq Workflows /\ rows \in [Workflows -> Row]
      /\ history \in [Workflows -> Seq(Transition)]
      /\ clarifications \in [Clarifications -> Clarification]
      /\ \A u \in Workflows : rows[u] \in Row /\ rows[u].state \in WorkflowState
      /\ \A u \in Workflows : history[u] \in Seq(Transition)
  BY DEF TypeOK, Row
<1>b. \A s, t \in WorkflowState : Edge(s, t) \in Transition /\ Edge(s, t).to = t
  BY DEF Edge, Transition
<1>c. {"RECEIVED", "CLASSIFYING", "NEEDS_CLARIFICATION", "CANCELLED", "FAILED",
       "RETRY_SCHEDULED"} \subseteq WorkflowState
  BY DEF WorkflowState
<1>1. CASE UNCHANGED <<rows, history>>
  BY <1>1
<1>2. ASSUME NEW w \in Workflows, NEW row, WriteRow(w, row), row.state = rows[w].state
      PROVE  Goal
  BY <1>2, <1>a DEF WriteRow
<1>3. ASSUME NEW w \in Workflows, NEW row, NEW added,
             WriteMove(w, row, added), row.state # "APPROVED",
             \/ \E e \in Transition : added = <<e>> /\ e.to # "APPROVED"
             \/ \E e, f \in Transition :
                  added = <<e, f>> /\ e.to # "APPROVED" /\ f.to # "APPROVED"
      PROVE  Goal
  <2>1. Approvings(history[w] \o added) = Approvings(history[w])
    <3>1. ASSUME NEW ledger \in Seq(Transition), NEW e \in Transition, e.to # "APPROVED"
          PROVE  /\ ledger \o <<e>> \in Seq(Transition)
                 /\ Approvings(ledger \o <<e>>) = Approvings(ledger)
      BY <3>1, ApprovingsAppend
    <3>2. CASE \E e \in Transition : added = <<e>> /\ e.to # "APPROVED"
      BY <3>1, <3>2, <1>a
    <3>3. ASSUME NEW e \in Transition, NEW f \in Transition, added = <<e, f>>,
                 e.to # "APPROVED", f.to # "APPROVED"
          PROVE  Approvings(history[w] \o added) = Approvings(history[w])
      <4>1. history[w] \o <<e, f>> = (history[w] \o <<e>>) \o <<f>>
        BY <1>a, TwoEntries
      <4> DEFINE once == history[w] \o <<e>>
      <4>2. once \in Seq(Transition) /\ Approvings(once) = Approvings(history[w])
        BY <3>1, <3>3, <1>a
      <4>3. added = <<e, f>> /\ history[w] \o <<e, f>> = once \o <<f>>
        BY <4>1, <3>3
      <4> HIDE DEF once
      <4>4. Approvings(once \o <<f>>) = Approvings(once)
        BY <4>2, <3>1, <3>3
      <4> QED BY <4>2, <4>3, <4>4
    <3> QED BY <3>2, <3>3, <1>3
  <2>2. rows'[w] = row /\ history'[w] = history[w] \o added
    BY <1>3, <1>a DEF WriteMove
  <2>3. v # w => rows'[v] = rows[v] /\ history'[v] = history[v]
    BY <1>3, <1>a DEF WriteMove
  <2> QED BY <1>3, <2>1, <2>2, <2>3
<1>4. ASSUME NEW w \in created, WorkflowStep(w) PROVE Goal
  <2>1. w \in Workflows /\ rows[w] \in Row /\ rows[w].state \in WorkflowState
    BY <1>a
  <2>2. ASSUME NEW to \in CallerTargets, TransitionWorkflow(w, to) PROVE Goal
    <3>1. to \in WorkflowState /\ to # "APPROVED"
      BY CallerTargetsAssumption
    <3>2. MovedTo(rows[w], to).state = to
      BY <2>1 DEF MovedTo, Row
    <3>3. WriteMove(w, MovedTo(rows[w], to), <<Edge(rows[w].state, to)>>)
      BY <2>2 DEF TransitionWorkflow
    <3> QED BY <2>1, <3>1, <3>2, <3>3, <1>3, <1>b
  <2>3. CASE SetIntent(w) \/ PauseWorkflow(w) \/ ResumeWorkflow(w)
    <3>1. /\ [rows[w] EXCEPT !.intent = TRUE].state = rows[w].state
          /\ Paused(rows[w]).state = rows[w].state
          /\ Resumed(rows[w]).state = rows[w].state
      BY <2>1 DEF Row, Paused, Resumed
    <3> QED BY <2>1, <2>3, <3>1, <1>2 DEF SetIntent, PauseWorkflow, ResumeWorkflow
  <2>4. CASE CancelWorkflow(w)
    <3>1. Cancelled(rows[w]).state = "CANCELLED"
      BY <2>1 DEF Cancelled, Row
    <3>2. WriteMove(w, Cancelled(rows[w]), <<Edge(rows[w].state, "CANCELLED")>>)
      BY <2>4 DEF CancelWorkflow
    <3> QED BY <2>1, <3>1, <3>2, <1>3, <1>b, <1>c
  <2>5. CASE RetryWorkflow(w)
    <3> DEFINE scheduled == RetryScheduled(rows[w])
               first     == Edge("FAILED", "RETRY_SCHEDULED")
               second    == Edge("RETRY_SCHEDULED", "RECEIVED")
               restarted == MovedTo(scheduled, "RECEIVED")
    <3>1. /\ first \in Transition /\ first.to # "APPROVED"
          /\ second \in Transition /\ second.to # "APPROVED"
      BY <1>b, <1>c
    <3>2. scheduled \in Row /\ scheduled.state # "APPROVED"
      BY <2>1, RetryScheduledIsRow
    <3>3. \/ WriteMove(w, restarted, <<first, second>>)
          \/ WriteMove(w, scheduled, <<first>>)
      BY <2>5 DEF RetryWorkflow
    <3> HIDE DEF first, second, scheduled
    <3>4. restarted.state # "APPROVED"
      BY <3>2 DEF MovedTo, Row
    <3> HIDE DEF restarted
    <3>5. CASE WriteMove(w, restarted, <<first, second>>)
      BY <2>1, <3>1, <3>4, <3>5, <1>3
    <3>6. CASE WriteMove(w, scheduled, <<first>>)
      BY <2>1, <3>1, <3>2, <3>6, <1>3
    <3> QED BY <3>3, <3>5, <3>6
  <2>6. CASE \E c \in Clarifications : RequestClarification(w, c)
    BY <2>6, <1>1 DEF RequestClarification
  <2> HIDE DEF Goal
  <2> QED BY <1>4, <2>2, <2>3, <2>4, <2>5, <2>6 DEF WorkflowStep
<1>5. ASSUME NEW c \in Clarifications, RespondToClarification(c) PROVE Goal
  <2> DEFINE w     == clarifications[c].workflow
             awake == Resumed(rows[w])
             row   == MovedTo(awake, "CLASSIFYING")
             e     == Edge("NEEDS_CLARIFICATION", "CLASSIFYING")
  <2>1. w \in Workflows /\ rows[w] \in Row
    BY <1>a DEF Clarification
  <2>2. awake \in Row /\ awake.state = rows[w].state
    BY <2>1 DEF Resumed, Row
  <2>3. row.state = "CLASSIFYING"
    <3> HIDE DEF awake
    <3> QED BY <2>2 DEF MovedTo, Row
  <2>4. e \in Transition /\ e.to # "APPROVED"
    BY <1>b, <1>c
  <2>5. WriteMove(w, row, <<e>>) \/ WriteRow(w, awake)
    BY <1>5 DEF RespondToClarification
  <2> HIDE DEF w, awake, row, e
  <2>6. CASE WriteMove(w, row, <<e>>)
    BY <2>1, <2>3, <2>4, <2>6, <1>3
  <2>7. CASE WriteRow(w, awake)
    BY <2>1, <2>2, <2>7, <1>2
  <2> QED BY <2>5, <2>6, <2>7
<1>6. CASE \E w \in Workflows : CreateWorkflow(w)
  BY <1>6, <1>1 DEF CreateWorkflow
<1>7. CASE \E c \in Clarifications : ClarificationOverdue(c)
  BY <1>7, <1>1 DEF ClarificationOverdue
<1> HIDE DEF Goal
<1> QED BY <1>4, <1>5, <1>6, <1>7 DEF ServiceNext, ClarificationStep

\* The property, with the count of the entries by its short name.
LEMMA ApprovedOnlyByRequestMeans ==
  ApprovedOnlyByRequest <=>
    \A w \in Workflows :
      /\ Approvings(history[w]) <= Cardinality(With("APPROVED", w))
      /\ rows[w].state = "APPROVED" => With("APPROVED", w) # {}
  BY Zenon DEF ApprovedOnlyByRequest, Times, Approvings, ApprovedEntries

\* What is stored of a call keeps a workflow APPROVED only by a request.
LEMMA StoreApprovesByRequest ==
  ASSUME IsFiniteSet(Approvals), ApprovalInv, ApprovedOnlyByRequest,
         NEW a \in Approvals, ~ Submitted(a) \/ IsPending(a),
         NEW w \in Workflows, NEW s \in Calm(w) \cup Granted(w), Store(w, a, s)
  PROVE  ApprovedOnlyByRequest'
<1>1. /\ rows \in [Workflows -> Row] /\ history \in [Workflows -> Seq(Transition)]
      /\ approvals \in [Approvals -> Request]
  BY DEF ApprovalInv, TypeOK
<1>2. approvals[a].status # "APPROVED"
  BY RequestsDiffer DEF Submitted, IsPending
<1>3. /\ rows'[w] = s.row /\ history'[w] = s.ledger /\ approvals'[a] = s.approval
      /\ \A v \in Workflows : v # w => rows'[v] = rows[v] /\ history'[v] = history[v]
      /\ \A b \in Approvals : b # a => approvals'[b] = approvals[b]
  BY <1>1 DEF Store
<1>4. \A v : IsFiniteSet(With("APPROVED", v)) /\ Cardinality(With("APPROVED", v)) \in Nat
  BY FS_Subset, FS_CardinalityType DEF With
<1>5. \A v \in Workflows : /\ Approvings(history[v]) \in Nat
                           /\ Approvings(history[v]) <= Cardinality(With("APPROVED", v))
                           /\ rows[v].state = "APPROVED" => With("APPROVED", v) # {}
  BY ApprovedOnlyByRequestMeans, StoredKind, <1>2
<1>6. ASSUME NEW v \in Workflows
      PROVE  /\ Approvings(history'[v]) <= Cardinality(With("APPROVED", v)')
             /\ rows'[v].state = "APPROVED" => With("APPROVED", v)' # {}
  <2>1. CASE s \in Calm(w)
    <3>1. With("APPROVED", v)' = With("APPROVED", v)
      BY <2>1, <1>2, <1>3 DEF With, Calm
    <3>2. CASE v = w
      BY <2>1, <3>1, <3>2, <1>3, <1>5 DEF Calm
    <3>3. CASE v # w
      BY <3>1, <3>3, <1>3, <1>5
    <3> QED BY <3>2, <3>3
  <2>2. CASE s \in Granted(w)
    <3>1. s.approval.status = "APPROVED" /\ s.approval.workflow = w
          /\ Approvings(s.ledger) <= Approvings(history[w]) + 1
      BY <2>2 DEF Granted
    <3>2. CASE v = w
      <4>1. With("APPROVED", w)' = With("APPROVED", w) \cup {a} /\ a \notin With("APPROVED", w)
        BY <3>1, <1>2, <1>3 DEF With
      <4>2. Cardinality(With("APPROVED", w) \cup {a}) = Cardinality(With("APPROVED", w)) + 1
        BY <4>1, <1>4, FS_AddElement
      <4>3. Approvings(s.ledger) \in Nat
        <5>1. s.ledger \in Seq(Transition)
          BY <2>2 DEF Granted, Fit, StoredType
        <5>2. Edge("RECEIVED", "RECEIVED") \in Transition
          BY DEF Edge, Transition, WorkflowState
        <5> QED BY <5>1, <5>2, ApprovingsAppend
      <4> DEFINE n == Cardinality(With("APPROVED", w))
                 m == Approvings(s.ledger)
                 before == Approvings(history[w])
      <4>4. n \in Nat /\ m \in Nat /\ before \in Nat /\ before <= n /\ m <= before + 1
        BY <4>3, <1>4, <1>5, <3>1
      <4>5. Cardinality(With("APPROVED", w)') = n + 1
        BY <4>1, <4>2
      <4>6. Approvings(history'[w]) = m
        BY <1>3
      <4> HIDE DEF n, m, before
      <4>7. Approvings(history'[w]) <= Cardinality(With("APPROVED", w)')
        BY <4>4, <4>5, <4>6
      <4>8. With("APPROVED", w)' # {}
        BY <4>1
      <4> QED BY <4>7, <4>8, <3>2
    <3>3. CASE v # w
      <4>1. With("APPROVED", v)' = With("APPROVED", v)
        BY <3>1, <3>3, <1>2, <1>3 DEF With
      <4> QED BY <4>1, <3>3, <1>3, <1>5
    <3> QED BY <3>2, <3>3
  <2> QED BY <2>1, <2>2
<1> QED BY <1>6 DEF ApprovedOnlyByRequest, Times, Approvings, ApprovedEntries

\* Every step keeps it, when nobody asks transition_workflow for APPROVED.
LEMMA ApprovedOnlyByRequestStep ==
  ASSUME IsFiniteSet(Approvals), "APPROVED" \notin CallerTargets,
         ApprovalInv, ApprovedOnlyByRequest, [CrashNext]_vars
  PROVE  ApprovedOnlyByRequest'
<1>1. CASE ServiceNext /\ UNCHANGED approvals
  <2>1. \A v \in Workflows : /\ Approvings(history'[v]) = Approvings(history[v])
                             /\ rows'[v].state = "APPROVED" => rows[v].state = "APPROVED"
    BY <1>1, ServiceApprovesNone DEF ApprovalInv
  <2>2. \A v : With("APPROVED", v)' = With("APPROVED", v)
    BY <1>1 DEF With
  <2> QED BY <2>1, <2>2, ApprovedOnlyByRequestMeans
        DEF ApprovedOnlyByRequest, Times, Approvings, ApprovedEntries
<1>2. ASSUME NEW a \in Approvals, ApprovalStep(a) \/ InterruptedStep(a), ~ Overdue(a)
      PROVE  ApprovedOnlyByRequest'
  <2>1. ~ Submitted(a) \/ IsPending(a)
    BY <1>2, CallsStore
  <2>2. PICK w \in Workflows : \E s \in Calm(w) \cup Granted(w) : Store(w, a, s)
    BY <1>2, CallsAreCalmOrGranted
  <2>3. PICK s \in Calm(w) \cup Granted(w) : Store(w, a, s)
    BY <2>2
  <2> QED BY <2>1, <2>3, StoreApprovesByRequest
<1>3. CASE \E a \in Approvals : Overdue(a)
  <2>1. PICK a \in Approvals : Overdue(a)
    BY <1>3
  <2>2. /\ UNCHANGED <<rows, history>>
        /\ \A b \in Approvals : /\ approvals'[b].status = approvals[b].status
                                /\ approvals'[b].workflow = approvals[b].workflow
    <3>1. Sound(approvals[a])
      BY <2>1, PendingIsSound DEF Overdue
    <3>2. \A b \in Approvals : b # a => approvals'[b] = approvals[b]
      BY <2>1 DEF Overdue, ApprovalInv
    <3>3. approvals'[a] = [approvals[a] EXCEPT !.overdue = TRUE]
      BY <2>1 DEF Overdue, ApprovalInv
    <3>4. /\ approvals'[a].status = approvals[a].status
          /\ approvals'[a].workflow = approvals[a].workflow
      BY <3>1, <3>3 DEF Sound, Approval
    <3> QED BY <2>1, <3>2, <3>4 DEF Overdue, serviceVars
  <2> QED BY <2>2 DEF ApprovedOnlyByRequest, Times, With
<1>4. CASE UNCHANGED vars
  BY <1>4 DEF vars, ApprovedOnlyByRequest, Times, With
<1> QED BY <1>1, <1>2, <1>3, <1>4 DEF CrashNext, ApprovalNext

\* However many requests, levels, crashes and retries: a workflow is APPROVED
\* only if a request of it is, and it was moved there at most once per
\* approved request, as long as no caller asks transition_workflow for
\* APPROVED itself.
THEOREM WorkflowsAreApprovedByRequest ==
  ASSUME IsFiniteSet(Approvals), "APPROVED" \notin CallerTargets
  PROVE  CrashSpec => []ApprovedOnlyByRequest
<1>1. ApprovalInit => ApprovedOnlyByRequest
  <2>1. Cardinality({}) = 0
    BY FS_EmptySet
  <2>2. ASSUME ApprovalInit, NEW w \in Workflows
        PROVE  /\ Times(w, "APPROVED") = 0 /\ rows[w].state # "APPROVED"
               /\ Cardinality(With("APPROVED", w)) = 0
    <3>1. {i \in 1 .. Len(history[w]) : history[w][i].to = "APPROVED"} = {}
      BY <2>2 DEF ApprovalInit, ServiceInit
    <3>2. With("APPROVED", w) = {}
      BY <2>2, RequestsDiffer DEF With, ApprovalInit
    <3>3. rows[w].state # "APPROVED"
      BY <2>2 DEF ApprovalInit, ServiceInit, NewRow
    <3> QED BY <2>1, <3>1, <3>2, <3>3 DEF Times
  <2> QED BY <2>2 DEF ApprovedOnlyByRequest
<1>2. ApprovalInv /\ ApprovedOnlyByRequest /\ [CrashNext]_vars => ApprovedOnlyByRequest'
  BY ApprovedOnlyByRequestStep
<1> QED BY <1>1, <1>2, ApprovalInvAlways, PTL DEF CrashSpec

-----------------------------------------------------------------------------
(***************************************************************************)
(* Calls that are served to their end (ApprovalSpec): a workflow waits for *)
(* exactly one pending request, and its ledger tells of the requests what  *)
(* became of them, for any number of workflows, requests, users, levels.   *)
(*                                                                         *)
(* Two facts carry the proof.  The last commit of each call settles both   *)
(* sides: it asks, settles, drops or goes on with a request (Asks,         *)
(* Settles, Drops, GoesOn).  And no other call moves a workflow into one   *)
(* of the states that belong to requests (Reserved), or out of             *)
(* WAITING_FOR_APPROVAL except to cancel it, so long as nobody asks        *)
(* transition_workflow for one of them.                                    *)
(***************************************************************************)
\* The states that only a request moves a workflow into.
Reserved == {"WAITING_FOR_APPROVAL", "APPROVED", "REJECTED", "EXPIRED"}

\* How often a ledger enters a state.
EntriesTo(ledger, t) == {i \in 1 .. Len(ledger) : ledger[i].to = t}
Tally(ledger, t) == Cardinality(EntriesTo(ledger, t))

\* `longer` tells of one more move, to `to`, as far as requests go.
Added(longer, ledger, to) ==
  \A t \in Reserved : Tally(longer, t) = Tally(ledger, t) + (IF t = to THEN 1 ELSE 0)

\* The requests that the moves of workflow w into t stand for.
Counted(t, w) ==
  IF t = "WAITING_FOR_APPROVAL"
  THEN {a \in Approvals : Submitted(a) /\ approvals[a].workflow = w}
  ELSE With(t, w)

\* A request may also expire when its workflow was cancelled before.
Matches(w) ==
  \A t \in Reserved :
    /\ Tally(history[w], t) <= Cardinality(Counted(t, w))
    /\ t # "EXPIRED" => Tally(history[w], t) = Cardinality(Counted(t, w))

Waits(w) ==
  /\ \A a, b \in With("PENDING", w) : a = b
  /\ rows[w].state = "WAITING_FOR_APPROVAL" => With("PENDING", w) # {}
  /\ With("PENDING", w) # {} => rows[w].state \in {"WAITING_FOR_APPROVAL", "CANCELLED"}

OutcomesInv == \A w \in Workflows : Matches(w) /\ Waits(w)

\* What a call leaves when it is served to its end.
Asks(w, s) ==
  /\ s.approval.status = "PENDING" /\ s.approval.workflow = w
  /\ s.row.state = "WAITING_FOR_APPROVAL"
  /\ Added(s.ledger, history[w], "WAITING_FOR_APPROVAL")

Settles(w, s) ==
  /\ s.approval.status \in {"APPROVED", "REJECTED", "EXPIRED"} /\ s.approval.workflow = w
  /\ s.row.state = s.approval.status
  /\ Added(s.ledger, history[w], s.approval.status)

Drops(w, s) ==
  /\ s.approval.status \in {"CANCELLED", "EXPIRED"} /\ s.approval.workflow = w
  /\ s.row.state = "CANCELLED"
  /\ Added(s.ledger, history[w], "CANCELLED")

GoesOn(w, s) ==
  /\ s.approval.status = "PENDING" /\ s.approval.workflow = w
  /\ s.row.state = rows[w].state
  /\ s.ledger = history[w]

-----------------------------------------------------------------------------
(***************************************************************************)
(* Ledgers and their tallies.                                              *)
(***************************************************************************)

\* An entry counts for the state it leads to.
LEMMA TallyAppend ==
  ASSUME NEW ledger \in Seq(Transition), NEW e \in Transition, NEW t
  PROVE  /\ Tally(ledger, t) \in Nat
         /\ Append(ledger, e) = ledger \o <<e>>
         /\ Append(ledger, e) \in Seq(Transition)
         /\ Tally(Append(ledger, e), t) = Tally(ledger, t) + (IF t = e.to THEN 1 ELSE 0)
<1> DEFINE n == Len(ledger)
           longer == Append(ledger, e)
<1>1. n \in Nat
  BY LenProperties
<1>2. /\ Len(longer) = n + 1 /\ longer[n + 1] = e
      /\ \A i \in 1 .. n : longer[i] = ledger[i]
      /\ longer = ledger \o <<e>> /\ longer \in Seq(Transition)
  OBVIOUS
<1>3. IsFiniteSet(1 .. n) /\ EntriesTo(ledger, t) \subseteq 1 .. n
  BY <1>1, FS_Interval DEF EntriesTo
<1>4. IsFiniteSet(EntriesTo(ledger, t)) /\ n + 1 \notin EntriesTo(ledger, t)
  BY <1>1, <1>3, FS_Subset
<1> HIDE DEF longer
<1>5. EntriesTo(longer, t) =
        IF t = e.to THEN EntriesTo(ledger, t) \cup {n + 1} ELSE EntriesTo(ledger, t)
  BY <1>1, <1>2 DEF EntriesTo
<1>6. /\ Tally(ledger, t) \in Nat
      /\ Cardinality(EntriesTo(ledger, t) \cup {n + 1}) = Tally(ledger, t) + 1
  BY <1>4, FS_AddElement, FS_CardinalityType DEF Tally
<1>7. Tally(longer, t) = Tally(ledger, t) + (IF t = e.to THEN 1 ELSE 0)
  BY <1>5, <1>6 DEF Tally
<1> QED BY <1>2, <1>6, <1>7 DEF longer

\* The same, for the states that count.
LEMMA AppendAdds ==
  ASSUME NEW ledger \in Seq(Transition), NEW e \in Transition
  PROVE  Added(Append(ledger, e), ledger, e.to)
BY TallyAppend DEF Added

\* A ledger that was not written adds nothing.
LEMMA NothingAdded ==
  ASSUME NEW ledger \in Seq(Transition)
  PROVE  Added(ledger, ledger, "CANCELLED")
<1>1. Edge("RECEIVED", "RECEIVED") \in Transition
  BY DEF Edge, Transition, WorkflowState
<1>2. \A t : Tally(ledger, t) \in Nat
  BY <1>1, TallyAppend
<1> QED BY <1>2 DEF Added, Reserved

-----------------------------------------------------------------------------
(***************************************************************************)
(* The last commit of each call.                                           *)
(***************************************************************************)

\* A move ends in its state, with one more entry, and leaves the request.
LEMMA MoveEnds ==
  ASSUME NEW s \in Fit, NEW to \in WorkflowState
  PROVE  LET moves == MoveCommits(s, to)
         IN  /\ moves \in Seq(Fit) /\ Len(moves) = 2 /\ moves[2] \in Fit
             /\ moves[2].approval = s.approval
             /\ moves[2].row.state = to
             /\ Added(moves[2].ledger, s.ledger, to)
<1> DEFINE row   == MovedTo(s.row, to)
           moved == [s EXCEPT !.row = row]
           e     == Edge(s.row.state, to)
           entry == Append(s.ledger, e)
           told  == [moved EXCEPT !.ledger = entry]
           moves == MoveCommits(s, to)
<1>1. s \in StoredType /\ s.row \in Row /\ s.ledger \in Seq(Transition)
  BY DEF Fit, StoredType
<1>2. row \in Row /\ row.state = to /\ e \in Transition /\ e.to = to
  <2>1. row \in Row /\ e \in Transition
    BY <1>1, RowsWritten
  <2>2. row.state = to
    BY <1>1 DEF MovedTo, Row
  <2>3. e.to = to
    BY DEF Edge
  <2> QED BY <2>1, <2>2, <2>3
<1>3. moves \in Seq(Fit) /\ moves[2] \in Fit /\ moves[2].approval = s.approval
  BY MoveFits
<1> HIDE DEF row, e
<1>4. moved \in Fit /\ moved.ledger = s.ledger /\ moved.row = row
  BY <1>1, <1>2, RowFits DEF StoredType
<1>5. Added(entry, s.ledger, to)
  BY <1>1, <1>2, AppendAdds
<1>6. moves = <<moved, told>>
  BY <1>4 DEF MoveCommits, row, e
<1> HIDE DEF moved, entry, moves
<1>7. told.ledger = entry /\ told.row = row
  BY <1>4 DEF Fit, StoredType
<1> HIDE DEF told
<1>8. Len(moves) = 2 /\ moves[2] = told
  BY <1>6
<1> QED BY <1>2, <1>3, <1>5, <1>7, <1>8 DEF moves

\* The last commit of two lists in a row.
LEMMA LastOfTwo ==
  ASSUME NEW S, NEW first \in Seq(S), NEW second \in Seq(S)
  PROVE  /\ first \o second \in Seq(S)
         /\ second # << >> => (first \o second)[Len(first \o second)] = second[Len(second)]
         /\ second = << >> => (first \o second)[Len(first \o second)] = first[Len(first)]
<1>1. Len(first) \in Nat /\ Len(second) \in Nat
  BY LenProperties
<1>2. /\ first \o second \in Seq(S)
      /\ Len(first \o second) = Len(first) + Len(second)
  OBVIOUS
<1>3. CASE second # << >>
  <2>1. Len(second) >= 1
    BY <1>3
  <2> QED BY <1>1, <1>2, <1>3, <2>1
<1>4. CASE second = << >>
  BY <1>2, <1>4
<1> QED BY <1>2, <1>3, <1>4

\* Two commits are not none.
LEMMA TwoCommits ==
  ASSUME NEW commits, Len(commits) = 2
  PROVE  commits # << >>
<1>1. Len(<< >>) = 0
  OBVIOUS
<1> QED BY <1>1

\* A cancellation of a workflow that waits, or was cancelled, ends cancelled.
LEMMA CancelEnds ==
  ASSUME NEW s \in Fit, s.row.state \in {"WAITING_FOR_APPROVAL", "CANCELLED"}
  PROVE  LET moves == CancelWorkflowCommits(s)
         IN  /\ moves \in Seq(Fit)
             /\ s.row.state = "CANCELLED" => moves = << >>
             /\ s.row.state = "WAITING_FOR_APPROVAL" =>
                  /\ Len(moves) = 2
                  /\ moves[2].approval = s.approval
                  /\ moves[2].row.state = "CANCELLED"
                  /\ Added(moves[2].ledger, s.ledger, "CANCELLED")
<1> DEFINE row   == Cancelled(s.row)
           moved == [s EXCEPT !.row = row]
           e     == Edge(s.row.state, "CANCELLED")
           entry == Append(s.ledger, e)
           told  == [moved EXCEPT !.ledger = entry]
           moves == CancelWorkflowCommits(s)
<1>1. s \in Fit /\ s.row \in Row /\ s.ledger \in Seq(Transition)
  BY DEF Fit, StoredType
<1>2. moves \in Seq(Fit)
  BY CancelFits
<1>3. row.state = "CANCELLED" /\ e \in Transition /\ e.to = "CANCELLED" /\ row \in Row
  <2>1. "CANCELLED" \in WorkflowState
    BY DEF WorkflowState
  <2> QED BY <2>1, <1>1, RowsWritten DEF Cancelled, Row, Edge
<1>4. CASE s.row.state = "CANCELLED"
  BY <1>2, <1>4 DEF CancelWorkflowCommits, IsTerminal, TERMINAL_STATES
<1>5. CASE s.row.state = "WAITING_FOR_APPROVAL"
  <2> HIDE DEF row, e
  <2>1. moved.ledger = s.ledger /\ moved.row = row /\ moved.approval = s.approval /\ moved \in Fit
    BY <1>1, <1>3, RowFits DEF Fit, StoredType
  <2>2. ~ IsTerminal(s.row.state) /\ ValidTransition(s.row.state, "CANCELLED")
    BY <1>5 DEF IsTerminal, TERMINAL_STATES, ValidTransition, VALID_TRANSITIONS
  <2>3. moves = <<moved, told>>
    BY <2>1, <2>2 DEF CancelWorkflowCommits, row, e
  <2>4. Added(entry, s.ledger, "CANCELLED")
    BY <1>1, <1>3, AppendAdds
  <2> HIDE DEF moved, entry, moves
  <2>5. told.ledger = entry /\ told.row = row /\ told.approval = s.approval
    BY <2>1 DEF Fit, StoredType
  <2> HIDE DEF told
  <2>6. Len(moves) = 2 /\ moves[2] = told
    BY <2>3
  <2> QED BY <1>2, <1>3, <1>5, <2>4, <2>5, <2>6 DEF moves
<1> QED BY <1>4, <1>5

\* Lifting the pause changes neither the state nor the ledger.
LEMMA AwakeEnds ==
  ASSUME NEW s \in Fit
  PROVE  /\ Awake(s) \in Fit /\ Awake(s).approval = s.approval
         /\ Awake(s).row.state = s.row.state
         /\ Awake(s).ledger = s.ledger
<1>1. s.row \in Row
  BY DEF Fit, StoredType
<1>2. Resumed(s.row).state = s.row.state
  BY <1>1 DEF Resumed, Row
<1>3. Awake(s).row = Resumed(s.row) /\ Awake(s).ledger = s.ledger
  BY DEF Awake, Fit, StoredType
<1> QED BY <1>2, <1>3, AwakeFits

\* The last of some commits that are fit is fit.
LEMMA LastFits ==
  ASSUME NEW commits \in Seq(Fit), Len(commits) > 0
  PROVE  commits[Len(commits)] \in Fit
OBVIOUS

\* create_request asks.
LEMMA CreateEnds ==
  ASSUME ApprovalInv, NEW w \in Workflows, NEW a \in Approvals, NEW roles \in Chains
  PROVE  LET commits == CreateCommits(w, a, roles)
         IN  commits[Len(commits)] \in Fit /\ Asks(w, commits[Len(commits)])
<1> DEFINE s       == Stored(w, a)
           waiting == MoveCommits(s, "WAITING_FOR_APPROVAL")
           moved   == waiting[2]
           r       == NewApproval(w, roles)
           asked   == [moved EXCEPT !.approval = r]
           row     == Paused(asked.row)
           held    == [asked EXCEPT !.row = row]
           commits == CreateCommits(w, a, roles)
<1>1. "WAITING_FOR_APPROVAL" \in WorkflowState
  BY DEF WorkflowState
<1>2. s \in Fit /\ s.ledger = history[w]
  BY StoredFits DEF Stored
<1>3. commits \in Seq(Fit) /\ Len(commits) > 0
  BY CreateCommitsFit
<1>4. commits = waiting \o <<asked, held>>
  BY DEF CreateCommits
<1>5. r.status = "PENDING" /\ r.workflow = w
  BY DEF NewApproval
<1> HIDE DEF s, r, commits
<1>6. /\ waiting \in Seq(Fit) /\ Len(waiting) = 2 /\ moved \in Fit
      /\ moved.row.state = "WAITING_FOR_APPROVAL"
      /\ Added(moved.ledger, history[w], "WAITING_FOR_APPROVAL")
  BY <1>1, <1>2, MoveEnds
<1> HIDE DEF waiting
<1>7. commits[Len(commits)] = held
  <2> HIDE DEF moved, asked, held
  <2> QED BY <1>4, <1>6
<1> HIDE DEF moved
<1>8. asked.approval = r /\ asked.row = moved.row /\ asked.ledger = moved.ledger
      /\ moved.row \in Row /\ DOMAIN asked = {"row", "ledger", "approval"}
  BY <1>6 DEF Fit, StoredType
<1>9. row.state = "WAITING_FOR_APPROVAL"
  <2> HIDE DEF asked
  <2> QED BY <1>6, <1>8 DEF Paused, Row
<1> HIDE DEF asked, row
<1>10. held.row = row /\ held.ledger = asked.ledger /\ held.approval = asked.approval
  BY <1>8
<1> HIDE DEF held
<1>11. Asks(w, held)
  BY <1>5, <1>6, <1>8, <1>9, <1>10 DEF Asks
<1> QED BY <1>3, <1>7, <1>11, LastFits DEF commits

\* What a call on a pending request starts from.
LEMMA PendingStored ==
  ASSUME ApprovalInv, NEW a \in Approvals, IsPending(a)
  PROVE  LET w == approvals[a].workflow
             s == Stored(w, a)
         IN  /\ w \in Workflows /\ s \in Fit /\ s.approval \in Approval
             /\ s.approval.status = "PENDING" /\ s.approval.workflow = w
             /\ s.row = rows[w] /\ s.ledger = history[w]
             /\ history[w] \in Seq(Transition)
BY PendingIsSound DEF IsPending, Sound, Stored, ApprovalInv, TypeOK

\* Resolving a request changes its status alone.
LEMMA ResolvedEnds ==
  ASSUME NEW s \in Fit, s.approval \in Approval, NEW status
  PROVE  LET t == Resolved(s, status)
         IN  /\ t.approval.status = status
             /\ t.approval.workflow = s.approval.workflow
             /\ t.row = s.row /\ t.ledger = s.ledger
<1> DEFINE r == [s.approval EXCEPT !.status = status]
<1>1. r.status = status /\ r.workflow = s.approval.workflow
  BY DEF Approval
<1>2. Resolved(s, status) = [s EXCEPT !.approval = r]
  BY DEF Resolved
<1> HIDE DEF r
<1>3. [s EXCEPT !.approval = r].approval = r /\ [s EXCEPT !.approval = r].row = s.row
      /\ [s EXCEPT !.approval = r].ledger = s.ledger
  BY DEF Fit, StoredType
<1> QED BY <1>1, <1>2, <1>3

\* So does a signature, or the next level, of what they write.
LEMMA SignedEnds ==
  ASSUME NEW s \in Fit, s.approval \in Approval, NEW u, NEW approve
  PROVE  /\ Signed(s, u, approve).approval.status = s.approval.status
         /\ Signed(s, u, approve).approval.workflow = s.approval.workflow
         /\ Signed(s, u, approve).row = s.row /\ Signed(s, u, approve).ledger = s.ledger
         /\ Advanced(s).approval.status = s.approval.status
         /\ Advanced(s).approval.workflow = s.approval.workflow
         /\ Advanced(s).row = s.row /\ Advanced(s).ledger = s.ledger
<1>1. ASSUME NEW x, NEW t, t = [s EXCEPT !.approval.decisions = x]
      PROVE  /\ t.approval.status = s.approval.status
             /\ t.approval.workflow = s.approval.workflow
             /\ t.row = s.row /\ t.ledger = s.ledger
  BY <1>1 DEF Fit, StoredType, Approval
<1>2. /\ Signed(s, u, approve).approval.status = s.approval.status
      /\ Signed(s, u, approve).approval.workflow = s.approval.workflow
      /\ Signed(s, u, approve).row = s.row /\ Signed(s, u, approve).ledger = s.ledger
  BY <1>1, Zenon DEF Signed
<1>3. /\ Advanced(s).approval.status = s.approval.status
      /\ Advanced(s).approval.workflow = s.approval.workflow
      /\ Advanced(s).row = s.row /\ Advanced(s).ledger = s.ledger
  BY DEF Fit, StoredType, Approval, Advanced
<1> QED BY <1>2, <1>3

\* decide goes on with the request, or settles it.
LEMMA DecideEnds ==
  ASSUME ApprovalInv, NEW a \in Approvals, NEW u \in Users, NEW approve \in BOOLEAN,
         DecisionAllowed(a, u)
  PROVE  LET w == approvals[a].workflow
             commits == DecideCommits(w, a, u, approve)
             last == commits[Len(commits)]
         IN  last \in Fit /\ (GoesOn(w, last) \/ Settles(w, last))
<1> DEFINE w        == approvals[a].workflow
           s        == Stored(w, a)
           signed   == Signed(s, u, approve)
           outcome  == IF approve THEN "APPROVED" ELSE "REJECTED"
           resolved == Resolved(signed, outcome)
           commits  == DecideCommits(w, a, u, approve)
<1>1. /\ s \in Fit /\ s.approval \in Approval /\ s.approval.status = "PENDING"
      /\ s.approval.workflow = w /\ s.row = rows[w] /\ s.ledger = history[w]
  BY PendingStored DEF DecisionAllowed
<1>2. commits \in Seq(Fit) /\ Len(commits) > 0
  BY DecideCommitsFit
<1>3. /\ signed.approval.status = "PENDING" /\ signed.approval.workflow = w
      /\ signed.row = rows[w] /\ signed.ledger = history[w]
  <2> HIDE DEF s, w
  <2> QED BY <1>1, SignedEnds
<1>4. /\ approve /\ MoreLevels(approvals[a]) => commits = <<signed, Advanced(signed)>>
      /\ ~ (approve /\ MoreLevels(approvals[a])) =>
           commits = <<signed, resolved, Awake(resolved)>> \o MoveCommits(Awake(resolved), outcome)
  BY DEF DecideCommits
<1>5. outcome \in {"APPROVED", "REJECTED"} /\ outcome \in WorkflowState
  BY DEF WorkflowState
<1> HIDE DEF s, w, signed, outcome, commits
<1>6. CASE approve /\ MoreLevels(approvals[a])
  <2>1. commits = <<signed, Advanced(signed)>>
    BY <1>4, <1>6
  <2>2. Len(commits) = 2 /\ commits[1] = signed /\ commits[2] = Advanced(signed)
    BY <2>1
  <2>3. signed \in Fit /\ Advanced(signed) \in Fit
    BY <1>2, <2>2
  <2>4. signed.approval \in Approval
    BY <1>3, <2>3, RequestFits, RequestsDiffer DEF Sound
  <2>5. GoesOn(w, Advanced(signed))
    BY <1>3, <2>3, <2>4, SignedEnds DEF GoesOn
  <2> QED BY <2>2, <2>3, <2>5 DEF commits, w
<1>7. CASE ~ (approve /\ MoreLevels(approvals[a]))
  <2> DEFINE moves == MoveCommits(Awake(resolved), outcome)
             first == <<signed, resolved, Awake(resolved)>>
  <2>1. commits = first \o moves
    BY <1>4, <1>7
  <2>2. commits[1] = signed /\ commits[2] = resolved /\ Len(commits) >= 2
    <3> HIDE DEF resolved
    <3> QED BY <2>1
  <2>3. signed \in Fit /\ resolved \in Fit
    <3> HIDE DEF resolved
    <3> QED BY <1>2, <2>2
  <2>4. signed.approval \in Approval
    BY <1>3, <2>3, RequestFits, RequestsDiffer DEF Sound
  <2>5. /\ resolved.approval.status = outcome /\ resolved.approval.workflow = w
        /\ resolved.row = rows[w] /\ resolved.ledger = history[w]
    BY <1>3, <2>3, <2>4, ResolvedEnds
  <2> HIDE DEF resolved
  <2>6. /\ Awake(resolved) \in Fit /\ Awake(resolved).approval = resolved.approval
        /\ Awake(resolved).ledger = history[w]
    BY <2>3, <2>5, AwakeEnds
  <2>7. /\ moves \in Seq(Fit) /\ Len(moves) = 2 /\ moves[2] \in Fit
        /\ moves[2].approval = resolved.approval
        /\ moves[2].row.state = outcome
        /\ Added(moves[2].ledger, history[w], outcome)
    BY <1>5, <2>6, MoveEnds
  <2>8. first \in Seq(Fit)
    BY <2>3, <2>6
  <2> HIDE DEF moves, first
  <2>9. commits[Len(commits)] = moves[2]
    <3>1. moves # << >> /\ moves \in Seq(Fit)
      BY <2>7, TwoCommits
    <3>2. commits[Len(commits)] = moves[Len(moves)]
      BY <2>1, <2>8, <3>1, LastOfTwo
    <3> QED BY <2>7, <3>2
  <2>10. Settles(w, moves[2])
    BY <1>5, <2>5, <2>7 DEF Settles
  <2> QED BY <2>7, <2>9, <2>10 DEF commits, w
<1> QED BY <1>6, <1>7

\* delegate goes on with the request.
LEMMA DelegateEnds ==
  ASSUME ApprovalInv, NEW a \in Approvals, NEW u \in Users, NEW target \in Users,
         DelegationAllowed(a, u, target)
  PROVE  LET w == approvals[a].workflow
             commits == DelegateCommits(w, a, target)
             last == commits[Len(commits)]
         IN  last \in Fit /\ GoesOn(w, last)
<1> DEFINE w == approvals[a].workflow
           s == Stored(w, a)
           r == s.approval
           next == [r EXCEPT !.delegate = target,
                             !.grants = r.grants \cup {<<r.level, target>>}]
           delegated == [s EXCEPT !.approval = next]
           commits == DelegateCommits(w, a, target)
<1>1. /\ s \in Fit /\ r \in Approval /\ r.status = "PENDING" /\ r = approvals[a]
      /\ r.workflow = w /\ s.row = rows[w] /\ s.ledger = history[w]
  BY PendingStored DEF DelegationAllowed, Stored
<1>2. commits = <<delegated>>
  BY <1>1 DEF DelegateCommits, Fit, StoredType, Approval
<1>3. next.status = "PENDING" /\ next.workflow = w
  <2> HIDE DEF w, s
  <2> QED BY <1>1 DEF Approval
<1>4. commits \in Seq(Fit) /\ Len(commits) = 1
  BY DelegateCommitsFit
<1> HIDE DEF w, s, next, commits
<1>5. delegated.approval = next /\ delegated.row = rows[w] /\ delegated.ledger = history[w]
  BY <1>1 DEF Fit, StoredType
<1> HIDE DEF delegated
<1>6. commits[Len(commits)] = delegated /\ delegated \in Fit
  BY <1>2, <1>4
<1>7. GoesOn(w, delegated)
  BY <1>3, <1>5 DEF GoesOn
<1> QED BY <1>6, <1>7 DEF w, commits

\* cancel drops the request, and an expiry drops or settles it, if its
\* workflow waits or was cancelled.
LEMMA EndEnds ==
  ASSUME ApprovalInv, NEW a \in Approvals, IsPending(a),
         rows[approvals[a].workflow].state \in {"WAITING_FOR_APPROVAL", "CANCELLED"}
  PROVE  LET w == approvals[a].workflow
             cancel == CancelCommits(w, a)
             expire == ExpireCommits(w, a)
         IN  /\ cancel[Len(cancel)] \in Fit /\ Drops(w, cancel[Len(cancel)])
             /\ expire[Len(expire)] \in Fit
             /\ Settles(w, expire[Len(expire)]) \/ Drops(w, expire[Len(expire)])
<1> DEFINE w == approvals[a].workflow
           s == Stored(w, a)
           cancel == CancelCommits(w, a)
           expire == ExpireCommits(w, a)
<1>1. /\ s \in Fit /\ s.approval \in Approval /\ s.approval.status = "PENDING"
      /\ s.approval.workflow = w /\ s.row = rows[w] /\ s.ledger = history[w]
      /\ history[w] \in Seq(Transition)
  BY PendingStored
<1>2. /\ cancel \in Seq(Fit) /\ Len(cancel) > 0
      /\ expire \in Seq(Fit) /\ Len(expire) > 0
  BY EndCommitsFit
<1>3. ASSUME NEW status \in {"CANCELLED", "EXPIRED"}, NEW moves \in Seq(Fit),
             NEW commits \in Seq(Fit), Len(commits) > 0,
             commits = <<Resolved(s, status), Awake(Resolved(s, status))>> \o moves
      PROVE  LET resolved == Resolved(s, status)
                 awake == Awake(resolved)
             IN  /\ <<resolved, awake>> \in Seq(Fit) /\ awake \in Fit
                 /\ awake.approval.status = status /\ awake.approval.workflow = w
                 /\ awake.row.state = rows[w].state /\ awake.ledger = history[w]
                 /\ moves = << >> => commits[Len(commits)] = awake
                 /\ moves # << >> => commits[Len(commits)] = moves[Len(moves)]
  <2> DEFINE resolved == Resolved(s, status)
             awake == Awake(resolved)
             first == <<resolved, awake>>
  <2>1. /\ resolved.approval.status = status /\ resolved.approval.workflow = w
        /\ resolved.row = rows[w] /\ resolved.ledger = history[w]
    <3> HIDE DEF s, w
    <3> QED BY <1>1, ResolvedEnds
  <2> HIDE DEF resolved
  <2>2. resolved \in Fit
    <3>1. commits = <<resolved, Awake(resolved)>> \o moves
      BY <1>3 DEF resolved
    <3>2. commits[1] = resolved
      BY <3>1
    <3> QED BY <1>3, <3>2
  <2> HIDE DEF s, w
  <2>3. /\ awake \in Fit /\ awake.approval = resolved.approval
        /\ awake.row.state = resolved.row.state /\ awake.ledger = resolved.ledger
    BY <2>2, AwakeEnds
  <2> HIDE DEF awake
  <2>4. first \in Seq(Fit) /\ Len(first) = 2 /\ first[2] = awake
    BY <2>2, <2>3
  <2>5. commits = first \o moves
    BY <1>3 DEF resolved, awake
  <2> HIDE DEF first
  <2>6. /\ moves = << >> => commits[Len(commits)] = awake
        /\ moves # << >> => commits[Len(commits)] = moves[Len(moves)]
    BY <1>3, <2>4, <2>5, LastOfTwo
  <2> QED BY <2>1, <2>3, <2>4, <2>6 DEF first, awake, resolved
<1>4. Added(history[w], history[w], "CANCELLED")
  BY <1>1, NothingAdded
<1>5. cancel[Len(cancel)] \in Fit /\ Drops(w, cancel[Len(cancel)])
  <2> DEFINE resolved == Resolved(s, "CANCELLED")
             awake == Awake(resolved)
             moves == CancelWorkflowCommits(awake)
  <2>1. cancel = <<resolved, awake>> \o moves
    BY DEF CancelCommits
  <2>2. awake \in Fit
    <3>1. << >> \in Seq(Fit)
      OBVIOUS
    <3>2. <<resolved, awake>> = <<resolved, awake>> \o << >>
      OBVIOUS
    <3>3. "CANCELLED" \in {"CANCELLED", "EXPIRED"}
      OBVIOUS
    <3>4. cancel[2] = awake /\ Len(cancel) >= 2
      <4>1. moves = << >> \/ Len(moves) = 2
        BY DEF CancelWorkflowCommits
      <4> HIDE DEF moves, awake, resolved, cancel
      <4> QED BY <2>1, <4>1
    <3> HIDE DEF cancel, awake
    <3> QED BY <1>2, <3>4
  <2>3. moves \in Seq(Fit)
    <3> HIDE DEF awake
    <3> QED BY <2>2, CancelFits
  <2> HIDE DEF moves, cancel, s, w
  <2>4. /\ awake.approval.status = "CANCELLED" /\ awake.approval.workflow = w
        /\ awake.row.state = rows[w].state /\ awake.ledger = history[w]
        /\ moves = << >> => cancel[Len(cancel)] = awake
        /\ moves # << >> => cancel[Len(cancel)] = moves[Len(moves)]
    BY <1>2, <1>3, <2>1, <2>3
  <2> HIDE DEF resolved, awake
  <2>5. CASE rows[w].state = "CANCELLED"
    <3>1. moves = << >>
      BY <2>2, <2>4, <2>5, CancelEnds DEF moves
    <3> QED BY <2>2, <2>4, <2>5, <3>1, <1>4 DEF Drops, cancel
  <2>6. CASE rows[w].state = "WAITING_FOR_APPROVAL"
    <3>1. /\ Len(moves) = 2
          /\ moves[2].approval = awake.approval
          /\ moves[2].row.state = "CANCELLED"
          /\ Added(moves[2].ledger, awake.ledger, "CANCELLED")
      BY <2>2, <2>4, <2>6, CancelEnds DEF moves
    <3>2. cancel[Len(cancel)] = moves[2] /\ moves[2] \in Fit
      <4>1. moves # << >>
        BY <3>1, TwoCommits
      <4>2. moves[2] \in Fit
        <5>1. 2 \in 1 .. Len(moves)
          BY <3>1
        <5> HIDE DEF moves
        <5> QED BY <2>3, <5>1
      <4> QED BY <4>2, <2>3, <2>4, <3>1, <4>1
    <3> QED BY <2>4, <3>1, <3>2 DEF Drops, cancel
  <2> QED BY <2>5, <2>6 DEF w
<1>6. expire[Len(expire)] \in Fit
      /\ (Settles(w, expire[Len(expire)]) \/ Drops(w, expire[Len(expire)]))
  <2> DEFINE resolved == Resolved(s, "EXPIRED")
             awake == Awake(resolved)
             settle == MoveCommits(awake, "EXPIRED")
             moves == IF rows[w].state = "WAITING_FOR_APPROVAL" THEN settle ELSE << >>
  <2>1. expire = <<resolved, awake>> \o moves
    BY DEF ExpireCommits
  <2>2. awake \in Fit
    <3>4. expire[2] = awake /\ Len(expire) >= 2
      <4>1. moves = << >> \/ Len(moves) = 2
        BY DEF MoveCommits
      <4> HIDE DEF moves, awake, resolved, expire
      <4> QED BY <2>1, <4>1
    <3> HIDE DEF expire, awake
    <3> QED BY <1>2, <3>4
  <2> HIDE DEF expire, s, w
  <2>a. "EXPIRED" \in WorkflowState
    BY DEF WorkflowState
  <2>b. /\ settle \in Seq(Fit) /\ Len(settle) = 2 /\ settle[2] \in Fit
        /\ settle[2].approval = awake.approval
        /\ settle[2].row.state = "EXPIRED"
        /\ Added(settle[2].ledger, awake.ledger, "EXPIRED")
    <3> HIDE DEF awake
    <3> QED BY <2>2, <2>a, MoveEnds
  <2> HIDE DEF settle
  <2>3. moves \in Seq(Fit)
    BY <2>b
  <2> HIDE DEF moves
  <2>4. /\ awake.approval.status = "EXPIRED" /\ awake.approval.workflow = w
        /\ awake.row.state = rows[w].state /\ awake.ledger = history[w]
        /\ moves = << >> => expire[Len(expire)] = awake
        /\ moves # << >> => expire[Len(expire)] = moves[Len(moves)]
    BY <1>2, <1>3, <2>1, <2>3
  <2> HIDE DEF resolved, awake
  <2>5. CASE rows[w].state = "CANCELLED"
    <3>1. moves = << >>
      BY <2>5 DEF moves
    <3> QED BY <2>2, <2>4, <2>5, <3>1, <1>4 DEF Drops, expire
  <2>6. CASE rows[w].state = "WAITING_FOR_APPROVAL"
    <3>1. moves = settle
      BY <2>6 DEF moves
    <3>2. expire[Len(expire)] = settle[2]
      <4>1. moves # << >>
        BY <2>b, <3>1, TwoCommits
      <4> QED BY <2>4, <2>b, <3>1, <4>1
    <3> QED BY <2>4, <2>b, <3>2 DEF Settles, expire
  <2> QED BY <2>5, <2>6 DEF w
<1> QED BY <1>5, <1>6

\* Every call that is served to its end asks, when nothing was asked yet, or
\* ends what it does with a pending request.
LEMMA CallsConclude ==
  ASSUME ApprovalInv, OutcomesInv, NEW a \in Approvals, ApprovalStep(a), ~ Overdue(a)
  PROVE  \E w \in Workflows, s \in Fit :
           /\ Store(w, a, s)
           /\ \/ ~ Submitted(a) /\ With("PENDING", w) = {} /\ Asks(w, s)
              \/ /\ IsPending(a) /\ approvals[a].workflow = w
                 /\ Settles(w, s) \/ Drops(w, s) \/ GoesOn(w, s)
<1> DEFINE w == approvals[a].workflow
           Goal == \E v \in Workflows, s \in Fit :
                     /\ Store(v, a, s)
                     /\ \/ ~ Submitted(a) /\ With("PENDING", v) = {} /\ Asks(v, s)
                        \/ /\ IsPending(a) /\ approvals[a].workflow = v
                           /\ Settles(v, s) \/ Drops(v, s) \/ GoesOn(v, s)
<1> SUFFICES Goal
  OBVIOUS
<1>1. ASSUME NEW v \in created, NEW roles \in Chains, CreateRequest(v, a, roles)
      PROVE  Goal
  <2> DEFINE commits == CreateCommits(v, a, roles)
             last == commits[Len(commits)]
  <2>1. v \in Workflows /\ ~ Submitted(a) /\ With("PENDING", v) = {} /\ Store(v, a, last)
    BY <1>1 DEF CreateRequest, CanCreate, Completes, ApprovalInv, TypeOK
  <2>2. last \in Fit /\ Asks(v, last)
    BY <2>1, CreateEnds
  <2> HIDE DEF last
  <2> QED BY <2>1, <2>2
<1>2. ASSUME IsPending(a), NEW s \in Fit, Store(w, a, s),
             Settles(w, s) \/ Drops(w, s) \/ GoesOn(w, s)
      PROVE  Goal
  <2>1. w \in Workflows
    BY <1>2, PendingStored
  <2> QED BY <1>2, <2>1
<1>3. ASSUME IsPending(a) PROVE rows[w].state \in {"WAITING_FOR_APPROVAL", "CANCELLED"}
  <2>1. w \in Workflows
    BY <1>3, PendingStored
  <2>2. a \in With("PENDING", w)
    BY <1>3 DEF With, IsPending
  <2> QED BY <2>1, <2>2 DEF OutcomesInv, Waits
<1> HIDE DEF Goal
<1>4. ASSUME NEW u \in Users, NEW approve \in BOOLEAN, Decide(a, u, approve)
      PROVE  Goal
  <2> DEFINE commits == DecideCommits(w, a, u, approve)
             last == commits[Len(commits)]
  <2>1. DecisionAllowed(a, u) /\ IsPending(a) /\ Store(w, a, last)
    BY <1>4 DEF Decide, DecisionAllowed, Completes
  <2>2. last \in Fit /\ (GoesOn(w, last) \/ Settles(w, last))
    BY <2>1, DecideEnds
  <2> HIDE DEF last, w
  <2> QED BY <2>1, <2>2, <1>2
<1>5. ASSUME NEW u \in Users, NEW target \in Users, Delegate(a, u, target)
      PROVE  Goal
  <2> DEFINE commits == DelegateCommits(w, a, target)
             last == commits[Len(commits)]
  <2>1. DelegationAllowed(a, u, target) /\ IsPending(a) /\ Store(w, a, last)
    BY <1>5 DEF Delegate, DelegationAllowed, Completes
  <2>2. last \in Fit /\ GoesOn(w, last)
    BY <2>1, DelegateEnds
  <2> HIDE DEF last, w
  <2> QED BY <2>1, <2>2, <1>2
<1>6. ASSUME (\E u \in Users : Cancel(a, u)) \/ Expire(a) PROVE Goal
  <2> DEFINE cancel == CancelCommits(w, a)
             expire == ExpireCommits(w, a)
             first  == cancel[Len(cancel)]
             second == expire[Len(expire)]
  <2>1. IsPending(a) /\ (Store(w, a, first) \/ Store(w, a, second))
    BY <1>6 DEF Cancel, CancellationAllowed, Expire, ExpiryDue, Completes
  <2>2. /\ first \in Fit /\ Drops(w, first)
        /\ second \in Fit /\ (Settles(w, second) \/ Drops(w, second))
    BY <2>1, <1>3, EndEnds
  <2> HIDE DEF first, second, w
  <2> QED BY <2>1, <2>2, <1>2
<1> QED BY <1>1, <1>4, <1>5, <1>6 DEF ApprovalStep

-----------------------------------------------------------------------------
(***************************************************************************)
(* What is stored keeps the invariant.                                     *)
(***************************************************************************)

\* With request r in the place of request a, workflow v has one more request
\* that stands for t.
Gains(a, r, t, v) ==
  /\ r.workflow = v
  /\ IF t = "WAITING_FOR_APPROVAL" THEN ~ Submitted(a) ELSE r.status = t

\* How the counts change when a request is asked for or changes its status.
LEMMA Recount ==
  ASSUME IsFiniteSet(Approvals), ApprovalInv, NEW a \in Approvals,
         NEW r \in Approval, ~ Submitted(a) \/ (IsPending(a) /\ r.workflow = approvals[a].workflow),
         approvals' = [approvals EXCEPT ![a] = r],
         NEW v \in Workflows, NEW t \in Reserved
  PROVE  /\ Cardinality(Counted(t, v)) \in Nat
         /\ Cardinality(Counted(t, v)') =
              Cardinality(Counted(t, v)) + (IF Gains(a, r, t, v) THEN 1 ELSE 0)
<1>1. /\ approvals'[a] = r /\ approvals[a].status \notin {"APPROVED", "REJECTED", "EXPIRED"}
      /\ \A b \in Approvals : b # a => approvals'[b] = approvals[b]
      /\ r # NoApproval /\ r.status # "none"
  <2>1. approvals[a].status \in {"none", "PENDING"}
    BY RequestsDiffer DEF Submitted, IsPending
  <2>2. r # NoApproval
    BY RequestsDiffer
  <2>3. r.status # "none"
    BY DEF Approval, Resolution
  <2> QED BY <2>1, <2>2, <2>3 DEF ApprovalInv
<1>2. IsFiniteSet(Counted(t, v)) /\ Cardinality(Counted(t, v)) \in Nat
  <2>1. Counted(t, v) \subseteq Approvals
    BY DEF Counted, With
  <2> QED BY <2>1, FS_Subset, FS_CardinalityType
<1>3. Cardinality(Counted(t, v)) + 0 = Cardinality(Counted(t, v))
  BY <1>2
<1>4. CASE t = "WAITING_FOR_APPROVAL"
  <2>1. CASE r.workflow = v /\ ~ Submitted(a)
    <3>1. Counted(t, v)' = Counted(t, v) \cup {a} /\ a \notin Counted(t, v)
      BY <1>1, <1>4, <2>1 DEF Counted, Submitted
    <3>2. Cardinality(Counted(t, v) \cup {a}) = Cardinality(Counted(t, v)) + 1
      BY <3>1, <1>2, FS_AddElement
    <3> QED BY <3>1, <3>2, <2>1, <1>2, <1>4 DEF Gains
  <2>2. CASE ~ (r.workflow = v /\ ~ Submitted(a))
    <3>1. Counted(t, v)' = Counted(t, v)
      BY <1>1, <1>4, <2>2 DEF Counted, Submitted
    <3> QED BY <3>1, <2>2, <1>2, <1>3, <1>4 DEF Gains
  <2> QED BY <2>1, <2>2
<1>5. CASE t # "WAITING_FOR_APPROVAL"
  <2>0. t \in {"APPROVED", "REJECTED", "EXPIRED"}
    BY <1>5 DEF Reserved
  <2>1. CASE r.workflow = v /\ r.status = t
    <3>1. Counted(t, v)' = Counted(t, v) \cup {a} /\ a \notin Counted(t, v)
      BY <1>1, <1>5, <2>0, <2>1 DEF Counted, With
    <3>2. Cardinality(Counted(t, v) \cup {a}) = Cardinality(Counted(t, v)) + 1
      BY <3>1, <1>2, FS_AddElement
    <3> QED BY <3>1, <3>2, <2>1, <1>2, <1>5 DEF Gains
  <2>2. CASE ~ (r.workflow = v /\ r.status = t)
    <3>1. Counted(t, v)' = Counted(t, v)
      BY <1>1, <1>5, <2>0, <2>2 DEF Counted, With
    <3> QED BY <3>1, <2>2, <1>2, <1>3, <1>5 DEF Gains
  <2> QED BY <2>1, <2>2
<1> QED BY <1>4, <1>5

\* The workflow of the call, by what the call leaves.
LEMMA StoreMatches ==
  ASSUME IsFiniteSet(Approvals), ApprovalInv, OutcomesInv,
         NEW w \in Workflows, NEW a \in Approvals, NEW s \in Fit, Store(w, a, s),
         \/ ~ Submitted(a) /\ With("PENDING", w) = {} /\ Asks(w, s)
         \/ /\ IsPending(a) /\ approvals[a].workflow = w
            /\ Settles(w, s) \/ Drops(w, s) \/ GoesOn(w, s),
         NEW v \in Workflows, NEW t \in Reserved
  PROVE  /\ Tally(history'[v], t) <= Cardinality(Counted(t, v)')
         /\ t # "EXPIRED" => Tally(history'[v], t) = Cardinality(Counted(t, v)')
<1> DEFINE n == Tally(history[v], t)
           c == Cardinality(Counted(t, v))
           r == s.approval
<1>1. /\ rows \in [Workflows -> Row] /\ history \in [Workflows -> Seq(Transition)]
      /\ approvals \in [Approvals -> Request]
  BY DEF ApprovalInv, TypeOK
<1>2. /\ history'[w] = s.ledger /\ approvals' = [approvals EXCEPT ![a] = r]
      /\ \A x \in Workflows : x # w => history'[x] = history[x]
  BY <1>1 DEF Store
<1>3. r \in Approval /\ r.workflow = w
  <2>1. r.status # "none" /\ r.workflow = w
    BY DEF Asks, Settles, Drops, GoesOn
  <2> QED BY <2>1, RequestFits, RequestsDiffer DEF Sound
<1>4. /\ c \in Nat
      /\ Cardinality(Counted(t, v)') = c + (IF Gains(a, r, t, v) THEN 1 ELSE 0)
  <2> HIDE DEF r
  <2>1. ~ Submitted(a) \/ (IsPending(a) /\ r.workflow = approvals[a].workflow)
    BY <1>3
  <2> QED BY <1>2, <1>3, <2>1, Recount
<1>5. n \in Nat /\ n <= c /\ (t # "EXPIRED" => n = c)
  <2>1. Edge("RECEIVED", "RECEIVED") \in Transition
    BY DEF Edge, Transition, WorkflowState
  <2> QED BY <1>1, <2>1, TallyAppend DEF OutcomesInv, Matches
<1>6. IsPending(a) => Submitted(a)
  BY RequestsDiffer DEF IsPending, Submitted
<1> HIDE DEF n, c, r
<1>7. CASE v # w
  <2>1. history'[v] = history[v] /\ ~ Gains(a, r, t, v)
    BY <1>2, <1>3, <1>7 DEF Gains
  <2>2. Tally(history'[v], t) = n /\ Cardinality(Counted(t, v)') = c
    BY <1>4, <2>1 DEF n
  <2> QED BY <1>5, <2>2
<1>8. CASE v = w
  <2>1. CASE ~ Submitted(a) /\ Asks(w, s)
    <3>1. Tally(s.ledger, t) = n + (IF t = "WAITING_FOR_APPROVAL" THEN 1 ELSE 0)
      BY <2>1, <1>8 DEF Asks, Added, n
    <3>2. Gains(a, r, t, v) <=> t = "WAITING_FOR_APPROVAL"
      BY <2>1, <1>3, <1>8 DEF Gains, Asks, Reserved, r
    <3> QED BY <3>1, <3>2, <1>2, <1>4, <1>5, <1>8
  <2>2. CASE IsPending(a) /\ Settles(w, s)
    <3>1. Tally(s.ledger, t) = n + (IF t = r.status THEN 1 ELSE 0)
      BY <2>2, <1>8 DEF Settles, Added, n, r
    <3>2. Gains(a, r, t, v) <=> t = r.status
      BY <2>2, <1>3, <1>6, <1>8 DEF Gains, Settles, r
    <3> QED BY <3>1, <3>2, <1>2, <1>4, <1>5, <1>8
  <2>3. CASE IsPending(a) /\ Drops(w, s)
    <3>1. Tally(s.ledger, t) = n
      BY <2>3, <1>5, <1>8 DEF Drops, Added, n, Reserved
    <3>2. Gains(a, r, t, v) => t = "EXPIRED"
      BY <2>3, <1>3, <1>6, <1>8 DEF Gains, Drops, r, Reserved
    <3> QED BY <3>1, <3>2, <1>2, <1>4, <1>5, <1>8
  <2>4. CASE IsPending(a) /\ GoesOn(w, s)
    <3>1. Tally(s.ledger, t) = n
      BY <2>4, <1>8 DEF GoesOn, n
    <3>2. ~ Gains(a, r, t, v)
      BY <2>4, <1>6 DEF Gains, GoesOn, r, Reserved
    <3> QED BY <3>1, <3>2, <1>2, <1>4, <1>5, <1>8
  <2> QED BY <2>1, <2>2, <2>3, <2>4
<1> QED BY <1>7, <1>8

\* And whether a workflow waits.
LEMMA StoreWaits ==
  ASSUME ApprovalInv, OutcomesInv,
         NEW w \in Workflows, NEW a \in Approvals, NEW s \in Fit, Store(w, a, s),
         \/ ~ Submitted(a) /\ With("PENDING", w) = {} /\ Asks(w, s)
         \/ /\ IsPending(a) /\ approvals[a].workflow = w
            /\ Settles(w, s) \/ Drops(w, s) \/ GoesOn(w, s),
         NEW v \in Workflows
  PROVE  Waits(v)'
<1>1. /\ rows'[w] = s.row /\ approvals'[a] = s.approval
      /\ \A x \in Workflows : x # w => rows'[x] = rows[x]
      /\ \A b \in Approvals : b # a => approvals'[b] = approvals[b]
  BY DEF Store, ApprovalInv, TypeOK
<1>2. s.approval.workflow = w
  BY DEF Asks, Settles, Drops, GoesOn
<1>3. Submitted(a) => approvals[a].workflow = w
  BY DEF IsPending, Submitted
<1>4. approvals[a].status = "PENDING" => Submitted(a)
  BY RequestsDiffer DEF Submitted
<1>5. Waits(v)
  BY DEF OutcomesInv
<1>6. CASE v # w
  <2>1. With("PENDING", v)' = With("PENDING", v)
    BY <1>1, <1>2, <1>3, <1>4, <1>6 DEF With
  <2> QED BY <2>1, <1>1, <1>5, <1>6 DEF Waits
<1>7. CASE v = w
  <2>1. CASE ~ Submitted(a) /\ With("PENDING", w) = {} /\ Asks(w, s)
    <3>1. With("PENDING", w)' = {a}
      BY <1>1, <2>1 DEF With, Asks
    <3>2. rows'[w].state = "WAITING_FOR_APPROVAL"
      BY <1>1, <2>1 DEF Asks
    <3> QED BY <3>1, <3>2, <1>7 DEF Waits
  <2>2. CASE IsPending(a) /\ approvals[a].workflow = w /\ (Settles(w, s) \/ Drops(w, s))
    <3>1. a \in With("PENDING", w)
      BY <2>2 DEF With, IsPending
    <3>2. With("PENDING", w) = {a}
      BY <3>1, <1>5, <1>7 DEF Waits
    <3>3. s.approval.status # "PENDING" /\ s.row.state # "WAITING_FOR_APPROVAL"
      BY <2>2 DEF Settles, Drops
    <3>4. With("PENDING", w)' = {}
      BY <1>1, <3>2, <3>3 DEF With
    <3> QED BY <3>3, <3>4, <1>1, <1>7 DEF Waits
  <2>3. CASE IsPending(a) /\ approvals[a].workflow = w /\ GoesOn(w, s)
    <3>1. With("PENDING", w)' = With("PENDING", w)
      BY <1>1, <2>3 DEF With, GoesOn, IsPending
    <3>2. rows'[w].state = rows[w].state
      BY <1>1, <2>3 DEF GoesOn
    <3> QED BY <3>1, <3>2, <1>5, <1>7 DEF Waits
  <2> QED BY <2>1, <2>2, <2>3
<1> QED BY <1>6, <1>7

-----------------------------------------------------------------------------
(***************************************************************************)
(* The other calls, the steps and the theorems.                            *)
(***************************************************************************)

\* A call of the workflow service that is not asked for a reserved state
\* moves no workflow into one, and one that waits it can only cancel.
LEMMA ServiceReservesNone ==
  ASSUME CallerTargets \cap Reserved = {}, TypeOK, ServiceNext, NEW v \in Workflows
  PROVE  /\ \A t \in Reserved : Tally(history'[v], t) = Tally(history[v], t)
         /\ \/ rows'[v].state = rows[v].state
            \/ /\ rows'[v].state \notin Reserved
               /\ rows[v].state # "CANCELLED"
               /\ rows[v].state = "WAITING_FOR_APPROVAL" => rows'[v].state = "CANCELLED"
<1> DEFINE Leaves(from, to) ==
             /\ to \notin Reserved /\ from # "CANCELLED"
             /\ from = "WAITING_FOR_APPROVAL" => to = "CANCELLED"
           Goal == /\ \A t \in Reserved : Tally(history'[v], t) = Tally(history[v], t)
                   /\ \/ rows'[v].state = rows[v].state
                      \/ Leaves(rows[v].state, rows'[v].state)
<1> SUFFICES Goal
  OBVIOUS
<1>a. /\ created \subseteq Workflows /\ rows \in [Workflows -> Row]
      /\ history \in [Workflows -> Seq(Transition)]
      /\ clarifications \in [Clarifications -> Clarification]
      /\ \A u \in Workflows : rows[u] \in Row /\ rows[u].state \in WorkflowState
      /\ \A u \in Workflows : history[u] \in Seq(Transition)
  BY DEF TypeOK, Row
<1>b. \A s, t \in WorkflowState : Edge(s, t) \in Transition /\ Edge(s, t).to = t
  BY DEF Edge, Transition
<1>c. {"RECEIVED", "CLASSIFYING", "NEEDS_CLARIFICATION", "CANCELLED", "FAILED",
       "RETRY_SCHEDULED"} \subseteq WorkflowState \ Reserved
  BY DEF WorkflowState, Reserved
<1>1. CASE UNCHANGED <<rows, history>>
  BY <1>1
<1>2. ASSUME NEW w \in Workflows, NEW row, WriteRow(w, row), row.state = rows[w].state
      PROVE  Goal
  BY <1>2, <1>a DEF WriteRow
<1>3. ASSUME NEW w \in Workflows, NEW row, NEW added,
             WriteMove(w, row, added), Leaves(rows[w].state, row.state),
             \/ \E e \in Transition : added = <<e>> /\ e.to \notin Reserved
             \/ \E e, f \in Transition :
                  added = <<e, f>> /\ e.to \notin Reserved /\ f.to \notin Reserved
      PROVE  Goal
  <2>1. \A t \in Reserved : Tally(history[w] \o added, t) = Tally(history[w], t)
    <3>1. ASSUME NEW ledger \in Seq(Transition), NEW e \in Transition, e.to \notin Reserved,
                 NEW t \in Reserved
          PROVE  /\ ledger \o <<e>> \in Seq(Transition)
                 /\ Tally(ledger \o <<e>>, t) = Tally(ledger, t)
      <4>1. /\ Tally(ledger, t) \in Nat
            /\ Append(ledger, e) = ledger \o <<e>>
            /\ Append(ledger, e) \in Seq(Transition)
            /\ Tally(Append(ledger, e), t) = Tally(ledger, t) + (IF t = e.to THEN 1 ELSE 0)
        BY TallyAppend
      <4>2. t # e.to
        BY <3>1
      <4> QED BY <4>1, <4>2
    <3>2. CASE \E e \in Transition : added = <<e>> /\ e.to \notin Reserved
      BY <3>1, <3>2, <1>a
    <3>3. ASSUME NEW e \in Transition, NEW f \in Transition, added = <<e, f>>,
                 e.to \notin Reserved, f.to \notin Reserved, NEW t \in Reserved
          PROVE  Tally(history[w] \o added, t) = Tally(history[w], t)
      <4>1. history[w] \o <<e, f>> = (history[w] \o <<e>>) \o <<f>>
        BY <1>a, TwoEntries
      <4> DEFINE once == history[w] \o <<e>>
      <4>2. once \in Seq(Transition) /\ Tally(once, t) = Tally(history[w], t)
        BY <3>1, <3>3, <1>a
      <4>3. added = <<e, f>> /\ history[w] \o <<e, f>> = once \o <<f>>
        BY <4>1, <3>3
      <4> HIDE DEF once
      <4>4. Tally(once \o <<f>>, t) = Tally(once, t)
        BY <4>2, <3>1, <3>3
      <4> QED BY <4>2, <4>3, <4>4
    <3> QED BY <3>2, <3>3, <1>3
  <2>2. rows'[w] = row /\ history'[w] = history[w] \o added
    BY <1>3, <1>a DEF WriteMove
  <2>3. v # w => rows'[v] = rows[v] /\ history'[v] = history[v]
    BY <1>3, <1>a DEF WriteMove
  <2> HIDE DEF Leaves
  <2> QED BY <1>3, <2>1, <2>2, <2>3
<1>4. ASSUME NEW w \in created, WorkflowStep(w) PROVE Goal
  <2>1. w \in Workflows /\ rows[w] \in Row /\ rows[w].state \in WorkflowState
    BY <1>a
  <2>2. ASSUME NEW to \in CallerTargets, TransitionWorkflow(w, to) PROVE Goal
    <3>1. to \in WorkflowState /\ to \notin Reserved
      BY CallerTargetsAssumption
    <3>2. MovedTo(rows[w], to).state = to
      BY <2>1 DEF MovedTo, Row
    <3>3. WriteMove(w, MovedTo(rows[w], to), <<Edge(rows[w].state, to)>>)
      BY <2>2 DEF TransitionWorkflow
    <3>4. ~ IsTerminal(rows[w].state) /\ to \in VALID_TRANSITIONS[rows[w].state]
      BY <2>2 DEF TransitionWorkflow, CanMove, ValidTransition
    <3>5. Leaves(rows[w].state, to)
      BY <3>1, <3>4 DEF IsTerminal, TERMINAL_STATES, VALID_TRANSITIONS, Reserved
    <3> HIDE DEF Leaves, Goal
    <3> QED BY <2>1, <3>1, <3>2, <3>3, <3>5, <1>3, <1>b
  <2>3. CASE SetIntent(w) \/ PauseWorkflow(w) \/ ResumeWorkflow(w)
    <3>1. /\ [rows[w] EXCEPT !.intent = TRUE].state = rows[w].state
          /\ Paused(rows[w]).state = rows[w].state
          /\ Resumed(rows[w]).state = rows[w].state
      BY <2>1 DEF Row, Paused, Resumed
    <3> HIDE DEF Goal
    <3> QED BY <2>1, <2>3, <3>1, <1>2 DEF SetIntent, PauseWorkflow, ResumeWorkflow
  <2>4. CASE CancelWorkflow(w)
    <3>1. Cancelled(rows[w]).state = "CANCELLED"
      BY <2>1 DEF Cancelled, Row
    <3>2. WriteMove(w, Cancelled(rows[w]), <<Edge(rows[w].state, "CANCELLED")>>)
      BY <2>4 DEF CancelWorkflow
    <3>3. Leaves(rows[w].state, "CANCELLED")
      BY <2>4, <1>c DEF CancelWorkflow, IsTerminal, TERMINAL_STATES
    <3> HIDE DEF Leaves, Goal
    <3> QED BY <2>1, <3>1, <3>2, <3>3, <1>3, <1>b, <1>c
  <2>5. CASE RetryWorkflow(w)
    <3> DEFINE scheduled == RetryScheduled(rows[w])
               first     == Edge("FAILED", "RETRY_SCHEDULED")
               second    == Edge("RETRY_SCHEDULED", "RECEIVED")
               restarted == MovedTo(scheduled, "RECEIVED")
    <3>1. /\ first \in Transition /\ first.to \notin Reserved
          /\ second \in Transition /\ second.to \notin Reserved
      BY <1>b, <1>c
    <3>2. scheduled \in Row /\ scheduled.state = "RETRY_SCHEDULED"
      BY <2>1, RetryScheduledIsRow
    <3>3. \/ WriteMove(w, restarted, <<first, second>>)
          \/ WriteMove(w, scheduled, <<first>>)
      BY <2>5 DEF RetryWorkflow
    <3> HIDE DEF first, second, scheduled
    <3>4. restarted.state = "RECEIVED"
      BY <3>2 DEF MovedTo, Row
    <3> HIDE DEF restarted
    <3>5. Leaves(rows[w].state, restarted.state) /\ Leaves(rows[w].state, scheduled.state)
      BY <2>5, <3>2, <3>4, <1>c DEF RetryWorkflow
    <3> HIDE DEF Leaves, Goal
    <3>6. CASE WriteMove(w, restarted, <<first, second>>)
      BY <2>1, <3>1, <3>5, <3>6, <1>3
    <3>7. CASE WriteMove(w, scheduled, <<first>>)
      BY <2>1, <3>1, <3>5, <3>7, <1>3
    <3> QED BY <3>3, <3>6, <3>7
  <2>6. CASE \E c \in Clarifications : RequestClarification(w, c)
    BY <2>6, <1>1 DEF RequestClarification
  <2> HIDE DEF Goal
  <2> QED BY <1>4, <2>2, <2>3, <2>4, <2>5, <2>6 DEF WorkflowStep
<1>5. ASSUME NEW c \in Clarifications, RespondToClarification(c) PROVE Goal
  <2> DEFINE w     == clarifications[c].workflow
             awake == Resumed(rows[w])
             row   == MovedTo(awake, "CLASSIFYING")
             e     == Edge("NEEDS_CLARIFICATION", "CLASSIFYING")
  <2>1. w \in Workflows /\ rows[w] \in Row
    BY <1>a DEF Clarification
  <2>2. awake \in Row /\ awake.state = rows[w].state
    BY <2>1 DEF Resumed, Row
  <2>3. row.state = "CLASSIFYING"
    <3> HIDE DEF awake
    <3> QED BY <2>2 DEF MovedTo, Row
  <2>4. e \in Transition /\ e.to \notin Reserved
    BY <1>b, <1>c
  <2>5. \/ rows[w].state = "NEEDS_CLARIFICATION" /\ WriteMove(w, row, <<e>>)
        \/ WriteRow(w, awake)
    BY <1>5 DEF RespondToClarification
  <2> HIDE DEF w, awake, row, e
  <2>6. CASE rows[w].state = "NEEDS_CLARIFICATION" /\ WriteMove(w, row, <<e>>)
    <3>1. Leaves(rows[w].state, row.state)
      BY <2>3, <2>6, <1>c
    <3> HIDE DEF Leaves, Goal
    <3> QED BY <2>1, <2>4, <2>6, <3>1, <1>3
  <2>7. CASE WriteRow(w, awake)
    <3> HIDE DEF Goal
    <3> QED BY <2>1, <2>2, <2>7, <1>2
  <2> QED BY <2>5, <2>6, <2>7
<1>6. CASE \E w \in Workflows : CreateWorkflow(w)
  BY <1>6, <1>1 DEF CreateWorkflow
<1>7. CASE \E c \in Clarifications : ClarificationOverdue(c)
  BY <1>7, <1>1 DEF ClarificationOverdue
<1> HIDE DEF Goal
<1> QED BY <1>4, <1>5, <1>6, <1>7 DEF ServiceNext, ClarificationStep

\* At the start no workflow waits, and nothing was counted.
LEMMA OutcomesInit == ApprovalInit => OutcomesInv
<1> SUFFICES ASSUME ApprovalInit, NEW w \in Workflows PROVE Matches(w) /\ Waits(w)
  BY DEF OutcomesInv
<1>1. /\ history[w] = << >> /\ rows[w].state = "RECEIVED"
      /\ \A a \in Approvals : ~ Submitted(a) /\ approvals[a].status = "none"
  BY RequestsDiffer DEF ApprovalInit, ServiceInit, NewRow, Submitted
<1>2. \A t \in Reserved : EntriesTo(history[w], t) = {} /\ Counted(t, w) = {}
  BY <1>1 DEF EntriesTo, Counted, With, Reserved
<1>3. Cardinality({}) = 0
  BY FS_EmptySet
<1>4. Matches(w)
  BY <1>2, <1>3 DEF Matches, Tally
<1>5. With("PENDING", w) = {}
  BY <1>1 DEF With
<1>6. Waits(w)
  BY <1>1, <1>5 DEF Waits
<1> QED BY <1>4, <1>6

\* Every call that is served to its end keeps the invariant.
LEMMA OutcomesStep ==
  ASSUME IsFiniteSet(Approvals), CallerTargets \cap Reserved = {},
         ApprovalInv, OutcomesInv, [ApprovalNext]_vars
  PROVE  OutcomesInv'
<1>1. CASE ServiceNext /\ UNCHANGED approvals
  <2> SUFFICES ASSUME NEW v \in Workflows PROVE Matches(v)' /\ Waits(v)'
    BY DEF OutcomesInv
  <2>1. Matches(v) /\ Waits(v) /\ TypeOK
    BY DEF OutcomesInv, ApprovalInv
  <2>2. /\ \A t \in Reserved : Tally(history'[v], t) = Tally(history[v], t)
        /\ \/ rows'[v].state = rows[v].state
           \/ /\ rows'[v].state \notin Reserved
              /\ rows[v].state # "CANCELLED"
              /\ rows[v].state = "WAITING_FOR_APPROVAL" => rows'[v].state = "CANCELLED"
    BY <1>1, <2>1, ServiceReservesNone
  <2>3. /\ With("PENDING", v)' = With("PENDING", v)
        /\ \A t : Counted(t, v)' = Counted(t, v)
    BY <1>1 DEF With, Counted, Submitted
  <2>4. Matches(v)'
    BY <2>1, <2>2, <2>3 DEF Matches
  <2>5. Waits(v)'
    BY <2>1, <2>2, <2>3 DEF Waits, Reserved
  <2> QED BY <2>4, <2>5
<1>2. ASSUME NEW a \in Approvals, ApprovalStep(a), ~ Overdue(a)
      PROVE  OutcomesInv'
  <2>1. PICK w \in Workflows, s \in Fit :
           /\ Store(w, a, s)
           /\ \/ ~ Submitted(a) /\ With("PENDING", w) = {} /\ Asks(w, s)
              \/ /\ IsPending(a) /\ approvals[a].workflow = w
                 /\ Settles(w, s) \/ Drops(w, s) \/ GoesOn(w, s)
    BY <1>2, CallsConclude
  <2>2. ASSUME NEW v \in Workflows PROVE Matches(v)'
    <3>1. ASSUME NEW t \in Reserved
          PROVE  /\ Tally(history'[v], t) <= Cardinality(Counted(t, v)')
                 /\ t # "EXPIRED" => Tally(history'[v], t) = Cardinality(Counted(t, v)')
      BY <2>1, StoreMatches
    <3> QED BY <3>1 DEF Matches
  <2>3. ASSUME NEW v \in Workflows PROVE Waits(v)'
    BY <2>1, StoreWaits
  <2> QED BY <2>2, <2>3 DEF OutcomesInv
<1>3. CASE \E a \in Approvals : Overdue(a)
  <2>1. PICK a \in Approvals : Overdue(a)
    BY <1>3
  <2>2. /\ UNCHANGED <<rows, history>>
        /\ \A b \in Approvals : /\ approvals'[b].status = approvals[b].status
                                /\ approvals'[b].workflow = approvals[b].workflow
                                /\ (approvals'[b] # NoApproval <=> approvals[b] # NoApproval)
    <3>1. approvals[a] \in Approval
      BY <2>1, PendingIsSound DEF Overdue, Sound
    <3>2. \A b \in Approvals : b # a => approvals'[b] = approvals[b]
      BY <2>1 DEF Overdue, ApprovalInv
    <3>3. approvals'[a] = [approvals[a] EXCEPT !.overdue = TRUE]
      BY <2>1 DEF Overdue, ApprovalInv
    <3>4. /\ approvals'[a].status = approvals[a].status
          /\ approvals'[a].workflow = approvals[a].workflow
          /\ approvals'[a] \in Approval
      BY <3>1, <3>3 DEF Approval
    <3> QED BY <2>1, <3>1, <3>2, <3>4, RequestsDiffer DEF Overdue, serviceVars
  <2>3. \A v : /\ With("PENDING", v)' = With("PENDING", v)
               /\ \A t : Counted(t, v)' = Counted(t, v)
    BY <2>2 DEF With, Counted, Submitted
  <2> QED BY <2>2, <2>3 DEF OutcomesInv, Matches, Waits
<1>4. CASE UNCHANGED vars
  BY <1>4 DEF vars, OutcomesInv, Matches, Waits, Counted, With, Submitted
<1> QED BY <1>1, <1>2, <1>3, <1>4 DEF ApprovalNext

\* The invariant of calls that are served to their end.
LEMMA OutcomesAlways ==
  ASSUME IsFiniteSet(Approvals), CallerTargets \cap Reserved = {}
  PROVE  ApprovalSpec => [](ApprovalInv /\ OutcomesInv)
<1>1. ApprovalInit => ApprovalInv /\ OutcomesInv
  BY ApprovalStart, OutcomesInit
<1>2. ApprovalInv /\ OutcomesInv /\ [ApprovalNext]_vars => (ApprovalInv /\ OutcomesInv)'
  <2> SUFFICES ASSUME ApprovalInv, OutcomesInv, [ApprovalNext]_vars
               PROVE  ApprovalInv' /\ OutcomesInv'
    OBVIOUS
  <2>1. [CrashNext]_vars
    BY DEF CrashNext
  <2> QED BY <2>1, ApprovalInvStep, OutcomesStep
<1> QED BY <1>1, <1>2, PTL DEF ApprovalSpec

\* The ledger of a workflow and its requests tell the same story, for any
\* number of requests: as many entries into APPROVED, REJECTED and
\* WAITING_FOR_APPROVAL as there are approved, rejected and submitted
\* requests, and no more into EXPIRED than expired ones, as long as no caller
\* asks transition_workflow for these states.
THEOREM OutcomesAreTold ==
  ASSUME IsFiniteSet(Approvals), CallerTargets \cap Reserved = {}
  PROVE  ApprovalSpec => []OutcomesMatchLedger
<1>1. OutcomesInv => OutcomesMatchLedger
  <2> SUFFICES ASSUME OutcomesInv, NEW w \in Workflows
               PROVE  /\ Times(w, "APPROVED") = Cardinality(With("APPROVED", w))
                      /\ Times(w, "REJECTED") = Cardinality(With("REJECTED", w))
                      /\ Times(w, "EXPIRED") <= Cardinality(With("EXPIRED", w))
                      /\ Times(w, "WAITING_FOR_APPROVAL") = Cardinality(
                           {a \in Approvals : Submitted(a) /\ approvals[a].workflow = w})
    BY Zenon DEF OutcomesMatchLedger
  <2>1. \A t : Times(w, t) = Tally(history[w], t)
    BY Zenon DEF Times, Tally, EntriesTo
  <2>2. \A t \in Reserved :
          /\ Times(w, t) <= Cardinality(Counted(t, w))
          /\ t # "EXPIRED" => Times(w, t) = Cardinality(Counted(t, w))
    BY <2>1 DEF OutcomesInv, Matches
  <2> QED BY <2>2 DEF Reserved, Counted
<1> QED BY <1>1, OutcomesAlways, PTL

\* A workflow waits exactly while it has one pending request, for any number
\* of requests, unless it was cancelled over the request's head, as long as
\* no caller asks transition_workflow for a state that belongs to requests.
THEOREM WaitingHasOneRequest ==
  ASSUME IsFiniteSet(Approvals), CallerTargets \cap Reserved = {}
  PROVE  ApprovalSpec => []WaitsForOneRequest
<1>1. OutcomesInv => WaitsForOneRequest
  <2> SUFFICES ASSUME OutcomesInv, NEW w \in Workflows
               PROVE  Cardinality(With("PENDING", w)) <= 1
    BY DEF OutcomesInv, Waits, WaitsForOneRequest
  <2>1. \A a, b \in With("PENDING", w) : a = b
    BY DEF OutcomesInv, Waits
  <2>2. CASE With("PENDING", w) = {}
    BY <2>2, FS_EmptySet
  <2>3. ASSUME NEW a \in With("PENDING", w) PROVE Cardinality(With("PENDING", w)) <= 1
    <3>1. With("PENDING", w) = {a}
      BY <2>1, <2>3
    <3> QED BY <3>1, FS_Singleton
  <2> QED BY <2>2, <2>3
<1> QED BY <1>1, OutcomesAlways, PTL

=============================================================================
