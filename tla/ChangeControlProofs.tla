------------------------ MODULE ChangeControlProofs ------------------------
(***************************************************************************)
(* No change without a grant: the argument that the orchestration          *)
(* implements ChangeControl, whatever its constants are.                   *)
(*                                                                         *)
(* Only the last decision of a workflow is ever carried out, and at most   *)
(* once: a run that executes, a workflow that is APPROVED and a request    *)
(* that is pending all stand for the last decision, its proposal is the    *)
(* last proposal, and nothing was applied on it yet.                       *)
(*                                                                         *)
(* And no completion without its change: what a completed workflow         *)
(* proposed was applied, and is on record.                                 *)
(*                                                                         *)
(* And no repetition without a crash: what is on record, or has only to be *)
(* recorded, is not applied.                                               *)
(***************************************************************************)
EXTENDS OrchestratorProofs, FiniteSetTheorems

LastPlace(w) == Len(decisions[w])
Last(w) == decisions[w][LastPlace(w)]

\* Nothing was applied on the last decision, which is about the last proposal.
Open(w) ==
  /\ LastPlace(w) > 0 /\ Last(w).proposal = proposal[w]
  /\ \A c \in applied : c.workflow = w => c.of < LastPlace(w)

Judged(w) ==
  \A i \in 1 .. LastPlace(w) :
    decisions[w][i].decision = Verdict(request[w], decisions[w][i].proposal)

MayExecute(w) ==
  At(w, "execute") \/ state[w] = "APPROVED" => Open(w) /\ Granted(w, LastPlace(w))

\* Nothing runs on a workflow that waits for an approval or was approved.
Rests(w) == state[w] = "APPROVED" \/ Pending(w) # {} => At(w, "idle")

Waiting(w) ==
  \A a \in Pending(w) :
    /\ Open(w) /\ a.of = LastPlace(w) /\ a.proposal = Last(w).proposal
    /\ Last(w).decision = "REQUIRE_APPROVAL"
    /\ state[w] = "WAITING_FOR_APPROVAL" \/ IsTerminal(state[w])

AppliedRightly(w) ==
  \A c \in applied : c.workflow = w =>
    /\ c.of \in 1 .. LastPlace(w) /\ c.proposal.type # "NO_ACTION"
    /\ decisions[w][c.of].proposal = c.proposal
    /\ Granted(w, c.of)

GrantInv(w) == Judged(w) /\ MayExecute(w) /\ Rests(w) /\ Waiting(w) /\ AppliedRightly(w)
ControlInv == TypeInv /\ \A w \in Workflows : GrantInv(w)

-----------------------------------------------------------------------------
\* What a step must leave alone, and when it may begin to execute, if it
\* neither decides, proposes, resolves nor applies.
Quiet(w) ==
  /\ request'[w] = request[w] /\ decisions'[w] = decisions[w]
  /\ approvals'[w] = approvals[w] /\ proposal'[w] = proposal[w]
  /\ \A c \in applied' : c.workflow = w => c \in applied
  /\ run'[w].stage = "execute" => At(w, "execute") \/ state[w] = "APPROVED"
  /\ state'[w] = "APPROVED" => state[w] = "APPROVED" /\ run'[w].stage = "idle"
  /\ Pending(w) # {} =>
       /\ run'[w].stage = "idle"
       /\ state'[w] = "WAITING_FOR_APPROVAL" \/ IsTerminal(state'[w])

\* Decisions, and the approvals given on them, are for good.
GrantsKept(w) ==
  \A i \in 1 .. LastPlace(w) :
    /\ i \in 1 .. LastPlace(w)' /\ decisions'[w][i] = decisions[w][i]
    /\ Granted(w, i) => Granted(w, i)'

\* A quiet step keeps what is known of the grants of a workflow.
LEMMA QuietKeeps ==
  ASSUME NEW w \in Workflows, GrantInv(w), Quiet(w)
  PROVE  GrantInv(w)' /\ GrantsKept(w)
<1> USE DEF Quiet, GrantInv
<1>1. Pending(w)' = Pending(w) /\ LastPlace(w)' = LastPlace(w) /\ Last(w)' = Last(w)
  BY DEF Pending, LastPlace, Last
<1>2. \A i : Granted(w, i)' <=> Granted(w, i)
  BY DEF Granted, Approved
<1>3. Open(w) => Open(w)'
  BY <1>1 DEF Open
<1>4. Judged(w)'
  BY <1>1 DEF Judged
<1>5. MayExecute(w)'
  BY <1>1, <1>2, <1>3 DEF MayExecute, At
<1>6. Rests(w)'
  BY <1>1 DEF Rests, At
<1>7. Waiting(w)'
  BY <1>1, <1>3 DEF Waiting
<1>8. AppliedRightly(w)'
  BY <1>1, <1>2 DEF AppliedRightly
<1>9. GrantsKept(w)
  BY <1>1, <1>2 DEF GrantsKept
<1> QED
  BY <1>4, <1>5, <1>6, <1>7, <1>8, <1>9

\* What another workflow does is quiet here.
Elsewhere(v) ==
  /\ request'[v] = request[v] /\ decisions'[v] = decisions[v]
  /\ approvals'[v] = approvals[v] /\ proposal'[v] = proposal[v]
  /\ run'[v] = run[v] /\ state'[v] = state[v]
  /\ \A c \in applied' : c.workflow = v => c \in applied

\* So a step of another workflow is quiet.
LEMMA ElsewhereQuiet ==
  ASSUME NEW v \in Workflows, GrantInv(v), Elsewhere(v)
  PROVE  Quiet(v)
  BY DEF Elsewhere, Quiet, GrantInv, Rests, Waiting, At

\* A step of one workflow is elsewhere for all others.
LEMMA StepElsewhere ==
  ASSUME TypeInv, NEW w \in Workflows, StartRun(w) \/ RunStep(w) \/ UserStep(w),
         NEW v \in Workflows, v # w
  PROVE  Elsewhere(v)
<1> USE DEF TypeInv, RowType, FactType, ApprovalsType, RunType, Elsewhere,
            rowVars, factVars, hrVars
<1>1. ASSUME NEW to, NEW next, Fail(w) \/ MoveOn(w, to, next) \/ MoveAndEnd(w, to)
      PROVE  run'[v] = run[v] /\ state'[v] = state[v]
  BY <1>1 DEF Fail, MoveOn, MoveAndEnd, Enter, EndRun
<1>2. CASE StartRun(w)
  BY <1>2 DEF StartRun, Start
<1>3. CASE AskAgain(w) \/ AgentFails(w)
  BY <1>3, <1>1 DEF AskAgain, AgentFails
<1>4. CASE Classify(w)
  BY <1>4, <1>1 DEF Classify
<1>5. CASE FetchContext(w)
  BY <1>5, <1>1 DEF FetchContext, Enter
<1>6. CASE Investigate(w) \/ GroundInPolicy(w) \/ Propose(w)
  BY <1>6, <1>1 DEF Investigate, GroundInPolicy, Propose
<1>7. CASE Review(w)
  <2>1. /\ UNCHANGED <<request, proposal, applied>>
        /\ decisions'[v] = decisions[v]
        /\ \/ /\ \E to, next : Fail(w) \/ MoveOn(w, to, next) \/ MoveAndEnd(w, to)
              /\ approvals' = approvals
           \/ AskApproval(w)
    BY <1>7 DEF Review, Obey
  <2> QED
    BY <2>1, <1>1 DEF AskApproval, EndRun
<1>8. CASE SkipAdapter(w) \/ RefuseInDryRun(w) \/ RecordKey(w) \/ Finish(w)
  BY <1>8, <1>1 DEF SkipAdapter, RefuseInDryRun, RecordKey, Finish, Enter, EndRun
<1>9. CASE WriteRecord(w)
  <2>1. \A c \in applied' : c.workflow = v => c \in applied
    BY <1>9 DEF WriteRecord, ThisChange
  <2> QED
    BY <1>9, <2>1 DEF WriteRecord, Enter
<1>10. CASE UserStep(w)
  BY <1>10 DEF UserStep, Pause, Resume, Cancel, RequestTransition, SetIntent, Retry, Clarify,
              Resolve, SetState, SetPause
<1> QED
  BY <1>2, <1>3, <1>4, <1>5, <1>6, <1>7, <1>8, <1>9, <1>10 DEF RunStep

\* A workflow that rests takes no step of a run.
LEMMA RunningIsAlone ==
  ASSUME NEW w \in Workflows, GrantInv(w), run[w].stage # "idle"
  PROVE  state[w] # "APPROVED" /\ Pending(w) = {}
  BY DEF GrantInv, Rests, At

\* Nothing leads into APPROVED that a run or a caller takes.
LEMMA MovesQuiet ==
  ASSUME TypeInv, NEW w \in Workflows, GrantInv(w), run[w].stage # "idle",
         NEW to \in WorkflowState \ {"APPROVED"}, NEW next \in Stage,
         Fail(w) \/ MoveOn(w, to, next) \/ MoveAndEnd(w, to)
  PROVE  /\ run'[w].stage \in {"idle", next} /\ state'[w] # "APPROVED"
         /\ Pending(w) = {}
  BY MovesType, RunningIsAlone

\* Of the steps of a run, these neither propose, decide nor apply.
LEMMA RunStepQuiet ==
  ASSUME TypeInv, NEW w \in Workflows, GrantInv(w),
         \/ StartRun(w) \/ AskAgain(w) \/ AgentFails(w) \/ Classify(w) \/ FetchContext(w)
         \/ Investigate(w) \/ GroundInPolicy(w)
         \/ SkipAdapter(w) \/ RefuseInDryRun(w) \/ RecordKey(w) \/ Finish(w)
  PROVE  Quiet(w)
<1>1. UNCHANGED <<request, proposal, decisions, approvals, applied>>
  BY DEF StartRun, AskAgain, AgentFails, Classify, FetchContext, Investigate, GroundInPolicy,
         SkipAdapter, RefuseInDryRun, RecordKey, Finish, factVars, hrVars
<1>2. /\ {"NEEDS_CLARIFICATION", "POLICY_RETRIEVAL", "ACTION_PROPOSED", "FAILED"}
           \subseteq WorkflowState \ {"APPROVED"}
      /\ {"idle", "context", "policy", "propose"} \subseteq Stage
  BY DEF WorkflowState, Stage, AgentStage
<1>3. state \in [Workflows -> WorkflowState] /\ run \in [Workflows -> RunOf]
  BY DEF TypeInv, RowType, RunType
<1>4. CASE StartRun(w)
  <2>1. /\ run'[w].stage = "execute" => state[w] = "APPROVED"
        /\ state'[w] # "APPROVED"
        /\ state[w] \in {"RECEIVED", "CLASSIFYING", "APPROVED"}
    BY <1>4, <1>3 DEF StartRun, Start, RunOf
  <2>2. Pending(w) = {}
    BY <2>1 DEF GrantInv, Waiting, IsTerminal, TERMINAL_STATES
  <2> QED
    BY <1>1, <2>1, <2>2 DEF Quiet
<1>5. CASE ~ StartRun(w)
  <2>1. run[w].stage # "idle"
    BY <1>5 DEF AskAgain, AgentFails, Classify, FetchContext, Investigate, GroundInPolicy,
              SkipAdapter, RefuseInDryRun, RecordKey, Finish, At, AgentStage
  <2>2. state[w] # "APPROVED" /\ Pending(w) = {}
    BY <2>1, RunningIsAlone
  <2>3. run'[w].stage # "execute" /\ state'[w] # "APPROVED"
    <3>1. CASE AskAgain(w)
      <4>1. state' = state /\ run[w].stage # "execute"
        BY <3>1 DEF AskAgain, rowVars, AgentStage
      <4>2. run'[w] = [run[w] EXCEPT !.tries = run[w].tries + 1]
        BY <3>1, <1>3 DEF AskAgain
      <4>3. run'[w].stage = run[w].stage
        <5>1. run[w] \in RunOf
          BY <1>3
        <5> QED
          BY <4>2, <5>1 DEF RunOf
      <4> QED
        BY <4>1, <4>3, <2>2
    <3>2. CASE AgentFails(w) \/ RefuseInDryRun(w)
      BY <3>2, <2>1, <1>2, MovesQuiet DEF AgentFails, RefuseInDryRun
    <3>3. CASE Classify(w)
      <4>1. CASE MoveAndEnd(w, "NEEDS_CLARIFICATION")
        BY <4>1, <2>1, <1>2, MovesQuiet
      <4>2. CASE ~ MoveAndEnd(w, "NEEDS_CLARIFICATION")
        <5>1. PICK i : /\ state' = state
                       /\ run' = [run EXCEPT ![w].stage = "context", ![w].tries = 0,
                                             ![w].system = Implied(w, i)]
          BY <3>3, <4>2 DEF Classify
        <5> QED
          BY <5>1, <2>2, <1>3 DEF RunOf
      <4> QED
        BY <4>1, <4>2
    <3>4. CASE FetchContext(w)
      <4>1. CASE Fail(w)
        BY <4>1, <2>1, <1>2, MovesQuiet
      <4>2. CASE ~ Fail(w)
        <5>1. state' = [state EXCEPT ![w] = "INVESTIGATING"]
          BY <4>2, <3>4 DEF FetchContext
        <5>2. run[w] \in RunOf /\ DOMAIN run = Workflows
          BY <1>3
        <5>3. run'[w].stage = "investigate"
          <6>1. CASE Enter(w, "investigate")
            BY <6>1, <5>2 DEF Enter, RunOf
          <6>2. CASE \E seen, old : run' = [run EXCEPT ![w] =
                       [@ EXCEPT !.stage = "investigate", !.seen = seen, !.old = old]]
            BY <6>2, <5>2 DEF RunOf
          <6> QED
            BY <4>2, <3>4, <6>1, <6>2 DEF FetchContext
        <5> QED
          BY <5>1, <5>3, <1>3
      <4> QED
        BY <4>1, <4>2
    <3>5. CASE Investigate(w) \/ GroundInPolicy(w)
      BY <3>5, <2>1, <1>2, MovesQuiet DEF Investigate, GroundInPolicy
    <3>6. CASE SkipAdapter(w) \/ RecordKey(w)
      BY <3>6, <2>2, <1>3 DEF SkipAdapter, RecordKey, Enter, rowVars, RunOf
    <3>7. CASE Finish(w)
      <4>1. CASE Fail(w)
        BY <4>1, <2>1, <1>2, MovesQuiet
      <4>2. CASE ~ Fail(w)
        BY <4>2, <3>7, <1>3 DEF Finish, EndRun, Idle
      <4> QED
        BY <4>1, <4>2
    <3> QED
      BY <3>1, <3>2, <3>3, <3>4, <3>5, <3>6, <3>7, <1>5
  <2> QED
    BY <1>1, <2>2, <2>3 DEF Quiet
<1> QED
  BY <1>4, <1>5

\* Of the calls of others, all but the resolution of an approval are quiet.
LEMMA UserStepQuiet ==
  ASSUME TypeInv, NEW w \in Workflows, GrantInv(w), UserStep(w), ~ Resolve(w)
  PROVE  Quiet(w)
<1>1. UNCHANGED <<request, proposal, decisions, approvals, applied, run>>
  BY DEF UserStep, Pause, Resume, Cancel, RequestTransition, SetIntent, Retry, Clarify,
         factVars, hrVars
<1>2. state[w] \in WorkflowState
  BY DEF TypeInv, RowType
<1>3. \/ state'[w] = state[w]
      \/ state'[w] = "CANCELLED"
      \/ CanMove(w, state'[w]) /\ state'[w] # "APPROVED"
      \/ state[w] \in {"FAILED", "NEEDS_CLARIFICATION"} /\ state'[w] # "APPROVED"
  <2>1. CASE Pause(w) \/ Resume(w) \/ SetIntent(w)
    BY <2>1 DEF Pause, Resume, SetIntent
  <2>2. CASE Cancel(w)
    BY <2>2 DEF Cancel, SetState, TypeInv, RowType
  <2>3. CASE RequestTransition(w)
    BY <2>3, CallerTargetsAssumption DEF RequestTransition, SetState, TypeInv, RowType
  <2>4. CASE Retry(w) \/ Clarify(w)
    BY <2>4 DEF Retry, Clarify, SetState, TypeInv, RowType
  <2> QED
    BY <2>1, <2>2, <2>3, <2>4 DEF UserStep
<1>4. state'[w] = "APPROVED" => state[w] = "APPROVED" /\ run'[w].stage = "idle"
  BY <1>1, <1>3 DEF GrantInv, Rests, At
<1>5. ASSUME Pending(w) # {}
      PROVE  /\ run'[w].stage = "idle"
             /\ state'[w] = "WAITING_FOR_APPROVAL" \/ IsTerminal(state'[w])
  <2>1. state[w] = "WAITING_FOR_APPROVAL" \/ IsTerminal(state[w])
    BY <1>5 DEF GrantInv, Waiting
  <2>2. \A to : ValidTransition("WAITING_FOR_APPROVAL", to) /\ to # "APPROVED" => IsTerminal(to)
    BY DEF ValidTransition, VALID_TRANSITIONS, IsTerminal, TERMINAL_STATES
  <2>3. ~ IsTerminal("FAILED") /\ ~ IsTerminal("NEEDS_CLARIFICATION") /\ IsTerminal("CANCELLED")
    BY DEF IsTerminal, TERMINAL_STATES
  <2>4. state'[w] = "WAITING_FOR_APPROVAL" \/ IsTerminal(state'[w])
    BY <1>3, <2>1, <2>2, <2>3 DEF CanMove
  <2> QED
    BY <1>1, <1>5, <2>4 DEF GrantInv, Rests, At
<1> QED
  BY <1>1, <1>4, <1>5 DEF Quiet, At

\* Somebody else's edit, time and a crash start nothing.
LEMMA WorldQuiet ==
  ASSUME NEW w \in Workflows, GrantInv(w), Crash \/ \E s \in Systems : Edit(s) \/ Ages(s)
  PROVE  Quiet(w)
  BY DEF Crash, Edit, Ages, rowVars, factVars, Quiet, GrantInv, Rests, Waiting, At, Idle

-----------------------------------------------------------------------------
\* A new proposal is made while nothing waits, and nothing executes on it yet.
LEMMA ProposeKeeps ==
  ASSUME TypeInv, NEW w \in Workflows, GrantInv(w), Propose(w)
  PROVE  GrantInv(w)' /\ GrantsKept(w)
<1>1. UNCHANGED <<request, decisions, approvals, applied>> /\ run[w].stage = "propose"
  BY DEF Propose, hrVars, At
<1>2. "COMPLIANCE_REVIEW" \in WorkflowState \ {"APPROVED"} /\ "review" \in Stage
  BY DEF WorkflowState, Stage, AgentStage
<1>3. MoveOn(w, "COMPLIANCE_REVIEW", "review")
  BY DEF Propose
<1>4. run'[w].stage \in {"idle", "review"} /\ state'[w] # "APPROVED" /\ Pending(w) = {}
  BY <1>1, <1>2, <1>3, MovesQuiet
<1>5. Pending(w)' = {}
  BY <1>1, <1>4 DEF Pending
<1>6. Judged(w)' /\ AppliedRightly(w)'
  BY <1>1 DEF GrantInv, Judged, AppliedRightly, LastPlace, Granted, Approved
<1>7. GrantsKept(w)
  BY <1>1 DEF GrantsKept, LastPlace, Granted, Approved
<1> QED
  BY <1>4, <1>5, <1>6, <1>7 DEF GrantInv, MayExecute, Rests, Waiting, At

\* The change is applied under the last decision, which is then used up: the
\* run goes on to the record of the key and executes no more.
LEMMA WriteKeeps ==
  ASSUME TypeInv, NEW w \in Workflows, GrantInv(w), WriteRecord(w)
  PROVE  GrantInv(w)' /\ GrantsKept(w)
<1>1. UNCHANGED <<rowVars, factVars, approvals>> /\ At(w, "execute") /\ ~ NothingToApply(w)
      /\ applied' = applied \cup {ThisChange(w)} /\ Enter(w, "record")
  BY DEF WriteRecord
<1>2. state[w] # "APPROVED" /\ Pending(w) = {}
  BY <1>1, RunningIsAlone DEF At
<1>3. run'[w].stage = "record"
  BY <1>1 DEF Enter, TypeInv, RunType, RunOf
<1>4. Pending(w)' = {} /\ state'[w] # "APPROVED"
  BY <1>1, <1>2 DEF Pending, rowVars
<1>5. Open(w) /\ Granted(w, LastPlace(w))
  BY <1>1 DEF GrantInv, MayExecute
<1>6. AppliedRightly(w)'
  <2>1. LastPlace(w) \in Nat
    BY DEF LastPlace, TypeInv, FactType
  <2>2. /\ LastPlace(w)' = LastPlace(w) /\ decisions' = decisions
        /\ \A i : Granted(w, i)' <=> Granted(w, i)
    BY <1>1 DEF LastPlace, Granted, Approved, factVars
  <2>3. /\ ThisChange(w).of = LastPlace(w) /\ ThisChange(w).proposal = proposal[w]
        /\ proposal[w].type # "NO_ACTION"
    BY <1>1 DEF ThisChange, LastPlace, NothingToApply
  <2>4. Last(w).proposal = proposal[w] /\ LastPlace(w) > 0
    BY <1>5 DEF Open
  <2> QED
    BY <1>1, <1>5, <2>1, <2>2, <2>3, <2>4 DEF AppliedRightly, GrantInv, Last
<1>7. Judged(w)'
  BY <1>1 DEF GrantInv, Judged, LastPlace, factVars
<1>8. GrantsKept(w)
  BY <1>1 DEF GrantsKept, LastPlace, Granted, Approved, factVars
<1> QED
  BY <1>3, <1>4, <1>6, <1>7, <1>8 DEF GrantInv, MayExecute, Rests, Waiting, At

\* The request that is resolved was the only one pending; if it was approved,
\* the last decision is granted.
LEMMA ResolveKeeps ==
  ASSUME TypeInv, NEW w \in Workflows, GrantInv(w), UserStep(w), Resolve(w)
  PROVE  GrantInv(w)' /\ GrantsKept(w)
<1>1. UNCHANGED <<request, proposal, decisions, applied, run>>
  BY DEF UserStep, factVars, hrVars
<1>2. PICK a \in Pending(w), outcome \in ApprovalStatus \ {"PENDING"} :
        /\ approvals' = [approvals EXCEPT ![w] = (@ \ {a}) \cup {[a EXCEPT !.status = outcome]}]
        /\ state' = [state EXCEPT ![w] = outcome]
  BY DEF Resolve, SetState
<1> DEFINE b == [a EXCEPT !.status = outcome]
<1>3. /\ a \in Approval /\ a.status = "PENDING" /\ b \in Approval
      /\ b.status = outcome /\ b.of = a.of /\ b.proposal = a.proposal
  BY DEF Pending, TypeInv, ApprovalsType, Approval
<1>4. approvals'[w] = (approvals[w] \ {a}) \cup {b} /\ state'[w] = outcome
  BY <1>2 DEF TypeInv, ApprovalsType, RowType
<1> HIDE DEF b
<1>5. /\ Open(w) /\ a.of = LastPlace(w) /\ a.proposal = Last(w).proposal
      /\ Last(w).decision = "REQUIRE_APPROVAL" /\ At(w, "idle")
  BY DEF GrantInv, Waiting, Rests
<1>6. Pending(w)' = {}
  <2>1. ASSUME NEW d \in Pending(w) PROVE d = a
    <3>1. d \in Approval /\ d.status = "PENDING"
      BY DEF Pending, TypeInv, ApprovalsType
    <3>2. d.of = a.of /\ d.proposal = a.proposal
      BY <1>5 DEF GrantInv, Waiting
    <3> QED
      BY <3>1, <3>2, <1>3 DEF Approval
  <2> QED
    BY <1>3, <1>4, <2>1 DEF Pending
<1>7. \A i : Granted(w, i) => Granted(w, i)'
  BY <1>1, <1>3, <1>4 DEF Granted, Approved
<1>8. LastPlace(w)' = LastPlace(w) /\ Last(w)' = Last(w) /\ (Open(w) => Open(w)')
  BY <1>1 DEF LastPlace, Last, Open
<1>9. outcome = "APPROVED" => Granted(w, LastPlace(w))'
  BY <1>1, <1>3, <1>4, <1>5 DEF Granted, Approved, Last, LastPlace
<1>10. MayExecute(w)' /\ Rests(w)' /\ Waiting(w)'
  BY <1>1, <1>4, <1>5, <1>6, <1>8, <1>9 DEF MayExecute, Rests, Waiting, At
<1>11. Judged(w)'
  BY <1>1 DEF GrantInv, Judged, LastPlace
<1>12. AppliedRightly(w)'
  BY <1>1, <1>7, <1>8 DEF GrantInv, AppliedRightly
<1>13. GrantsKept(w)
  BY <1>1, <1>7, <1>8 DEF GrantsKept
<1> QED
  BY <1>10, <1>11, <1>12, <1>13 DEF GrantInv

\* A decision is appended: nothing was applied on it yet, and it lets the
\* workflow execute only if it allows the change.
LEMMA ReviewKeeps ==
  ASSUME TypeInv, NEW w \in Workflows, GrantInv(w), Review(w)
  PROVE  GrantInv(w)' /\ GrantsKept(w)
<1> DEFINE verdict == Verdict(request[w], proposal[w])
           d == [decision |-> verdict, proposal |-> proposal[w]]
           n == LastPlace(w)
<1>1. /\ UNCHANGED <<request, proposal, applied>> /\ run[w].stage = "review"
  BY DEF Review, At, hrVars
<1>2. Pending(w) = {} /\ state[w] # "APPROVED"
  BY <1>1, RunningIsAlone
<1>3. decisions[w] \in Seq(Decided) /\ n \in Nat /\ proposal[w] \in Proposal
  BY <1>1 DEF TypeInv, FactType, LastPlace, Routed, HasProposal, Underway, Proposed
<1>4. /\ {"DENIED", "ESCALATED", "EXECUTING", "FAILED"} \subseteq WorkflowState \ {"APPROVED"}
      /\ {"idle", "execute"} \subseteq Stage
  BY DEF WorkflowState, Stage
<1>5. CASE decisions' = decisions /\ approvals' = approvals /\ Fail(w)
  <2>1. run'[w].stage = "idle" /\ state'[w] # "APPROVED"
    BY <1>1, <1>4, <1>5, MovesQuiet
  <2>2. Quiet(w)
    BY <1>1, <1>2, <1>5, <2>1 DEF Quiet
  <2> QED
    BY <2>2, QuietKeeps
<1>6. CASE /\ verdict \in ComplianceDecision
           /\ decisions' = [decisions EXCEPT ![w] = Append(@, d)]
           /\ Obey(w, verdict)
  <2>0. d \in Decided /\ d.decision = verdict /\ d.proposal = proposal[w]
    BY <1>3, <1>6 DEF Decided
  <2> HIDE DEF d
  <2>1. /\ decisions'[w] = Append(decisions[w], d)
        /\ LastPlace(w)' = n + 1 /\ Last(w)' = d
        /\ \A i \in 1 .. n : decisions'[w][i] = decisions[w][i]
    <3>1. decisions'[w] = Append(decisions[w], d)
      BY <1>6 DEF TypeInv, FactType
    <3>2. Len(Append(decisions[w], d)) = n + 1 /\ Append(decisions[w], d)[n + 1] = d
          /\ \A i \in 1 .. n : Append(decisions[w], d)[i] = decisions[w][i]
      BY <1>3, <2>0 DEF LastPlace
    <3> QED
      BY <3>1, <3>2 DEF LastPlace, Last
  <2>2. \A c \in applied : c.workflow = w => c.of \in 1 .. n
    BY DEF GrantInv, AppliedRightly
  <2>3. Open(w)'
    BY <1>1, <1>3, <2>0, <2>1, <2>2 DEF Open
  <2>4. Judged(w)'
    <3> SUFFICES ASSUME NEW i \in 1 .. n + 1
                 PROVE  decisions'[w][i].decision = Verdict(request[w], decisions'[w][i].proposal)
      BY <1>1, <2>1 DEF Judged, Verdict, ConflictDetected
    <3>1. CASE i = n + 1
      BY <3>1, <2>0, <2>1 DEF Last, LastPlace
    <3>2. CASE i # n + 1
      <4>1. i \in 1 .. n
        BY <3>2, <1>3
      <4>2. decisions'[w][i] = decisions[w][i]
        BY <4>1, <2>1
      <4>3. decisions[w][i].decision = Verdict(request[w], decisions[w][i].proposal)
        BY <4>1 DEF GrantInv, Judged
      <4> QED
        BY <4>2, <4>3
    <3> QED
      BY <3>1, <3>2
  <2>5. approvals[w] \subseteq approvals'[w]
    BY <1>6 DEF Obey, AskApproval, TypeInv, ApprovalsType
  <2>10. \A i \in 1 .. n : Granted(w, i) => Granted(w, i)'
    BY <2>1, <2>5 DEF Granted, Approved
  <2>6. AppliedRightly(w)'
    <3> QED
      <4> SUFFICES ASSUME NEW c \in applied, c.workflow = w
                   PROVE  /\ c.of \in 1 .. n + 1 /\ c.proposal.type # "NO_ACTION"
                          /\ decisions'[w][c.of].proposal = c.proposal
                          /\ Granted(w, c.of)'
        BY <1>1, <2>1 DEF AppliedRightly
      <4>1. /\ c.of \in 1 .. n /\ c.proposal.type # "NO_ACTION"
            /\ decisions[w][c.of].proposal = c.proposal /\ Granted(w, c.of)
        BY DEF GrantInv, AppliedRightly
      <4>2. c.of \in 1 .. n + 1
        BY <4>1, <1>3
      <4> QED
        BY <4>1, <4>2, <2>1, <2>10
  <2>7. /\ run'[w].stage \in {"idle", "execute"}
        /\ state'[w] # "APPROVED"
        /\ run'[w].stage = "execute" => verdict = "ALLOW" /\ Pending(w)' = {}
        /\ Pending(w)' # {} =>
             /\ Pending(w)' = {[of |-> n + 1, status |-> "PENDING", proposal |-> proposal[w]]}
             /\ verdict = "REQUIRE_APPROVAL" /\ state'[w] = "WAITING_FOR_APPROVAL"
             /\ run'[w].stage = "idle"
    <3> DEFINE r == [of |-> n + 1, status |-> "PENDING", proposal |-> proposal[w]]
    <3>1. CASE /\ verdict = "REQUIRE_APPROVAL"
               /\ approvals' = [approvals EXCEPT ![w] = @ \cup {r}]
               /\ state' = [state EXCEPT ![w] = "WAITING_FOR_APPROVAL"]
               /\ EndRun(w)
      <4>2. r.status = "PENDING"
        OBVIOUS
      <4> HIDE DEF r
      <4>3. Pending(w)' = {r}
        BY <3>1, <4>2, <1>2 DEF Pending, TypeInv, ApprovalsType
      <4>4. run'[w].stage = "idle" /\ state'[w] = "WAITING_FOR_APPROVAL"
        BY <3>1 DEF EndRun, Idle, TypeInv, RunType, RowType
      <4> QED
        BY <3>1, <4>3, <4>4 DEF r
    <3>2. CASE approvals' = approvals /\ Fail(w)
      BY <3>2, <1>1, <1>2, <1>4, MovesQuiet DEF Pending
    <3>3. CASE /\ approvals' = approvals
               /\ \/ MoveAndEnd(w, "DENIED") \/ MoveAndEnd(w, "ESCALATED")
      <4>1. run'[w].stage = "idle" /\ state'[w] # "APPROVED"
        BY <3>3, <1>1, <1>4, MovesQuiet
      <4> QED
        BY <3>3, <4>1, <1>2 DEF Pending
    <3>4. CASE approvals' = approvals /\ verdict = "ALLOW" /\ MoveOn(w, "EXECUTING", "execute")
      <4>1. run'[w].stage \in {"idle", "execute"} /\ state'[w] # "APPROVED"
        BY <3>4, <1>1, <1>4, MovesQuiet
      <4> QED
        BY <3>4, <4>1, <1>2 DEF Pending
    <3> QED
      BY <1>6, <3>1, <3>2, <3>3, <3>4 DEF Obey, AskApproval, LastPlace
  <2>8. MayExecute(w)'
    BY <2>0, <2>1, <2>3, <2>7 DEF MayExecute, At, Granted, Last
  <2>9. Rests(w)' /\ Waiting(w)'
    BY <2>0, <2>1, <2>3, <2>7 DEF Rests, Waiting, At
  <2>11. GrantsKept(w)
    <3>1. \A i \in 1 .. n : i \in 1 .. n + 1
      BY <1>3
    <3> QED
      BY <2>1, <2>10, <3>1 DEF GrantsKept
  <2> QED
    BY <2>4, <2>6, <2>8, <2>9, <2>11 DEF GrantInv
<1> QED
  BY <1>5, <1>6 DEF Review

-----------------------------------------------------------------------------
(***************************************************************************)
(* The theorems.                                                           *)
(***************************************************************************)

\* Nothing has been decided, so nothing can be carried out.
LEMMA ControlInitial == Init => ControlInv
<1> SUFFICES ASSUME Init PROVE ControlInv
  OBVIOUS
<1>1. TypeInv
  BY TypeInitial
<1>2. ASSUME NEW w \in Workflows PROVE GrantInv(w)
  <2>1. Pending(w) = {} /\ LastPlace(w) = 0 /\ run[w].stage = "idle" /\ state[w] = "RECEIVED"
    BY DEF Init, Pending, LastPlace, Idle
  <2> QED
    BY <2>1 DEF Init, GrantInv, Judged, MayExecute, Rests, Waiting, AppliedRightly, At
<1> QED
  BY <1>1, <1>2 DEF ControlInv

\* A step of workflow w keeps the invariant of w.
LEMMA StepKeeps ==
  ASSUME TypeInv, NEW w \in Workflows, GrantInv(w), StartRun(w) \/ RunStep(w) \/ UserStep(w)
  PROVE  GrantInv(w)' /\ GrantsKept(w)
<1>1. CASE Propose(w)
  BY <1>1, ProposeKeeps
<1>2. CASE Review(w)
  BY <1>2, ReviewKeeps
<1>3. CASE WriteRecord(w)
  BY <1>3, WriteKeeps
<1>4. CASE UserStep(w)
  BY <1>4, ResolveKeeps, UserStepQuiet, QuietKeeps
<1>5. CASE StartRun(w) \/ (RunStep(w) /\ ~ Propose(w) /\ ~ Review(w) /\ ~ WriteRecord(w))
  BY <1>5, RunStepQuiet, QuietKeeps DEF RunStep
<1> QED
  BY <1>1, <1>2, <1>3, <1>4, <1>5

\* The invariant is inductive, and what is granted stays granted.
LEMMA ControlInductive ==
  ASSUME ControlInv, [Next]_vars
  PROVE  ControlInv' /\ \A w \in Workflows : GrantsKept(w)
<1>1. TypeInv' /\ TypeInv
  BY TypeInductive DEF ControlInv
<1> SUFFICES ASSUME NEW v \in Workflows PROVE GrantInv(v)' /\ GrantsKept(v)
  BY <1>1 DEF ControlInv
<1>2. GrantInv(v)
  BY DEF ControlInv
<1>3. ASSUME NEW w \in Workflows, StartRun(w) \/ RunStep(w) \/ UserStep(w)
      PROVE  GrantInv(v)' /\ GrantsKept(v)
  <2>1. CASE v = w
    BY <2>1, <1>1, <1>2, <1>3, StepKeeps
  <2>2. CASE v # w
    BY <2>2, <1>1, <1>2, <1>3, StepElsewhere, ElsewhereQuiet, QuietKeeps
  <2> QED
    BY <2>1, <2>2
<1>4. CASE Crash \/ \E s \in Systems : Edit(s) \/ Ages(s)
  BY <1>2, <1>4, WorldQuiet, QuietKeeps
<1>5. CASE UNCHANGED vars
  <2>1. Elsewhere(v)
    BY <1>5 DEF vars, rowVars, factVars, hrVars, Elsewhere
  <2> QED
    BY <2>1, <1>2, ElsewhereQuiet, QuietKeeps
<1> QED
  BY <1>3, <1>4, <1>5 DEF Next

\* The invariant holds in every behaviour.
LEMMA ControlInvariant == Spec => []ControlInv
<1> QED
  BY ControlInitial, ControlInductive, PTL DEF Spec

\* HRIntegrationService.execute_action is reached only under a decision of
\* the compliance agent about exactly this change, allowed at once or through
\* an approval that was given: for any number of workflows, retries, crashes.
THEOREM ChangesAreGranted == Spec => []AppliedWasGranted
<1>1. ControlInv => AppliedWasGranted
  BY DEF ControlInv, GrantInv, AppliedRightly, AppliedWasGranted, LastPlace, TypeInv, HRType, Change
<1> QED
  BY <1>1, ControlInvariant, PTL

\* What ComplianceAgent rates high, and no request overrides, is applied only
\* after an approver agreed to it.
THEOREM HighRiskNeedsApproval == Spec => []HighRiskIsApproved
<1>1. ASSUME ControlInv, NEW c \in applied, request[c.workflow].high,
             request[c.workflow].override = Nil
      PROVE  Approved(c.workflow, c.of)
  <2> DEFINE w == c.workflow
  <2>1. w \in Workflows
    BY <1>1 DEF ControlInv, TypeInv, HRType, Change
  <2>2. /\ c.of \in 1 .. LastPlace(w) /\ c.proposal.type # "NO_ACTION"
        /\ decisions[w][c.of].proposal = c.proposal /\ Granted(w, c.of)
    BY <1>1, <2>1 DEF ControlInv, GrantInv, AppliedRightly
  <2>3. decisions[w][c.of].decision = Verdict(request[w], c.proposal)
    BY <1>1, <2>1, <2>2 DEF ControlInv, GrantInv, Judged
  <2>4. Verdict(request[w], c.proposal) # "ALLOW"
    BY <1>1, <2>2 DEF Verdict
  <2> QED
    BY <2>2, <2>3, <2>4 DEF Granted
<1>2. ControlInv => HighRiskIsApproved
  BY <1>1 DEF HighRiskIsApproved
<1> QED
  BY <1>2, ControlInvariant, PTL

\* Only the write of an adapter applies a change.
LEMMA OnlyWritesApply ==
  ASSUME [Next]_vars
  PROVE  \/ applied' = applied /\ writes' = writes
         \/ \E w \in Workflows : WriteRecord(w)
<1>1. ASSUME NEW w \in Workflows, StartRun(w) \/ RunStep(w) \/ UserStep(w), ~ WriteRecord(w)
      PROVE  applied' = applied /\ writes' = writes
  BY <1>1 DEF StartRun, RunStep, AskAgain, AgentFails, Classify, FetchContext, Investigate,
              GroundInPolicy, Propose, Review, SkipAdapter, RefuseInDryRun, RecordKey, Finish,
              UserStep, hrVars
<1>2. CASE Crash \/ \E s \in Systems : Edit(s) \/ Ages(s)
  BY <1>2 DEF Crash, Edit, Ages
<1>3. CASE UNCHANGED vars
  BY <1>3 DEF vars, hrVars
<1> QED
  BY <1>1, <1>2, <1>3 DEF Next

\* The idempotency records of HRIntegrationService: no change is applied whose
\* key is on record.
THEOREM RecordedOnce == Spec => RecordedIsNotRepeated
<1>1. [Next]_vars =>
        [/\ keys \subseteq keys'
         /\ \A c \in applied' \ applied :
              [workflow |-> c.workflow, proposal |-> c.proposal] \notin keys]_vars
  <2>1. ASSUME NEW w \in Workflows, WriteRecord(w), NEW c \in applied' \ applied
        PROVE  [workflow |-> c.workflow, proposal |-> c.proposal] \notin keys
    BY <2>1 DEF WriteRecord, ThisChange, Key
  <2>2. ASSUME [Next]_vars PROVE keys \subseteq keys'
    <3>1. ASSUME NEW w \in Workflows, StartRun(w) \/ RunStep(w) \/ UserStep(w)
          PROVE  keys \subseteq keys'
      BY <3>1 DEF StartRun, RunStep, AskAgain, AgentFails, Classify, FetchContext, Investigate,
                  GroundInPolicy, Propose, Review, SkipAdapter, RefuseInDryRun, WriteRecord,
                  RecordKey, Finish, UserStep, hrVars
    <3>2. CASE Crash \/ \E s \in Systems : Edit(s) \/ Ages(s)
      BY <3>2 DEF Crash, Edit, Ages
    <3>3. CASE UNCHANGED vars
      BY <3>3 DEF vars, hrVars
    <3> QED
      BY <2>2, <3>1, <3>2, <3>3 DEF Next
  <2> QED
    BY <2>1, <2>2, OnlyWritesApply
<1> QED
  BY <1>1, PTL DEF Spec, RecordedIsNotRepeated

\* No grant is taken back.
LEMMA GrantsStay ==
  ASSUME ControlInv, [Next]_vars
  PROVE  Grants \subseteq Grants'
<1> SUFFICES ASSUME NEW g \in Grants PROVE g \in Grants'
  OBVIOUS
<1>1. PICK w \in Workflows : g \in GrantsOf(w)
  BY DEF Grants
<1>2. PICK i \in DOMAIN decisions[w] :
        Granted(w, i) /\ g = [workflow |-> w, of |-> i, proposal |-> decisions[w][i].proposal]
  BY <1>1 DEF GrantsOf
<1>3. DOMAIN decisions[w] = 1 .. LastPlace(w) /\ DOMAIN decisions'[w] = 1 .. LastPlace(w)'
  BY ControlInductive DEF ControlInv, TypeInv, FactType, LastPlace
<1>4. GrantsKept(w)
  BY ControlInductive
<1>5. i \in DOMAIN decisions'[w] /\ decisions'[w][i] = decisions[w][i] /\ Granted(w, i)'
  BY <1>2, <1>3, <1>4 DEF GrantsKept
<1>6. g \in GrantsOf(w)'
  BY <1>2, <1>5 DEF GrantsOf
<1> QED
  BY <1>6 DEF Grants

\* A write uses up a grant that was not used before.
LEMMA WriteUsesGrant ==
  ASSUME ControlInv, NEW w \in Workflows, WriteRecord(w)
  PROVE  /\ ThisChange(w) \in Grants \ applied
         /\ applied' = applied \cup {ThisChange(w)} /\ writes' = writes + 1
         /\ Grants' = Grants
<1>1. /\ UNCHANGED <<factVars, approvals>> /\ At(w, "execute")
      /\ applied' = applied \cup {ThisChange(w)} /\ writes' = writes + 1
  BY DEF WriteRecord
<1>2. Open(w) /\ Granted(w, LastPlace(w))
  BY <1>1 DEF ControlInv, GrantInv, MayExecute
<1>3. LastPlace(w) \in DOMAIN decisions[w] /\ LastPlace(w) \in Nat
  BY <1>2 DEF Open, LastPlace, ControlInv, TypeInv, FactType
<1>4. ThisChange(w) = [workflow |-> w, of |-> LastPlace(w), proposal |-> Last(w).proposal]
  BY <1>2 DEF ThisChange, LastPlace, Open
<1>5. ThisChange(w) \in Grants
  BY <1>2, <1>3, <1>4 DEF Grants, GrantsOf, Last
<1>6. ThisChange(w) \notin applied
  BY <1>2, <1>3, <1>4 DEF Open
<1>7. Grants' = Grants
  BY <1>1 DEF Grants, GrantsOf, Granted, Approved, factVars
<1> QED
  BY <1>1, <1>5, <1>6, <1>7

\* The orchestration of the agents and the approvals implements ChangeControl:
\* each change that is applied uses up a grant of its own, given before.
THEOREM OrchestrationControlsChanges == Spec => ImplementsChangeControl
<1>1. Init => Control!ChangeInit
  <2> SUFFICES ASSUME Init PROVE Grants = {} /\ applied = {} /\ writes = 0
    BY DEF Control!ChangeInit
  <2>1. \A w \in Workflows : DOMAIN decisions[w] = {}
    BY DEF Init
  <2> QED
    BY <2>1 DEF Init, Grants, GrantsOf
<1>2. ControlInv /\ [Next]_vars => [Control!ChangeNext]_(Control!changeVars)
  <2> SUFFICES ASSUME ControlInv, [Next]_vars PROVE Control!ChangeNext
    OBVIOUS
  <2>1. CASE applied' = applied /\ writes' = writes
    BY <2>1, GrantsStay DEF Control!ChangeNext, Control!Grant
  <2>2. ASSUME NEW w \in Workflows, WriteRecord(w) PROVE Control!ChangeNext
    BY <2>2, WriteUsesGrant DEF Control!ChangeNext, Control!Apply
  <2> QED
    BY <2>1, <2>2, OnlyWritesApply
<1> QED
  BY <1>1, <1>2, ControlInvariant, PTL DEF Spec, ImplementsChangeControl, Control!ChangeSpec

-----------------------------------------------------------------------------
(***************************************************************************)
(* What a completed workflow proposed was applied and recorded.            *)
(***************************************************************************)
Settled(w) == NothingToApply(w) \/ Key(w) \in keys
WasApplied(p, w) == \E c \in applied : c.workflow = w /\ c.proposal = p

\* How far a run is with the change it carries out.
Carried(w) ==
  /\ At(w, "record") => WasApplied(proposal[w], w)
  /\ At(w, "finish") => Settled(w)
  /\ state[w] = "COMPLETED" => At(w, "idle") /\ Settled(w)

KeysApplied == \A k \in keys : WasApplied(k.proposal, k.workflow)
CarriedInv == TypeInv /\ KeysApplied /\ \A w \in Workflows : Carried(w)

\* A step that comes no nearer to the end of the change of workflow w.
Idles(w) ==
  /\ request'[w] = request[w] /\ proposal'[w] = proposal[w]
  /\ run'[w].stage \in {"record", "finish"} => run'[w].stage = run[w].stage
  /\ state'[w] = "COMPLETED" =>
       state[w] = "COMPLETED" /\ (run'[w].stage = run[w].stage \/ run'[w].stage = "idle")

\* What was applied or recorded stays so.
Grows == keys \subseteq keys' /\ applied \subseteq applied'

\* Such a step keeps what is known of the change.
LEMMA IdlesKeeps ==
  ASSUME NEW w \in Workflows, Carried(w), Grows, Idles(w)
  PROVE  Carried(w)'
<1>1. Settled(w) => Settled(w)'
  BY DEF Settled, NothingToApply, Key, Grows, Idles
<1>2. WasApplied(proposal[w], w) => WasApplied(proposal[w], w)'
  BY DEF WasApplied, Grows, Idles
<1> QED
  BY <1>1, <1>2 DEF Carried, Idles, At

\* Nothing is taken back of what was applied and recorded; a key is only
\* recorded by a run that has applied its change.
LEMMA StepsGrow ==
  ASSUME [Next]_vars
  PROVE  /\ Grows
         /\ keys' = keys \/ \E w \in Workflows : RecordKey(w)
<1>1. ASSUME NEW w \in Workflows, StartRun(w) \/ RunStep(w) \/ UserStep(w)
      PROVE  Grows /\ (keys' = keys \/ RecordKey(w))
  BY <1>1 DEF StartRun, RunStep, AskAgain, AgentFails, Classify, FetchContext, Investigate,
              GroundInPolicy, Propose, Review, SkipAdapter, RefuseInDryRun, WriteRecord,
              RecordKey, Finish, UserStep, hrVars, Grows
<1>2. CASE Crash \/ \E s \in Systems : Edit(s) \/ Ages(s)
  BY <1>2 DEF Crash, Edit, Ages, Grows
<1>3. CASE UNCHANGED vars
  BY <1>3 DEF vars, hrVars, Grows
<1> QED
  BY <1>1, <1>2, <1>3 DEF Next

\* Every key stands for a change that was applied.
LEMMA KeysStayApplied ==
  ASSUME CarriedInv, [Next]_vars
  PROVE  KeysApplied'
<1>1. Grows /\ (keys' = keys \/ \E w \in Workflows : RecordKey(w))
  BY StepsGrow
<1>2. \A p, w : WasApplied(p, w) => WasApplied(p, w)'
  BY <1>1 DEF Grows, WasApplied
<1>3. CASE keys' = keys
  BY <1>2, <1>3 DEF CarriedInv, KeysApplied
<1>4. ASSUME NEW w \in Workflows, RecordKey(w) PROVE KeysApplied'
  <2>1. keys' = keys \cup {Key(w)} /\ WasApplied(proposal[w], w)
    BY <1>4 DEF RecordKey, CarriedInv, Carried
  <2>2. Key(w).workflow = w /\ Key(w).proposal = proposal[w]
    BY DEF Key
  <2> QED
    BY <1>2, <2>1, <2>2 DEF CarriedInv, KeysApplied
<1> QED
  BY <1>1, <1>3, <1>4

\* Of a run that is under way, the workflow is not completed.
LEMMA RunningIsOpen ==
  ASSUME NEW w \in Workflows, Carried(w), run[w].stage # "idle"
  PROVE  state[w] # "COMPLETED"
  BY DEF Carried, At

\* What ends a run, or leads to a stage before the record, is no completion.
LEMMA MovesIdle ==
  ASSUME TypeInv, NEW w \in Workflows,
         NEW to \in WorkflowState \ {"COMPLETED"},
         NEW next \in Stage \ {"record", "finish"},
         Fail(w) \/ MoveOn(w, to, next) \/ MoveAndEnd(w, to)
  PROVE  run'[w].stage \notin {"record", "finish"} /\ state'[w] # "COMPLETED"
  BY MovesType

\* The agents' steps, and all others before the change, do not end it.
LEMMA AgentsIdle ==
  ASSUME TypeInv, NEW w \in Workflows, Carried(w),
         \/ StartRun(w) \/ AskAgain(w) \/ AgentFails(w) \/ Classify(w) \/ FetchContext(w)
         \/ Investigate(w) \/ GroundInPolicy(w) \/ Propose(w) \/ Review(w)
         \/ RefuseInDryRun(w)
  PROVE  run'[w].stage \notin {"record", "finish"} /\ state'[w] # "COMPLETED"
<1>2. /\ {"NEEDS_CLARIFICATION", "POLICY_RETRIEVAL", "ACTION_PROPOSED", "COMPLIANCE_REVIEW",
          "FAILED", "DENIED", "ESCALATED", "EXECUTING"} \subseteq WorkflowState \ {"COMPLETED"}
      /\ {"idle", "policy", "propose", "review", "execute"} \subseteq Stage \ {"record", "finish"}
  BY DEF WorkflowState, Stage, AgentStage
<1>3. /\ state \in [Workflows -> WorkflowState] /\ run \in [Workflows -> RunOf]
      /\ run[w] \in RunOf
  BY DEF TypeInv, RowType, RunType
<1>4. CASE StartRun(w)
  BY <1>4, <1>3 DEF StartRun, Start, RunOf
<1>5. CASE AskAgain(w)
  <2>1. state' = state /\ run[w].stage \in AgentStage
    BY <1>5 DEF AskAgain, rowVars
  <2>2. run'[w] = [run[w] EXCEPT !.tries = run[w].tries + 1]
    BY <1>5, <1>3 DEF AskAgain
  <2>3. run'[w].stage = run[w].stage
    BY <2>2, <1>3 DEF RunOf
  <2> QED
    BY <2>1, <2>3, RunningIsOpen DEF AgentStage
<1>6. CASE AgentFails(w) \/ RefuseInDryRun(w)
  BY <1>6, <1>2, MovesIdle DEF AgentFails, RefuseInDryRun
<1>7. CASE Classify(w)
  <2>1. CASE MoveAndEnd(w, "NEEDS_CLARIFICATION")
    BY <2>1, <1>2, MovesIdle
  <2>2. CASE ~ MoveAndEnd(w, "NEEDS_CLARIFICATION")
    <3>1. PICK i : /\ state' = state
                   /\ run' = [run EXCEPT ![w].stage = "context", ![w].tries = 0,
                                         ![w].system = Implied(w, i)]
      BY <1>7, <2>2 DEF Classify
    <3>2. state[w] # "COMPLETED"
      BY <1>7, RunningIsOpen DEF Classify, At
    <3> QED
      BY <3>1, <3>2, <1>3 DEF RunOf
  <2> QED
    BY <2>1, <2>2
<1>8. CASE FetchContext(w)
  <2>1. CASE Fail(w)
    BY <2>1, <1>2, MovesIdle
  <2>2. CASE ~ Fail(w)
    <3>1. state' = [state EXCEPT ![w] = "INVESTIGATING"]
      BY <2>2, <1>8 DEF FetchContext
    <3>2. run'[w].stage = "investigate"
      <4>1. CASE Enter(w, "investigate")
        BY <4>1, <1>3 DEF Enter, RunOf
      <4>2. CASE \E seen, old : run' = [run EXCEPT ![w] =
                   [@ EXCEPT !.stage = "investigate", !.seen = seen, !.old = old]]
        BY <4>2, <1>3 DEF RunOf
      <4> QED
        BY <2>2, <1>8, <4>1, <4>2 DEF FetchContext
    <3> QED
      BY <3>1, <3>2, <1>3
  <2> QED
    BY <2>1, <2>2
<1>9. CASE Investigate(w) \/ GroundInPolicy(w) \/ Propose(w)
  BY <1>9, <1>2, MovesIdle DEF Investigate, GroundInPolicy, Propose
<1>10. CASE Review(w)
  <2>1. \/ Fail(w) \/ MoveAndEnd(w, "DENIED") \/ MoveAndEnd(w, "ESCALATED")
        \/ MoveOn(w, "EXECUTING", "execute")
        \/ AskApproval(w)
    BY <1>10 DEF Review, Obey
  <2>2. CASE AskApproval(w) /\ ~ Fail(w)
    <3>1. state' = [state EXCEPT ![w] = "WAITING_FOR_APPROVAL"] /\ EndRun(w)
      BY <2>2 DEF AskApproval
    <3> QED
      BY <3>1, <1>3 DEF EndRun, Idle
  <2> QED
    BY <2>1, <2>2, <1>2, MovesIdle
<1> QED
  BY <1>4, <1>5, <1>6, <1>7, <1>8, <1>9, <1>10

\* The last stages of a run: applied, recorded, completed.
LEMMA ChangeCarried ==
  ASSUME TypeInv, NEW w \in Workflows, Carried(w),
         SkipAdapter(w) \/ WriteRecord(w) \/ RecordKey(w) \/ Finish(w)
  PROVE  Carried(w)'
<1>1. request' = request /\ proposal' = proposal
  BY DEF SkipAdapter, WriteRecord, RecordKey, Finish, factVars
<1>2. /\ state \in [Workflows -> WorkflowState] /\ run \in [Workflows -> RunOf]
      /\ run[w] \in RunOf
  BY DEF TypeInv, RowType, RunType
<1>3. state[w] # "COMPLETED"
  BY RunningIsOpen DEF SkipAdapter, WriteRecord, RecordKey, Finish, At
<1>4. NothingToApply(w)' = NothingToApply(w) /\ Key(w)' = Key(w)
  BY <1>1 DEF NothingToApply, Key
<1>5. ASSUME NEW next, Enter(w, next) PROVE run'[w].stage = next
  BY <1>2, <1>5 DEF Enter, RunOf
<1>6. CASE SkipAdapter(w)
  <2>1. Settled(w) /\ keys' = keys /\ state' = state /\ run'[w].stage = "finish"
    BY <1>5, <1>6 DEF SkipAdapter, Settled, hrVars, rowVars
  <2> QED
    BY <2>1, <1>3, <1>4 DEF Settled, Carried, At
<1>7. CASE WriteRecord(w)
  <2>1. ThisChange(w) \in applied' /\ state' = state /\ run'[w].stage = "record"
    BY <1>5, <1>7 DEF WriteRecord, rowVars
  <2>2. ThisChange(w).workflow = w /\ ThisChange(w).proposal = proposal'[w]
    BY <1>1 DEF ThisChange
  <2>3. WasApplied(proposal[w], w)'
    BY <2>1, <2>2 DEF WasApplied
  <2> QED
    BY <2>1, <2>3, <1>3 DEF Carried, At
<1>8. CASE RecordKey(w)
  <2>1. Key(w) \in keys' /\ state' = state /\ run'[w].stage = "finish"
    BY <1>5, <1>8 DEF RecordKey, rowVars
  <2> QED
    BY <2>1, <1>3, <1>4 DEF Settled, Carried, At
<1>9. CASE Finish(w)
  <2>1. EndRun(w) /\ Settled(w) /\ keys' = keys
    BY <1>9 DEF Finish, Fail, Carried, hrVars
  <2>2. run'[w].stage = "idle"
    BY <2>1, <1>2 DEF EndRun, Idle
  <2> QED
    BY <2>1, <2>2, <1>4 DEF Settled, Carried, At
<1> QED
  BY <1>6, <1>7, <1>8, <1>9

\* No call of others completes a workflow, if none asks /transition for it.
LEMMA UsersIdle ==
  ASSUME TypeInv, "COMPLETED" \notin CallerTargets, NEW w \in Workflows, UserStep(w)
  PROVE  Idles(w)
<1>1. UNCHANGED <<request, proposal, run>>
  BY DEF UserStep, factVars
<1>2. state'[w] = "COMPLETED" => state[w] = "COMPLETED"
  <2>1. state \in [Workflows -> WorkflowState]
    BY DEF TypeInv, RowType
  <2>2. "COMPLETED" \notin ApprovalStatus
    BY DEF ApprovalStatus
  <2> QED
    BY <2>1, <2>2 DEF UserStep, Pause, Resume, Cancel, RequestTransition, SetIntent, Retry,
                      Clarify, Resolve, SetState
<1> QED
  BY <1>1, <1>2 DEF Idles

\* Each step keeps what is known of the change of each workflow.
LEMMA StepCarries ==
  ASSUME "COMPLETED" \notin CallerTargets, CarriedInv, [Next]_vars
  PROVE  CarriedInv'
<1>1. TypeInv /\ TypeInv' /\ KeysApplied' /\ Grows
  BY TypeInductive, KeysStayApplied, StepsGrow DEF CarriedInv
<1> SUFFICES ASSUME NEW v \in Workflows PROVE Carried(v)'
  BY <1>1 DEF CarriedInv
<1>2. Carried(v)
  BY DEF CarriedInv
<1>3. ASSUME NEW w \in Workflows, StartRun(w) \/ RunStep(w) \/ UserStep(w)
      PROVE  Carried(v)'
  <2>1. CASE v # w
    <3>1. Elsewhere(v)
      BY <1>1, <1>3, <2>1, StepElsewhere
    <3>2. Idles(v)
      BY <3>1, <1>2 DEF Elsewhere, Idles
    <3> QED
      BY <3>2, <1>1, <1>2, IdlesKeeps
  <2>2. CASE v = w /\ UserStep(w)
    BY <2>2, <1>1, <1>2, UsersIdle, IdlesKeeps
  <2>3. CASE v = w /\ (SkipAdapter(w) \/ WriteRecord(w) \/ RecordKey(w) \/ Finish(w))
    BY <2>3, <1>1, <1>2, ChangeCarried
  <2>4. CASE /\ v = w
             /\ StartRun(w) \/ RunStep(w)
             /\ ~ (SkipAdapter(w) \/ WriteRecord(w) \/ RecordKey(w) \/ Finish(w))
    <3>1. run'[w].stage \notin {"record", "finish"} /\ state'[w] # "COMPLETED"
      BY <2>4, <1>1, <1>2, AgentsIdle DEF RunStep
    <3> QED
      BY <2>4, <3>1 DEF Carried, At
  <2> QED
    BY <1>3, <2>1, <2>2, <2>3, <2>4
<1>4. CASE Crash \/ \E s \in Systems : Edit(s) \/ Ages(s)
  <2>1. Idles(v)
    BY <1>2, <1>4 DEF Crash, Edit, Ages, rowVars, factVars, Idles, Idle
  <2> QED
    BY <2>1, <1>1, <1>2, IdlesKeeps
<1>5. CASE UNCHANGED vars
  <2>1. Idles(v)
    BY <1>5 DEF vars, rowVars, factVars, Idles
  <2> QED
    BY <2>1, <1>1, <1>2, IdlesKeeps
<1> QED
  BY <1>3, <1>4, <1>5 DEF Next

\* _execute_adapter_action before COMPLETED: a workflow that completed has had
\* its proposal applied and recorded, or proposed no change at all, however
\* often it was paused, retried, resumed or interrupted; and no idempotency
\* record stands for a change that was not applied.
THEOREM CompletedIsApplied ==
  ASSUME "COMPLETED" \notin CallerTargets
  PROVE  Spec => []CompletedMeansApplied
<1>1. Init => CarriedInv
  <2> SUFFICES ASSUME Init PROVE CarriedInv
    OBVIOUS
  <2>1. TypeInv
    BY TypeInitial
  <2>2. ASSUME NEW w \in Workflows
        PROVE  state[w] = "RECEIVED" /\ run[w].stage = "idle"
    BY DEF Init, Idle
  <2>3. KeysApplied
    BY DEF Init, KeysApplied
  <2> QED
    BY <2>1, <2>2, <2>3 DEF CarriedInv, Carried, At
<1>2. CarriedInv /\ [Next]_vars => CarriedInv'
  BY StepCarries
<1>3. CarriedInv => CompletedMeansApplied
  BY DEF CarriedInv, Carried, KeysApplied, WasApplied, Settled, CompletedMeansApplied
<1> QED
  BY <1>1, <1>2, <1>3, PTL DEF Spec

-----------------------------------------------------------------------------
(***************************************************************************)
(* How often a change is applied: once, and once more for each crash.      *)
(***************************************************************************)
Copies(w, p) == {c \in applied : c.workflow = w /\ c.proposal = p}
Recorded(w, p) == [workflow |-> w, proposal |-> p] \in keys

\* Workflow w cannot apply p as long as no crash comes.
Closed(w, p) == Recorded(w, p) \/ (At(w, "record") /\ proposal[w] = p)

\* Where w could still apply p, there is room for it.
Accounted(w, p) ==
  /\ IsFiniteSet(Copies(w, p))
  /\ Cardinality(Copies(w, p)) <= crashes + 1
  /\ ~ Closed(w, p) => Cardinality(Copies(w, p)) <= crashes

CrashesCounted == \A w \in Workflows : \A p : Accounted(w, p)

\* A step that applies nothing for w, and reopens nothing, keeps the account.
LEMMA AccountKept ==
  ASSUME NEW w \in Workflows, NEW p, Accounted(w, p), crashes \in Nat,
         Copies(w, p)' = Copies(w, p),
         \/ crashes' = crashes /\ (Closed(w, p) => Closed(w, p)')
         \/ crashes' = crashes + 1
  PROVE  Accounted(w, p)'
<1>1. Cardinality(Copies(w, p)) \in Nat
  BY FS_CardinalityType DEF Accounted
<1> QED
  BY <1>1 DEF Accounted

\* A run that has to record its change does just that, whatever others do.
LEMMA RecordIsNext ==
  ASSUME NEW w \in Workflows, At(w, "record"), StartRun(w) \/ RunStep(w) \/ UserStep(w)
  PROVE  RecordKey(w) \/ (UserStep(w) /\ run' = run /\ proposal' = proposal)
  BY DEF At, StartRun, RunStep, AskAgain, AgentFails, Classify, FetchContext, Investigate,
         GroundInPolicy, Propose, Review, SkipAdapter, RefuseInDryRun, WriteRecord, Finish,
         UserStep, factVars, AgentStage

\* The write of an adapter uses the room for the change that it applies.
LEMMA WriteAccounted ==
  ASSUME TypeInv, NEW w \in Workflows, NEW p, Accounted(w, p), crashes \in Nat,
         WriteRecord(w), crashes' = crashes
  PROVE  Accounted(w, p)'
<1>1. /\ keys' = keys /\ proposal' = proposal /\ Key(w) \notin keys
      /\ applied' = applied \cup {ThisChange(w)}
  BY DEF WriteRecord, factVars
<1>2. ThisChange(w).workflow = w /\ ThisChange(w).proposal = proposal[w]
  BY DEF ThisChange
<1>3. At(w, "execute")
  BY DEF WriteRecord
<1>4. CASE p = proposal[w]
  <2>1. ~ Closed(w, p)
    BY <1>1, <1>3, <1>4 DEF Closed, Recorded, Key, At
  <2>2. Copies(w, p)' = Copies(w, p) \cup {ThisChange(w)}
    BY <1>1, <1>2, <1>4 DEF Copies
  <2>3. /\ IsFiniteSet(Copies(w, p)) /\ Cardinality(Copies(w, p)) <= crashes
        /\ Cardinality(Copies(w, p)) \in Nat
    BY <2>1, FS_CardinalityType DEF Accounted
  <2> DEFINE before == Copies(w, p)
             change == ThisChange(w)
  <2> HIDE DEF before, change
  <2>4. /\ IsFiniteSet(before \cup {change})
        /\ \/ Cardinality(before \cup {change}) = Cardinality(before)
           \/ Cardinality(before \cup {change}) = Cardinality(before) + 1
    <3>1. IsFiniteSet(before)
      BY <2>3 DEF before
    <3> QED
      BY <3>1, FS_AddElement
  <2>5. /\ IsFiniteSet(Copies(w, p))' /\ Cardinality(Copies(w, p))' <= crashes + 1
    BY <2>2, <2>3, <2>4 DEF before, change
  <2>6. Closed(w, p)'
    <3>1. run'[w].stage = "record"
      <4>1. run \in [Workflows -> RunOf]
        BY DEF TypeInv, RunType
      <4> QED
        BY <4>1 DEF WriteRecord, Enter, RunOf
    <3> QED
      BY <3>1, <1>1, <1>4 DEF Closed, At
  <2> QED
    BY <2>5, <2>6 DEF Accounted
<1>5. CASE p # proposal[w]
  <2>1. Copies(w, p)' = Copies(w, p)
    BY <1>1, <1>2, <1>5 DEF Copies
  <2>2. Closed(w, p) => Closed(w, p)'
    BY <1>1, <1>5 DEF Closed, Recorded
  <2> QED
    BY <2>1, <2>2, AccountKept
<1> QED
  BY <1>4, <1>5

\* Each step keeps the account of each change.
LEMMA StepAccounted ==
  ASSUME TypeInv, crashes \in Nat, CrashesCounted, [Next]_vars
  PROVE  CrashesCounted'
<1> SUFFICES ASSUME NEW v \in Workflows, NEW p PROVE Accounted(v, p)'
  BY DEF CrashesCounted
<1>1. Accounted(v, p)
  BY DEF CrashesCounted
<1>2. keys \subseteq keys' /\ applied \subseteq applied'
  BY StepsGrow DEF Grows
<1>3. Recorded(v, p) => Recorded(v, p)'
  BY <1>2 DEF Recorded
<1>4. ASSUME NEW w \in Workflows, StartRun(w) \/ RunStep(w) \/ UserStep(w), crashes' = crashes
      PROVE  Accounted(v, p)'
  <2>1. CASE v # w
    <3>1. Elsewhere(v)
      BY <1>4, <2>1, StepElsewhere
    <3>2. Copies(v, p)' = Copies(v, p)
      BY <3>1, <1>2 DEF Elsewhere, Copies
    <3>3. Closed(v, p) => Closed(v, p)'
      BY <3>1, <1>3 DEF Elsewhere, Closed, At
    <3> QED
      BY <3>2, <3>3, <1>1, <1>4, AccountKept
  <2>2. CASE v = w /\ WriteRecord(w)
    BY <2>2, <1>1, <1>4, WriteAccounted
  <2>3. CASE v = w /\ ~ WriteRecord(w)
    <3>1. applied' = applied
      BY <1>4, <2>3 DEF StartRun, RunStep, AskAgain, AgentFails, Classify, FetchContext,
           Investigate, GroundInPolicy, Propose, Review, SkipAdapter, RefuseInDryRun, RecordKey,
           Finish, UserStep, hrVars
    <3>2. Copies(v, p)' = Copies(v, p)
      BY <3>1 DEF Copies
    <3>3. ASSUME At(v, "record"), proposal[v] = p PROVE Closed(v, p)'
      <4>1. CASE RecordKey(w)
        <5>1. Key(v) \in keys'
          BY <4>1, <2>3 DEF RecordKey
        <5> QED
          BY <5>1, <3>3 DEF Closed, Recorded, Key
      <4>2. CASE run' = run /\ proposal' = proposal
        BY <4>2, <3>3 DEF Closed, At
      <4> QED
        BY <4>1, <4>2, <3>3, <2>3, <1>4, RecordIsNext
    <3>4. Closed(v, p) => Closed(v, p)'
      BY <3>3, <1>3 DEF Closed
    <3> QED
      BY <3>2, <3>4, <1>1, <1>4, AccountKept
  <2> QED
    BY <2>1, <2>2, <2>3
<1>5. CASE Crash
  <2>1. Copies(v, p)' = Copies(v, p) /\ crashes' = crashes + 1
    BY <1>5 DEF Crash, Copies
  <2> QED
    BY <2>1, <1>1, AccountKept
<1>6. CASE (\E s \in Systems : Edit(s) \/ Ages(s)) /\ crashes' = crashes
  <2>1. UNCHANGED <<applied, keys, run, proposal>>
    BY <1>6 DEF Edit, Ages, factVars
  <2>2. Copies(v, p)' = Copies(v, p) /\ (Closed(v, p) => Closed(v, p)')
    BY <2>1 DEF Copies, Closed, Recorded, At
  <2> QED
    BY <2>2, <1>1, <1>6, AccountKept
<1>7. CASE UNCHANGED vars
  <2>1. UNCHANGED <<applied, keys, run, proposal, crashes>>
    BY <1>7 DEF vars, factVars, hrVars
  <2>2. Copies(v, p)' = Copies(v, p) /\ (Closed(v, p) => Closed(v, p)')
    BY <2>1 DEF Copies, Closed, Recorded, At
  <2> QED
    BY <2>1, <2>2, <1>1, AccountKept
<1> QED
  BY <1>4, <1>5, <1>6, <1>7 DEF Next

\* HRIntegrationService.execute_action between the write and record_idempotency:
\* a change is applied at most once more than the process has ended, for any
\* number of workflows that run side by side, retries and edits.
THEOREM CrashesBoundRepetitions == Spec => []RepetitionsNeedCrash
<1>1. Init => CrashesCounted
  <2> SUFFICES ASSUME Init, NEW w \in Workflows, NEW p PROVE Accounted(w, p)
    BY DEF CrashesCounted
  <2>1. Copies(w, p) = {} /\ crashes = 0
    BY DEF Init, Copies
  <2>2. IsFiniteSet({}) /\ Cardinality({}) = 0
    BY FS_EmptySet
  <2> QED
    BY <2>1, <2>2 DEF Accounted
<1>2. crashes \in Nat /\ CrashesCounted => RepetitionsNeedCrash
  <2> SUFFICES ASSUME crashes \in Nat, CrashesCounted, NEW w \in Workflows, NEW p
               PROVE  Cardinality({c \in applied : c.workflow = w /\ c.proposal = p})
                        <= 1 + crashes
    BY DEF RepetitionsNeedCrash
  <2>1. Accounted(w, p)
    BY DEF CrashesCounted
  <2> QED
    BY <2>1 DEF Accounted, Copies
<1>3. Spec => [](TypeInv /\ crashes \in Nat)
  BY TypeInvariant, PTL
<1> QED
  BY <1>1, <1>2, <1>3, StepAccounted, PTL DEF Spec

=============================================================================
