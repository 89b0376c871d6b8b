------------------------- MODULE OrchestratorProofs -------------------------
(***************************************************************************)
(* What the orchestration guarantees for any number of workflows, any      *)
(* requests, values, retries and crashes: its types; that no change        *)
(* reaches an HR system without a grant, nor one of high risk without an   *)
(* approval; and that it implements ChangeControl.                         *)
(***************************************************************************)
EXTENDS Orchestrator, SequenceTheorems, TLAPS

(***************************************************************************)
(* Types.                                                                  *)
(***************************************************************************)
RunOf == [stage : Stage, tries : 0 .. MaxTries, system : Systems \cup {Nil, "unknown"},
          seen : Values \cup {Nil}, old : BOOLEAN]

RowType ==
  /\ state \in [Workflows -> WorkflowState]
  /\ paused \in [Workflows -> BOOLEAN]
  /\ retries \in [Workflows -> Nat]
  /\ intent \in [Workflows -> IntentCategory \cup {Nil}]

FactType ==
  /\ request \in [Workflows -> Request]
  /\ supervised \in [Workflows -> BOOLEAN]
  /\ finding \in [Workflows -> Finding]
  /\ proposal \in [Workflows -> Proposal \cup {NoProposal}]
  /\ decisions \in [Workflows -> Seq(Decided)]

\* A table is read without being asked for first.
HRType ==
  /\ keys \subseteq [workflow : Workflows, proposal : Proposal]
  /\ data \in Data
  /\ \A s \in Systems \ InMemory : data[s]["latest"] # Unread
  /\ aged \subseteq Systems
  /\ applied \subseteq Change
  /\ writes \in Nat

ApprovalsType == approvals \in [Workflows -> SUBSET Approval]
RunType == run \in [Workflows -> RunOf]

\* The stages that follow the first reading of the HR systems, and those that
\* follow the proposal.
Informed == {"investigate", "policy", "propose", "review", "execute", "record", "finish"}
Proposed == {"review", "execute", "record", "finish"}

\* An employee's request names no system that is unknown, once it gets
\* further than the context; and there is a proposal once it gets that far.
Underway(w, stages) ==
  run[w].stage \in stages \/ state[w] = "APPROVED" \/ Pending(w) # {}
KnownSystem(w) ==
  /\ run[w].system \notin Systems \cup {Nil} => Named(w) \notin Systems \cup {Nil}
  /\ run[w].stage = "context" /\ Named(w) \notin Systems \cup {Nil} =>
       run[w].system \notin Systems \cup {Nil}
  /\ Underway(w, Informed) /\ request[w].employee => Named(w) \in Systems \cup {Nil}
HasProposal(w) == Underway(w, Proposed) => proposal[w] \in Proposal

Routed == \A w \in Workflows : KnownSystem(w) /\ HasProposal(w)
TypeInv == RowType /\ FactType /\ HRType /\ ApprovalsType /\ RunType /\ Routed

\* The parts are the type invariant of the orchestrator.
LEMMA TypeInvTypes == TypeInv /\ crashes \in Nat => OrchestratorTypeOK
  BY DEF TypeInv, RowType, FactType, HRType, ApprovalsType, RunType, RunOf, OrchestratorTypeOK

-----------------------------------------------------------------------------
\* The agents' rules give findings, proposals and verdicts.
LEMMA AgentTypes ==
  ASSUME NEW r \in Request, NEW shown \in Values \cup {Nil}, NEW f \in Finding
  PROVE  /\ Investigation(r, shown) \in Finding
         /\ ProposalFor(r, f) \in Proposal
  BY DEF Request, Finding, Proposal, Investigation, ProposalFor, ActionType

\* The intent of a request leads to a system, unless the request names one.
LEMMA SystemTypes ==
  ASSUME NEW i, NEW s \in Systems \cup {Nil, "unknown"}
  PROVE  /\ SystemFor(i, s) \in Systems \cup {Nil, "unknown"}
         /\ s \in Systems \cup {Nil} => SystemFor(i, s) \in Systems
         /\ SystemFor(i, s) \notin Systems => s \notin Systems \cup {Nil}
         /\ s \notin Systems \cup {Nil} => SystemFor(i, s) \notin Systems \cup {Nil}
<1>1. IntentSystem(i) \in Systems
  BY DEF IntentSystem, Systems
<1> QED
  BY <1>1 DEF SystemFor

\* Reading fills in what an in-memory provider did not hold, and no more.
LEMMA ReadTypes ==
  ASSUME data \in Data, \A s \in Systems \ InMemory : data[s]["latest"] # Unread,
         NEW s \in Systems, NEW field
  PROVE  /\ AfterRead(data, s) \in Data
         /\ \A t \in Systems \ InMemory : AfterRead(data, s)[t]["latest"] # Unread
         /\ AfterDryRun(data, s, field) \in Data
         /\ \A t \in Systems \ InMemory : AfterDryRun(data, s, field)[t]["latest"] # Unread
         /\ Shown(data, s) \in Values \cup {Nil}
  BY ValuesAssumption, UnreadAssumption
     DEF Data, Records, AfterRead, AfterDryRun, Shown, InMemory

\* A write, a dry run before it and a restart leave well-formed records.
LEMMA WriteTypes ==
  ASSUME data \in Data, \A s \in Systems \ InMemory : data[s]["latest"] # Unread,
         NEW s \in Systems, NEW wanted, NEW field, NEW value \in Values \cup {Nil},
         DryRunAccepts(data, s, wanted, field)
  PROVE  /\ AfterWrite(data, s, wanted, field, value) \in Data
         /\ \A t \in Systems \ InMemory :
              AfterWrite(data, s, wanted, field, value)[t]["latest"] # Unread
<1> DEFINE ready == AfterDryRun(data, s, field)
           r == TargetRecord(s, wanted)
<1>1. ready \in Data /\ \A t \in Systems \ InMemory : ready[t]["latest"] # Unread
  BY ReadTypes
<1>2. r \in Records
  BY DEF DryRunAccepts
<1>3. AfterWrite(data, s, wanted, field, value) =
        IF field = Nil THEN ready ELSE [ready EXCEPT ![s][r] = value]
  BY DEF AfterWrite
<1> HIDE DEF ready, r
<1> QED
  BY <1>1, <1>2, <1>3, ValuesAssumption, UnreadAssumption DEF Data, Records

\* A restart forgets what the in-memory providers held, and nothing else.
LEMMA RestartTypes ==
  ASSUME data \in Data, \A s \in Systems \ InMemory : data[s]["latest"] # Unread
  PROVE  /\ AfterRestart(data) \in Data
         /\ \A t \in Systems \ InMemory : AfterRestart(data)[t]["latest"] # Unread
  BY DEF Data, AfterRestart, Records, Systems, InMemory

-----------------------------------------------------------------------------
\* The systems have never been read and nothing has been asked.
LEMMA TypeInitial == Init => TypeInv
<1> SUFFICES ASSUME Init PROVE TypeInv
  OBVIOUS
<1> USE DEF Init
<1>1. RowType
  BY DEF RowType, WorkflowState
<1>2. FactType
  BY RequestsAssumption DEF FactType, NoFinding, NoProposal, Finding
<1>3. HRType
  BY ValuesAssumption DEF HRType, Data, Records, Systems, InMemory
<1>4. ApprovalsType
  BY DEF ApprovalsType
<1>5. RunType
  BY MaxTriesAssumption DEF RunType, RunOf, Idle, Stage
<1>6. Routed
  BY DEF Routed, KnownSystem, HasProposal, Underway, Informed, Proposed, Idle, Pending
<1> QED
  BY <1>1, <1>2, <1>3, <1>4, <1>5, <1>6 DEF TypeInv

-----------------------------------------------------------------------------
(***************************************************************************)
(* The steps of a run.                                                     *)
(***************************************************************************)

\* What ends a run, or moves it to another stage, leaves it a run.
LEMMA MovesType ==
  ASSUME TypeInv, NEW w \in Workflows, NEW to \in WorkflowState, NEW stage \in Stage,
         \/ Fail(w) \/ MoveOn(w, to, stage) \/ MoveAndEnd(w, to)
  PROVE  /\ state' \in [Workflows -> WorkflowState] /\ RunType'
         /\ \A v \in Workflows \ {w} : run'[v] = run[v] /\ state'[v] = state[v]
         /\ run'[w].system \in {Nil, run[w].system}
         /\ run'[w].stage \in {"idle", stage}
         /\ state'[w] \in {"FAILED", to}
<1> DEFINE Goal == /\ state' \in [Workflows -> WorkflowState] /\ RunType'
                   /\ \A v \in Workflows \ {w} : run'[v] = run[v] /\ state'[v] = state[v]
                   /\ run'[w].system \in {Nil, run[w].system}
                   /\ run'[w].stage \in {"idle", stage}
                   /\ state'[w] \in {"FAILED", to}
<1> SUFFICES Goal
  OBVIOUS
<1>0. /\ state \in [Workflows -> WorkflowState] /\ run \in [Workflows -> RunOf]
      /\ run[w] \in RunOf
  BY DEF TypeInv, RowType, RunType
<1>1. "FAILED" \in WorkflowState /\ "idle" \in Stage /\ 0 \in 0 .. MaxTries
  BY MaxTriesAssumption DEF WorkflowState, Stage
<1>2. ASSUME NEW next \in RunOf, run' = [run EXCEPT ![w] = next],
             NEW s \in {"FAILED", to}, state' = [state EXCEPT ![w] = s],
             next.system \in {Nil, run[w].system}, next.stage \in {"idle", stage}
      PROVE  Goal
  BY <1>0, <1>1, <1>2 DEF RunType
<1>3. Idle \in RunOf /\ Idle.stage = "idle" /\ Idle.system = Nil
  BY <1>1 DEF Idle, RunOf
<1>4. ASSUME EndRun(w), NEW s \in {"FAILED", to}, state' = [state EXCEPT ![w] = s]
      PROVE  Goal
  BY <1>2, <1>3, <1>4 DEF EndRun
<1>5. ASSUME Enter(w, stage), state' = [state EXCEPT ![w] = to] PROVE Goal
  <2> DEFINE next == [run[w] EXCEPT !.stage = stage, !.tries = 0]
  <2>1. run' = [run EXCEPT ![w] = next]
    BY <1>5 DEF Enter
  <2>2. next \in RunOf /\ next.stage = stage /\ next.system = run[w].system
    BY <1>0, <1>1 DEF RunOf
  <2> HIDE DEF next
  <2> QED
    BY <2>1, <2>2, <1>2, <1>5
<1> HIDE DEF Goal
<1>6. CASE Fail(w)
  BY <1>4, <1>6 DEF Fail
<1>7. CASE MoveOn(w, to, stage)
  BY <1>5, <1>6, <1>7 DEF MoveOn
<1>8. CASE MoveAndEnd(w, to)
  BY <1>4, <1>6, <1>8 DEF MoveAndEnd
<1> QED
  BY <1>6, <1>7, <1>8


\* What one workflow does disturbs the routing of no other.
LEMMA RoutedKept ==
  ASSUME Routed, request' = request, NEW w \in Workflows,
         \A v \in Workflows \ {w} : /\ run'[v] = run[v] /\ state'[v] = state[v]
                                    /\ proposal'[v] = proposal[v]
                                    /\ approvals'[v] = approvals[v],
         (KnownSystem(w) /\ HasProposal(w))'
  PROVE  Routed'
<1> SUFFICES ASSUME NEW v \in Workflows, v # w PROVE (KnownSystem(v) /\ HasProposal(v))'
  BY DEF Routed
<1> QED
  BY DEF Routed, KnownSystem, HasProposal, Underway, Pending, Named

\* Asking again is the same stage; a failing agent ends the run.
LEMMA AskType ==
  ASSUME TypeInv, NEW w \in Workflows, AskAgain(w) \/ AgentFails(w)
  PROVE  TypeInv'
<1> USE DEF TypeInv
<1>1. UNCHANGED <<paused, retries, intent, factVars, approvals, hrVars>>
  BY DEF AskAgain, AgentFails, rowVars
<1>2. /\ state' \in [Workflows -> WorkflowState] /\ RunType'
      /\ \A v \in Workflows \ {w} : run'[v] = run[v] /\ state'[v] = state[v]
      /\ run'[w].system \in {Nil, run[w].system}
      /\ \/ run'[w].stage = "idle"
         \/ run'[w].stage = run[w].stage /\ run'[w].system = run[w].system
      /\ state'[w] \in {"FAILED", state[w]}
  <2>1. CASE AskAgain(w)
    <3>1. run[w].tries + 1 \in 0 .. MaxTries
      BY <2>1, MaxTriesAssumption DEF AskAgain, RunType, RunOf
    <3> DEFINE tries == run[w].tries + 1
               next  == [run[w] EXCEPT !.tries = tries]
    <3>2. run' = [run EXCEPT ![w] = next] /\ state' = state
      BY <2>1 DEF AskAgain, rowVars
    <3> HIDE DEF tries
    <3>3. next \in RunOf /\ next.stage = run[w].stage /\ next.system = run[w].system
      BY <3>1 DEF tries, RunType, RunOf
    <3> HIDE DEF next
    <3> QED
      BY <3>2, <3>3 DEF RunType, RowType
  <2>2. CASE AgentFails(w)
    <3>1. "FAILED" \in WorkflowState /\ "idle" \in Stage
      BY DEF WorkflowState, Stage
    <3> QED
      BY <2>2, <3>1, MovesType DEF AgentFails, Idle
  <2> QED
    BY <2>1, <2>2
<1>3. RowType'
  BY <1>1, <1>2 DEF RowType
<1>4. FactType'
  BY <1>1 DEF FactType, factVars
<1>5. HRType'
  BY <1>1 DEF HRType, hrVars
<1>6. ApprovalsType'
  BY <1>1 DEF ApprovalsType
<1>7. Routed'
  <2>1. (KnownSystem(w) /\ HasProposal(w))'
    BY <1>1, <1>2 DEF Routed, KnownSystem, HasProposal, Underway, Informed, Proposed,
                     Pending, Named, factVars
  <2> QED
    BY <2>1, <1>1, <1>2, RoutedKept DEF factVars
<1> QED
  BY <1>2, <1>3, <1>4, <1>5, <1>6, <1>7

\* A run starts from the system its request names, or its intent implies.
LEMMA StartType ==
  ASSUME TypeInv, NEW w \in Workflows, StartRun(w)
  PROVE  TypeInv'
<1> USE DEF TypeInv
<1>1. UNCHANGED <<paused, retries, intent, factVars, approvals, hrVars>>
  BY DEF StartRun
<1>2. Named(w) \in Systems \cup {Nil, "unknown"}
  BY DEF FactType, Request, Named
<1>3. PICK to \in {"CLASSIFYING", "EXECUTING"}, stage \in {"classify", "context", "execute"},
           system \in Systems \cup {Nil, "unknown"} :
        /\ state' = [state EXCEPT ![w] = to]
        /\ run' = [run EXCEPT ![w].stage = stage, ![w].system = system]
        /\ stage = "execute" => state[w] = "APPROVED"
        /\ system \notin Systems \cup {Nil} <=> Named(w) \notin Systems \cup {Nil}
  <2>1. /\ Implied(w, intent[w]) \in Systems \cup {Nil, "unknown"}
        /\ Implied(w, intent[w]) \notin Systems \cup {Nil} <=> Named(w) \notin Systems \cup {Nil}
    BY <1>2, SystemTypes DEF Implied
  <2> QED
    BY <1>2, <2>1 DEF StartRun, Start
<1>4. to \in WorkflowState /\ to # "APPROVED" /\ stage \in Stage
  BY DEF WorkflowState, Stage, AgentStage
<1>5. RowType' /\ RunType'
  <2> DEFINE next == [run[w] EXCEPT !.stage = stage, !.system = system]
  <2>1. run[w] \in RunOf
    BY DEF RunType
  <2>2. next \in RunOf
    BY <2>1, <1>4 DEF RunOf
  <2>3. run' = [run EXCEPT ![w] = next]
    BY <1>3
  <2> HIDE DEF next
  <2>4. RunType'
    BY <2>2, <2>3 DEF RunType
  <2>5. RowType'
    BY <1>1, <1>3, <1>4 DEF RowType
  <2> QED
    BY <2>4, <2>5
<1>6. FactType' /\ HRType' /\ ApprovalsType'
  BY <1>1 DEF FactType, HRType, ApprovalsType, factVars, hrVars
<1>7. Routed'
  <2>1. run'[w].stage = stage /\ run'[w].system = system /\ state'[w] = to
    BY <1>3 DEF RowType, RunType, RunOf
  <2>2. (KnownSystem(w) /\ HasProposal(w))'
    BY <1>1, <1>3, <1>4, <2>1 DEF Routed, KnownSystem, HasProposal, Underway, Informed,
                                 Proposed, Pending, Named, factVars
  <2> QED
    BY <1>1, <1>3, <2>2, RoutedKept DEF RowType, RunType, factVars
<1> QED
  BY <1>5, <1>6, <1>7

\* The supervisor's intent is one of the categories.
LEMMA ClassifyType ==
  ASSUME TypeInv, NEW w \in Workflows, Classify(w)
  PROVE  TypeInv'
<1> USE DEF TypeInv
<1>1. UNCHANGED <<retries, request, finding, proposal, decisions, approvals, hrVars>>
  BY DEF Classify
<1>2. PICK answer \in SupervisorAnswers(Intents) :
        /\ supervised' = [supervised EXCEPT ![w] = TRUE]
        /\ intent' = [intent EXCEPT ![w] = answer.intent]
        /\ \/ /\ run' = [run EXCEPT ![w].stage = "context", ![w].tries = 0,
                                    ![w].system = Implied(w, answer.intent)]
              /\ UNCHANGED <<state, paused>>
           \/ /\ MoveAndEnd(w, "NEEDS_CLARIFICATION")
              /\ paused' = [paused EXCEPT ![w] = @ \/ CanMove(w, "NEEDS_CLARIFICATION")]
  BY DEF Classify
<1>3. answer.intent \in IntentCategory
  BY DEF SupervisorAnswers
<1>4. paused' \in [Workflows -> BOOLEAN]
  <2>1. CanMove(w, "NEEDS_CLARIFICATION") \in BOOLEAN
    BY DEF CanMove, IsTerminal, ValidTransition
  <2> QED
    BY <1>2, <2>1 DEF RowType
<1>5. /\ state' \in [Workflows -> WorkflowState] /\ RunType'
      /\ \A v \in Workflows \ {w} : run'[v] = run[v] /\ state'[v] = state[v]
      /\ run'[w].system \notin Systems \cup {Nil} =>
           Named(w) \notin Systems \cup {Nil}
      /\ run'[w].stage = "context" /\ Named(w) \notin Systems \cup {Nil} =>
           run'[w].system \notin Systems \cup {Nil}
      /\ run'[w].stage \in {"idle", "context"}
      /\ state'[w] \in {"FAILED", "NEEDS_CLARIFICATION", state[w]}
  <2>1. CASE /\ run' = [run EXCEPT ![w].stage = "context", ![w].tries = 0,
                                   ![w].system = Implied(w, answer.intent)]
             /\ state' = state
    <3>1. Named(w) \in Systems \cup {Nil, "unknown"}
      BY DEF FactType, Request, Named
    <3>2. /\ Implied(w, answer.intent) \in Systems \cup {Nil, "unknown"}
          /\ Implied(w, answer.intent) \notin Systems \cup {Nil} <=>
               Named(w) \notin Systems \cup {Nil}
      BY <3>1, SystemTypes DEF Implied
    <3>3. "context" \in Stage /\ 0 \in 0 .. MaxTries
      BY MaxTriesAssumption DEF Stage
    <3> DEFINE next == [run[w] EXCEPT !.stage = "context", !.tries = 0,
                                      !.system = Implied(w, answer.intent)]
    <3>4. next \in RunOf /\ next.stage = "context" /\ next.system = Implied(w, answer.intent)
      BY <3>2, <3>3 DEF RunType, RunOf
    <3>5. run' = [run EXCEPT ![w] = next]
      BY <2>1 DEF RunType
    <3> HIDE DEF next
    <3>6. RunType' /\ run'[w] = next /\ \A v \in Workflows \ {w} : run'[v] = run[v]
      BY <3>4, <3>5 DEF RunType
    <3>7. state' \in [Workflows -> WorkflowState] /\ \A v \in Workflows : state'[v] = state[v]
      BY <2>1 DEF RowType
    <3> QED
      BY <3>2, <3>4, <3>6, <3>7
  <2>2. CASE MoveAndEnd(w, "NEEDS_CLARIFICATION")
    <3>1. "NEEDS_CLARIFICATION" \in WorkflowState /\ "idle" \in Stage
      BY DEF WorkflowState, Stage
    <3> QED
      BY <2>2, <3>1, MovesType DEF Routed, KnownSystem
  <2> QED
    BY <1>2, <2>1, <2>2
<1>6. RowType'
  BY <1>1, <1>2, <1>3, <1>4, <1>5 DEF RowType
<1>7. FactType' /\ HRType' /\ ApprovalsType'
  BY <1>1, <1>2 DEF FactType, HRType, ApprovalsType, hrVars
<1>8. Routed'
  <2>1. (KnownSystem(w) /\ HasProposal(w))'
    BY <1>1, <1>5 DEF Routed, KnownSystem, HasProposal, Underway, Informed, Proposed,
                     Pending, Named
  <2> QED
    BY <1>1, <1>5, <2>1, RoutedKept
<1> QED
  BY <1>5, <1>6, <1>7, <1>8

\* The context comes from a system there is, for an employee.
LEMMA FetchType ==
  ASSUME TypeInv, NEW w \in Workflows, FetchContext(w)
  PROVE  TypeInv'
<1> USE DEF TypeInv
<1>1. UNCHANGED <<paused, retries, intent, factVars, approvals, keys, aged, applied, writes>>
  BY DEF FetchContext
<1>2. "INVESTIGATING" \in WorkflowState /\ "investigate" \in Stage /\ "idle" \in Stage
      /\ "FAILED" \in WorkflowState /\ 0 \in 0 .. MaxTries
  BY MaxTriesAssumption DEF WorkflowState, Stage, AgentStage
<1>3. run[w].system \in Systems \cup {Nil, "unknown"}
  BY DEF RunType, RunOf
<1>4. /\ data' \in Data /\ \A s \in Systems \ InMemory : data'[s]["latest"] # Unread
      /\ state' \in [Workflows -> WorkflowState] /\ RunType'
      /\ \A v \in Workflows \ {w} : run'[v] = run[v] /\ state'[v] = state[v]
      /\ run'[w].system \in {Nil, run[w].system}
      /\ run'[w].stage \in {"idle", "investigate"}
      /\ state'[w] \in {"FAILED", "INVESTIGATING"}
      /\ run'[w].stage = "investigate" /\ request[w].employee =>
           Named(w) \in Systems \cup {Nil}
  <2>1. CASE /\ Domain(w) \in Systems
             /\ data' = AfterRead(data, Domain(w))
             /\ state' = [state EXCEPT ![w] = "INVESTIGATING"]
             /\ run' = [run EXCEPT ![w] =
                  [@ EXCEPT !.stage = "investigate", !.seen = Shown(data, Domain(w)),
                            !.old = aged \cap {"HRIS", Domain(w)} # {}]]
             /\ request[w].employee
    <3>1. data' \in Data /\ \A s \in Systems \ InMemory : data'[s]["latest"] # Unread
      BY <2>1, ReadTypes DEF HRType
    <3>2. Shown(data, Domain(w)) \in Values \cup {Nil}
      BY <2>1, ReadTypes DEF HRType
    <3>3. Named(w) \in Systems \cup {Nil}
      <4>1. run[w].system \in Systems \cup {Nil}
        BY <2>1, <1>3, SystemTypes DEF Domain
      <4>2. run[w].stage = "context"
        BY DEF FetchContext, At
      <4> QED
        BY <4>1, <4>2 DEF Routed, KnownSystem
    <3> DEFINE next == [run[w] EXCEPT !.stage = "investigate", !.seen = Shown(data, Domain(w)),
                                      !.old = aged \cap {"HRIS", Domain(w)} # {}]
    <3>4. next \in RunOf /\ next.stage = "investigate" /\ next.system = run[w].system
      BY <3>2, <1>2 DEF RunType, RunOf
    <3>5. run' = [run EXCEPT ![w] = next]
      BY <2>1
    <3> HIDE DEF next
    <3> QED
      BY <2>1, <3>1, <3>3, <3>4, <3>5, <1>2 DEF RowType, RunType
  <2>2. CASE /\ ~ request[w].employee /\ data' = data
             /\ state' = [state EXCEPT ![w] = "INVESTIGATING"] /\ Enter(w, "investigate")
    <3> DEFINE next == [run[w] EXCEPT !.stage = "investigate", !.tries = 0]
    <3>1. run' = [run EXCEPT ![w] = next]
      BY <2>2 DEF Enter
    <3>2. next \in RunOf /\ next.stage = "investigate" /\ next.system = run[w].system
      BY <1>2, MaxTriesAssumption DEF RunType, RunOf
    <3> HIDE DEF next
    <3> QED
      BY <2>2, <3>1, <3>2, <1>2 DEF RowType, RunType, HRType
  <2>3. CASE Fail(w) /\ data' = data
    BY <2>3, <1>2, MovesType DEF HRType
  <2> QED
    BY <2>1, <2>2, <2>3 DEF FetchContext
<1>5. RowType'
  BY <1>1, <1>4 DEF RowType
<1>6. FactType' /\ HRType' /\ ApprovalsType'
  BY <1>1, <1>4 DEF FactType, HRType, ApprovalsType, factVars
<1>7. Routed'
  <2>1. (KnownSystem(w) /\ HasProposal(w))'
    BY <1>1, <1>4 DEF Routed, KnownSystem, HasProposal, Underway, Informed, Proposed,
                     Pending, Named, factVars
  <2> QED
    BY <1>1, <1>4, <2>1, RoutedKept DEF factVars
<1> QED
  BY <1>4, <1>5, <1>6, <1>7

\* The agents between the context and the review.
LEMMA AgentStepType ==
  ASSUME TypeInv, NEW w \in Workflows, Investigate(w) \/ GroundInPolicy(w) \/ Propose(w)
  PROVE  TypeInv'
<1> USE DEF TypeInv
<1>1. UNCHANGED <<paused, retries, intent, request, supervised, decisions, approvals, hrVars>>
  BY DEF Investigate, GroundInPolicy, Propose, factVars
<1>2. /\ {"POLICY_RETRIEVAL", "ACTION_PROPOSED", "COMPLIANCE_REVIEW"} \subseteq WorkflowState
      /\ {"policy", "propose", "review"} \subseteq Stage
  BY DEF WorkflowState, Stage, AgentStage
<1>3. PICK to \in {"POLICY_RETRIEVAL", "ACTION_PROPOSED", "COMPLIANCE_REVIEW"},
           next \in {"policy", "propose", "review"} :
        /\ MoveOn(w, to, next)
        /\ run[w].stage \in Informed
        /\ next = "review" => Propose(w)
  BY DEF Investigate, GroundInPolicy, Propose, At, Informed
<1>4. /\ state' \in [Workflows -> WorkflowState] /\ RunType'
      /\ \A v \in Workflows \ {w} : run'[v] = run[v] /\ state'[v] = state[v]
      /\ run'[w].system \in {Nil, run[w].system}
      /\ run'[w].stage \in {"idle", next}
      /\ state'[w] \in {"FAILED", to}
  BY <1>2, <1>3, MovesType
<1>5. finding' \in [Workflows -> Finding]
  <2>1. ASSUME Investigate(w) PROVE Investigation(request[w], run[w].seen) \in Finding
    BY AgentTypes DEF FactType, RunType, RunOf
  <2> QED
    BY <2>1 DEF Investigate, GroundInPolicy, Propose, FactType, factVars
<1>6. /\ proposal' \in [Workflows -> Proposal \cup {NoProposal}]
      /\ \A v \in Workflows \ {w} : proposal'[v] = proposal[v]
      /\ proposal[w] \in Proposal => proposal'[w] \in Proposal
      /\ Propose(w) => proposal'[w] \in Proposal
  <2>1. CASE Propose(w)
    <3>1. ProposalFor(request[w], finding[w]) \in Proposal
      BY AgentTypes DEF FactType
    <3>2. proposal' = [proposal EXCEPT ![w] = ProposalFor(request[w], finding[w])]
      BY <2>1 DEF Propose
    <3> QED
      BY <3>1, <3>2 DEF FactType
  <2>2. CASE ~ Propose(w)
    BY <2>2 DEF Investigate, GroundInPolicy, FactType, factVars
  <2> QED
    BY <2>1, <2>2
<1>7. RowType'
  BY <1>1, <1>4 DEF RowType
<1>8. FactType' /\ HRType' /\ ApprovalsType'
  BY <1>1, <1>5, <1>6 DEF FactType, HRType, ApprovalsType, hrVars
<1>9. Routed'
  <2>1. (KnownSystem(w) /\ HasProposal(w))'
    BY <1>1, <1>3, <1>4, <1>6 DEF Routed, KnownSystem, HasProposal, Underway, Informed, Proposed,
                               Pending, Named
  <2> QED
    BY <1>1, <1>4, <1>6, <2>1, RoutedKept
<1> QED
  BY <1>4, <1>7, <1>8, <1>9

\* The review stores a decision on the proposal, and may ask for an approval.
LEMMA ReviewType ==
  ASSUME TypeInv, NEW w \in Workflows, Review(w)
  PROVE  TypeInv'
<1> USE DEF TypeInv
<1> DEFINE verdict == Verdict(request[w], proposal[w])
           request1 == [of |-> Len(decisions[w]) + 1, status |-> "PENDING", proposal |-> proposal[w]]
<1>1. UNCHANGED <<retries, intent, request, supervised, finding, proposal, hrVars>>
  BY DEF Review
<1>2. /\ {"WAITING_FOR_APPROVAL", "DENIED", "ESCALATED", "EXECUTING", "FAILED"} \subseteq WorkflowState
      /\ {"execute", "idle"} \subseteq Stage
  BY DEF WorkflowState, Stage
<1>3. proposal[w] \in Proposal /\ run[w].stage = "review"
  BY DEF Routed, HasProposal, Underway, Proposed, Review, At
<1>4. decisions' \in [Workflows -> Seq(Decided)]
  <2>1. CASE decisions' = [decisions EXCEPT ![w] =
               Append(@, [decision |-> verdict, proposal |-> proposal[w]])]
             /\ verdict \in ComplianceDecision
    <3> DEFINE e == [decision |-> verdict, proposal |-> proposal[w]]
    <3>1. e \in Decided
      BY <2>1, <1>3 DEF Decided
    <3> HIDE DEF e, verdict
    <3>2. Append(decisions[w], e) \in Seq(Decided)
      BY <3>1 DEF FactType
    <3>3. decisions' = [decisions EXCEPT ![w] = Append(decisions[w], e)]
      BY <2>1 DEF e, FactType
    <3> QED
      BY <3>2, <3>3 DEF FactType
  <2>2. CASE decisions' = decisions
    BY <2>2 DEF FactType
  <2> QED
    BY <2>1, <2>2 DEF Review
<1>5. /\ paused' \in [Workflows -> BOOLEAN] /\ ApprovalsType'
      /\ \A v \in Workflows \ {w} : approvals'[v] = approvals[v]
      /\ state' \in [Workflows -> WorkflowState] /\ RunType'
      /\ \A v \in Workflows \ {w} : run'[v] = run[v] /\ state'[v] = state[v]
      /\ run'[w].system \in {Nil, run[w].system}
      /\ run'[w].stage \in {"idle", "execute"}
      /\ state'[w] # "APPROVED"
  <2>1. CASE /\ paused' = paused /\ approvals' = approvals
             /\ \/ Fail(w) \/ MoveAndEnd(w, "DENIED") \/ MoveAndEnd(w, "ESCALATED")
                \/ MoveOn(w, "EXECUTING", "execute")
    BY <2>1, <1>2, MovesType DEF RowType, ApprovalsType
  <2>2. CASE /\ state' = [state EXCEPT ![w] = "WAITING_FOR_APPROVAL"]
             /\ paused' = [paused EXCEPT ![w] = TRUE]
             /\ approvals' = [approvals EXCEPT ![w] = @ \cup {request1}]
             /\ EndRun(w)
    <3>1. request1 \in Approval
      BY <1>3 DEF Approval, ApprovalStatus, FactType
    <3>2. Idle \in RunOf /\ Idle.system = Nil /\ Idle.stage = "idle"
      BY <1>2, MaxTriesAssumption DEF Idle, RunOf
    <3> HIDE DEF request1
    <3> QED
      BY <2>2, <3>1, <3>2, <1>2 DEF RowType, ApprovalsType, RunType, EndRun
  <2> QED
    BY <2>1, <2>2 DEF Review, Obey, AskApproval
<1>6. RowType' /\ FactType' /\ HRType'
  BY <1>1, <1>4, <1>5 DEF RowType, FactType, HRType, hrVars
<1>7. Routed'
  <2>1. (KnownSystem(w) /\ HasProposal(w))'
    BY <1>1, <1>3, <1>5 DEF Routed, KnownSystem, HasProposal, Underway, Informed, Proposed,
                           Pending, Named
  <2> QED
    BY <1>1, <1>5, <2>1, RoutedKept
<1> QED
  BY <1>5, <1>6, <1>7

\* Applying the change: the adapter's answer, the write, the key, the end.
LEMMA AdapterType ==
  ASSUME TypeInv, NEW w \in Workflows,
         SkipAdapter(w) \/ RefuseInDryRun(w) \/ WriteRecord(w) \/ RecordKey(w) \/ Finish(w)
  PROVE  TypeInv'
<1> USE DEF TypeInv
<1>1. UNCHANGED <<paused, retries, intent, factVars, approvals>>
  BY DEF SkipAdapter, RefuseInDryRun, WriteRecord, RecordKey, Finish, rowVars
<1>2. /\ {"COMPLETED", "FAILED"} \subseteq WorkflowState
      /\ {"record", "finish", "idle"} \subseteq Stage
      /\ 0 \in 0 .. MaxTries
  BY MaxTriesAssumption DEF WorkflowState, Stage
<1>3. run[w].stage \in {"execute", "record", "finish"} \cap Informed \cap Proposed
  BY DEF SkipAdapter, RefuseInDryRun, WriteRecord, RecordKey, Finish, At, Informed, Proposed
<1>4. /\ state' \in [Workflows -> WorkflowState] /\ RunType'
      /\ \A v \in Workflows \ {w} : run'[v] = run[v] /\ state'[v] = state[v]
      /\ run'[w].system \in {Nil, run[w].system}
      /\ run'[w].stage \in {"idle", "record", "finish"}
      /\ state'[w] = "APPROVED" => state[w] = "APPROVED"
  <2>1. ASSUME state' = state, NEW next \in {"record", "finish"}, Enter(w, next)
        PROVE  /\ RunType' /\ \A v \in Workflows \ {w} : run'[v] = run[v]
               /\ run'[w].system = run[w].system /\ run'[w].stage = next
    <3>1. run' = [run EXCEPT ![w] = [run[w] EXCEPT !.stage = next, !.tries = 0]]
      BY <2>1 DEF Enter, RunType
    <3>2. [run[w] EXCEPT !.stage = next, !.tries = 0] \in RunOf
      BY <1>2 DEF RunType, RunOf
    <3> QED
      BY <3>1, <3>2 DEF RunType, RunOf
  <2>2. CASE Fail(w)
    BY <2>2, <1>2, MovesType
  <2>3. CASE state' = [state EXCEPT ![w] = "COMPLETED"] /\ EndRun(w)
    <3>1. Idle \in RunOf /\ Idle.system = Nil /\ Idle.stage = "idle"
      BY <1>2 DEF Idle, RunOf
    <3> QED
      BY <2>3, <3>1, <1>2 DEF EndRun, RowType, RunType
  <2> QED
    BY <2>1, <2>2, <2>3
       DEF SkipAdapter, RefuseInDryRun, WriteRecord, RecordKey, Finish, rowVars, RowType
<1>5. proposal[w] \in Proposal
  BY <1>3 DEF Routed, HasProposal, Underway
<1>6. ~ NothingToApply(w) => Domain(w) \in Systems
  <2>1. ASSUME request[w].employee PROVE run[w].system \in Systems \cup {Nil}
    BY <2>1, <1>3 DEF Routed, KnownSystem, Underway
  <2> QED
    BY <2>1, SystemTypes DEF Domain, NothingToApply
<1>7. HRType'
  <2>1. CASE UNCHANGED hrVars
    BY <2>1 DEF HRType, hrVars
  <2>2. CASE RefuseInDryRun(w)
    <3>1. Domain(w) \in Systems
      BY <2>2, <1>6 DEF RefuseInDryRun
    <3> QED
      BY <2>2, <3>1, ReadTypes DEF RefuseInDryRun, HRType
  <2>3. CASE WriteRecord(w)
    <3>1. Domain(w) \in Systems
      BY <2>3, <1>6 DEF WriteRecord
    <3>2. proposal[w].after \in Values \cup {Nil}
      BY <1>5 DEF Proposal
    <3>3. data' \in Data /\ \A s \in Systems \ InMemory : data'[s]["latest"] # Unread
      BY <2>3, <3>1, <3>2, WriteTypes DEF WriteRecord, Accepted, HRType
    <3>4. ThisChange(w) \in Change
      BY <1>5 DEF ThisChange, Change, FactType
    <3> HIDE DEF ThisChange
    <3> QED
      BY <2>3, <3>3, <3>4 DEF WriteRecord, HRType
  <2>4. CASE RecordKey(w)
    BY <2>4, <1>5 DEF RecordKey, Key, HRType
  <2> QED
    BY <2>1, <2>2, <2>3, <2>4 DEF SkipAdapter, Finish
<1>8. RowType' /\ FactType' /\ ApprovalsType'
  BY <1>1, <1>4 DEF RowType, FactType, ApprovalsType, factVars
<1>9. Routed'
  <2>1. (KnownSystem(w) /\ HasProposal(w))'
    BY <1>1, <1>3, <1>4 DEF Routed, KnownSystem, HasProposal, Underway, Informed, Proposed,
                           Pending, Named, factVars
  <2> QED
    BY <1>1, <1>4, <2>1, RoutedKept DEF factVars
<1> QED
  BY <1>4, <1>7, <1>8, <1>9

-----------------------------------------------------------------------------
(***************************************************************************)
(* The steps of everybody else.                                            *)
(***************************************************************************)

\* The outcome of an approval is a state a workflow may be in.
LEMMA OutcomesAreStates == ApprovalStatus \ {"PENDING"} \subseteq WorkflowState
  BY DEF ApprovalStatus, WorkflowState

\* The calls that come in beside a run; the workflow becomes APPROVED only by
\* the request that was pending.
LEMMA UserType ==
  ASSUME TypeInv, NEW w \in Workflows, UserStep(w)
  PROVE  TypeInv'
<1> USE DEF TypeInv
<1>1. UNCHANGED <<factVars, hrVars, run>>
  BY DEF UserStep
<1>2. {"CANCELLED", "RETRY_SCHEDULED", "RECEIVED", "CLASSIFYING"} \subseteq WorkflowState
  BY DEF WorkflowState
<1>3. CASE Resolve(w)
  <2>1. PICK a \in Pending(w), outcome \in ApprovalStatus \ {"PENDING"} :
          /\ approvals' = [approvals EXCEPT ![w] = (@ \ {a}) \cup {[a EXCEPT !.status = outcome]}]
          /\ state' = [state EXCEPT ![w] = outcome]
          /\ paused' = [paused EXCEPT ![w] = FALSE]
          /\ UNCHANGED <<retries, intent>>
    BY <1>3 DEF Resolve, SetState, SetPause
  <2>2. outcome \in WorkflowState /\ [a EXCEPT !.status = outcome] \in Approval
    BY OutcomesAreStates DEF Pending, ApprovalsType, Approval
  <2>3. RowType' /\ ApprovalsType'
    BY <2>1, <2>2 DEF RowType, ApprovalsType
  <2>4. FactType' /\ HRType' /\ RunType'
    BY <1>1 DEF FactType, HRType, RunType, factVars, hrVars
  <2>5. (KnownSystem(w) /\ HasProposal(w))'
    BY <1>1, <2>1 DEF Routed, KnownSystem, HasProposal, Underway, Named, factVars
  <2>6. Routed'
    BY <1>1, <2>1, <2>5, RoutedKept DEF RowType, ApprovalsType, factVars
  <2> QED
    BY <2>3, <2>4, <2>6
<1>4. CASE ~ Resolve(w)
  <2>1. /\ approvals' = approvals /\ RowType'
        /\ \A v \in Workflows \ {w} : state'[v] = state[v]
        /\ state'[w] = "APPROVED" => state[w] = "APPROVED"
    <3>1. CASE Pause(w) \/ Resume(w)
      BY <3>1 DEF Pause, Resume, SetPause, RowType
    <3>2. CASE Cancel(w) \/ Clarify(w)
      BY <3>2, <1>2 DEF Cancel, Clarify, SetState, SetPause, RowType
    <3>3. CASE RequestTransition(w)
      BY <3>3, CallerTargetsAssumption DEF RequestTransition, SetState, RowType
    <3>4. CASE SetIntent(w)
      BY <3>4 DEF SetIntent, RowType
    <3>5. CASE Retry(w)
      BY <3>5, <1>2 DEF Retry, SetState, RowType
    <3> QED
      BY <3>1, <3>2, <3>3, <3>4, <3>5, <1>4 DEF UserStep
  <2>2. FactType' /\ HRType' /\ RunType' /\ ApprovalsType'
    BY <1>1, <2>1 DEF FactType, HRType, RunType, ApprovalsType, factVars, hrVars
  <2>3. (KnownSystem(w) /\ HasProposal(w))'
    BY <1>1, <2>1 DEF Routed, KnownSystem, HasProposal, Underway, Pending, Named, factVars
  <2>4. Routed'
    BY <1>1, <2>1, <2>3, RoutedKept DEF factVars
  <2> QED
    BY <2>1, <2>2, <2>4
<1> QED
  BY <1>3, <1>4

\* Somebody else's change, the passing of time and a restart.
LEMMA WorldType ==
  ASSUME TypeInv, Crash \/ \E s \in Systems : Edit(s) \/ Ages(s)
  PROVE  TypeInv'
<1> USE DEF TypeInv
<1>1. UNCHANGED <<rowVars, factVars, approvals, keys, applied, writes>>
  BY DEF Crash, Edit, Ages
<1>2. run' = run \/ run' = [w \in Workflows |-> Idle]
  BY DEF Crash, Edit, Ages
<1>3. Idle \in RunOf /\ Idle.system = Nil /\ Idle.stage = "idle"
  BY MaxTriesAssumption DEF Idle, RunOf, Stage
<1>4. RunType' /\ RowType' /\ FactType' /\ ApprovalsType'
  BY <1>1, <1>2, <1>3 DEF RunType, RowType, FactType, ApprovalsType, rowVars, factVars
<1>5. HRType'
  <2>1. CASE Crash
    BY <2>1, <1>1, RestartTypes DEF Crash, HRType
  <2>2. ASSUME NEW s \in Systems, Edit(s) PROVE HRType'
    BY <2>2, <1>1, ValuesAssumption DEF Edit, HRType, Data, Records
  <2>3. ASSUME NEW s \in Systems, Ages(s) PROVE HRType'
    BY <2>3, <1>1 DEF Ages, HRType
  <2> QED
    BY <2>1, <2>2, <2>3
<1>6. Routed'
  BY <1>1, <1>2, <1>3 DEF Routed, KnownSystem, HasProposal, Underway, Informed, Proposed,
                         Pending, Named, rowVars, factVars
<1> QED
  BY <1>4, <1>5, <1>6

-----------------------------------------------------------------------------
\* The type invariant is inductive.
LEMMA TypeInductive == TypeInv /\ [Next]_vars => TypeInv'
<1> SUFFICES ASSUME TypeInv, [Next]_vars PROVE TypeInv'
  OBVIOUS
<1>1. ASSUME NEW w \in Workflows, StartRun(w) PROVE TypeInv'
  BY <1>1, StartType
<1>2. ASSUME NEW w \in Workflows, RunStep(w) PROVE TypeInv'
  BY <1>2, AskType, ClassifyType, FetchType, AgentStepType, ReviewType, AdapterType DEF RunStep
<1>3. ASSUME NEW w \in Workflows, UserStep(w) PROVE TypeInv'
  BY <1>3, UserType
<1>4. CASE Crash \/ \E s \in Systems : Edit(s) \/ Ages(s)
  BY <1>4, WorldType
<1>5. CASE UNCHANGED vars
  BY <1>5 DEF vars, rowVars, factVars, hrVars, TypeInv, RowType, FactType, HRType, ApprovalsType,
              RunType, Routed, KnownSystem, HasProposal, Underway, Pending, Named
<1> QED
  BY <1>1, <1>2, <1>3, <1>4, <1>5 DEF Next

\* The crashes are counted.
LEMMA CrashesInductive == crashes \in Nat /\ [Next]_vars => (crashes \in Nat)'
  BY DEF Next, Crash, vars

\* Both hold in every behaviour.
LEMMA TypeInvariant == Spec => [](TypeInv /\ crashes \in Nat)
<1>1. Init => crashes \in Nat
  BY DEF Init
<1> QED
  BY <1>1, TypeInitial, TypeInductive, CrashesInductive, PTL DEF Spec

\* Whatever the requests, the model's answers and the interruptions, every
\* row and every run of the orchestration has its type.
THEOREM OrchestratorTypes == Spec => []OrchestratorTypeOK
<1> QED
  BY TypeInvariant, TypeInvTypes, PTL
=============================================================================
