----------------------- MODULE WorkflowSessionsProofs -----------------------
(***************************************************************************)
(* Theorems about WorkflowSessions: the calls of the API and of the        *)
(* scheduler interleaved statement by statement, and abandoned anywhere    *)
(* (CrashSpec), or one after the other (SerialSpec).  Any number of calls  *)
(* is opened, and MaxRetries is any natural number.                        *)
(***************************************************************************)
EXTENDS WorkflowSessions, FiniteSetTheorems, SequenceTheorems, TLAPS

-----------------------------------------------------------------------------
(***************************************************************************)
(* Rows: what a write computes, and what its UPDATE leaves in the row.     *)
(***************************************************************************)

Columns ==
  {"state", "previous", "paused", "retries", "completed", "intent", "version"}

\* A row is a function of its columns.
LEMMA RowColumns ==
  ASSUME NEW r \in Row
  PROVE  r = [f \in Columns |-> r[f]] /\ DOMAIN r = Columns
BY DEF Row, Columns

\* The columns of a row determine its type.
LEMMA RowFrom ==
  ASSUME NEW r, r = [f \in Columns |-> r[f]],
         r.state \in WorkflowState, r.previous \in WorkflowState \cup {NoState},
         r.paused \in BOOLEAN, r.retries \in Nat, r.completed \in BOOLEAN,
         r.intent \in BOOLEAN, r.version \in Nat
  PROVE  r \in Row
BY DEF Row, Columns

\* The row as the service knows it has the other columns.
LEMMA UnversionedRow ==
  ASSUME NEW r \in Row
  PROVE  Unversioned(r) =
           [ state |-> r.state, previous |-> r.previous, paused |-> r.paused,
             retries |-> r.retries, completed |-> r.completed, intent |-> r.intent ]
BY DEF Unversioned, Row

\* The checks of the service, in the words of this module.
LEMMA ServiceChecks ==
  ASSUME NEW r, NEW to
  PROVE  /\ Service!CanMove(r, to) <=>
              ~ IsTerminal(r.state) /\ ~ r.paused /\ ValidTransition(r.state, to)
         /\ \A s : Service!IsTerminal(s) <=> IsTerminal(s)
         /\ \A s : Service!ValidTransition(s, to) <=> ValidTransition(s, to)
         /\ \A s : Service!Edge(s, to) = [from |-> s, to |-> to]
BY DEF Service!CanMove, Service!IsTerminal, Service!TERMINAL_STATES, IsTerminal,
       TERMINAL_STATES, Service!ValidTransition, Service!VALID_TRANSITIONS,
       ValidTransition, VALID_TRANSITIONS, Service!Edge

\* The next version only changes the version.
LEMMA BumpedRow ==
  ASSUME NEW r \in Row
  PROVE  /\ Bumped(r) \in Row
         /\ Bumped(r).state = r.state /\ Bumped(r).previous = r.previous
         /\ Bumped(r).paused = r.paused /\ Bumped(r).retries = r.retries
         /\ Bumped(r).completed = r.completed /\ Bumped(r).intent = r.intent
<1> DEFINE n == r.version + 1
<1>1. n \in Nat
  BY DEF Row
<1>2. Bumped(r) = [r EXCEPT !.version = n]
  BY DEF Bumped
<1> HIDE DEF n
<1> QED BY <1>1, <1>2 DEF Row

\* update_workflow_state writes a row.
LEMMA MovedRow ==
  ASSUME NEW r \in Row, NEW to \in WorkflowState
  PROVE  /\ Service!MovedTo(r, to) \in Row
         /\ Service!MovedTo(r, to).state = to
         /\ Service!MovedTo(r, to).retries = r.retries
BY DEF Service!MovedTo, Row

\* So do pause, resume, cancel and the classification.
LEMMA HeldRow ==
  ASSUME NEW r \in Row
  PROVE  /\ Service!Paused(r) \in Row /\ Service!Resumed(r) \in Row
         /\ Service!Cancelled(r) \in Row /\ [r EXCEPT !.intent = TRUE] \in Row
         /\ Service!Paused(r).state = r.state /\ Service!Paused(r).retries = r.retries
         /\ Service!Resumed(r).state = r.state /\ Service!Resumed(r).retries = r.retries
         /\ Service!Cancelled(r).state = "CANCELLED"
         /\ Service!Cancelled(r).retries = r.retries
         /\ [r EXCEPT !.intent = TRUE].state = r.state
         /\ [r EXCEPT !.intent = TRUE].retries = r.retries
BY DEF Service!Paused, Service!Resumed, Service!Cancelled, Row, WorkflowState

\* And so does retry_workflow.
LEMMA RetriedRow ==
  ASSUME NEW r \in Row
  PROVE  /\ Service!RetryScheduled(r) \in Row
         /\ Service!RetryScheduled(r).state = "RETRY_SCHEDULED"
         /\ Service!RetryScheduled(r).retries = r.retries + 1
<1> DEFINE n == r.retries + 1
<1>1. n \in Nat
  BY DEF Row
<1>2. Service!RetryScheduled(r) =
        [r EXCEPT !.previous = "FAILED", !.state = "RETRY_SCHEDULED", !.retries = n]
  BY DEF Service!RetryScheduled
<1> HIDE DEF n
<1>3. /\ Service!RetryScheduled(r) \in Row
      /\ Service!RetryScheduled(r).state = "RETRY_SCHEDULED"
      /\ Service!RetryScheduled(r).retries = n
  BY <1>1, <1>2 DEF Row, WorkflowState
<1> QED BY <1>3 DEF n

-----------------------------------------------------------------------------
(***************************************************************************)
(* Writes.                                                                 *)
(***************************************************************************)

\* The writes of the calls, and the steps of a run that decide.  A move never
\* asks for FAILED or RETRY_SCHEDULED: "fail" and "retry" do.
Plain ==
  {"intent", "understand", "decide", "pause", "hold", "resume", "cancel",
   "retry", "run", "fail", "force"}

Goals == WorkflowState \ {"FAILED", "RETRY_SCHEDULED"}

Write == {Do(x) : x \in Plain} \cup {Move(s) : s \in Goals}

\* A write is a move, or has a name of its own.
LEMMA WriteKinds ==
  ASSUME NEW w \in Write
  PROVE  \/ w.do = "move" /\ w = Move(w.to) /\ w.to \in Goals
         \/ w.do \in Plain /\ w = Do(w.do)
BY DEF Write, Do, Move

\* The state that a write leaves in the copy, and how it counts.
StateAfter(w, copy) ==
  CASE Versioned(w)    -> Target(w)
    [] w.do = "cancel" -> "CANCELLED"
    [] w.do = "retry"  -> "RETRY_SCHEDULED"
    [] OTHER           -> copy.state

RetriesAfter(w, copy) == IF w.do = "retry" THEN copy.retries + 1 ELSE copy.retries

\* Every write of a copy gives a row.
LEMMA WrittenRow ==
  ASSUME NEW w \in Write, w.do \notin Deciding, NEW copy \in Row
  PROVE  /\ Written(w, copy) \in Row
         /\ Written(w, copy).state = StateAfter(w, copy)
         /\ Written(w, copy).retries = RetriesAfter(w, copy)
<1>0. CASE w.do = "move" \/ w.do = "fail" \/ w.do = "force"
  <2>1. Versioned(w) /\ Target(w) \in WorkflowState
    BY <1>0, WriteKinds DEF Versioned, Target, Goals, WorkflowState, Plain
  <2>2. Written(w, copy) = Bumped(Service!MovedTo(copy, Target(w)))
    BY <1>0 DEF Written, Versioned
  <2>3. StateAfter(w, copy) = Target(w) /\ RetriesAfter(w, copy) = copy.retries
    BY <1>0 DEF StateAfter, RetriesAfter, Versioned
  <2>4. Service!MovedTo(copy, Target(w)) \in Row
    BY <2>1, MovedRow
  <2> QED BY <2>1, <2>2, <2>3, <2>4, MovedRow, BumpedRow
<1>1. CASE w.do = "pause" \/ w.do = "hold"
  <2>1. Written(w, copy) = Bumped(Service!Paused(copy))
    BY <1>1 DEF Written, Versioned
  <2>2. StateAfter(w, copy) = copy.state /\ RetriesAfter(w, copy) = copy.retries
    BY <1>1 DEF StateAfter, RetriesAfter, Versioned
  <2>3. Service!Paused(copy) \in Row
    BY HeldRow
  <2>4. /\ Written(w, copy) \in Row
        /\ Written(w, copy).state = Service!Paused(copy).state
        /\ Written(w, copy).retries = Service!Paused(copy).retries
    BY <2>1, <2>3, BumpedRow
  <2> QED BY <2>2, <2>4, HeldRow
<1>2. CASE w.do = "resume"
  <2>1. Written(w, copy) = Bumped(Service!Resumed(copy))
    BY <1>2 DEF Written, Versioned
  <2>2. StateAfter(w, copy) = copy.state /\ RetriesAfter(w, copy) = copy.retries
    BY <1>2 DEF StateAfter, RetriesAfter, Versioned
  <2>3. Service!Resumed(copy) \in Row
    BY HeldRow
  <2>4. /\ Written(w, copy) \in Row
        /\ Written(w, copy).state = Service!Resumed(copy).state
        /\ Written(w, copy).retries = Service!Resumed(copy).retries
    BY <2>1, <2>3, BumpedRow
  <2> QED BY <2>2, <2>4, HeldRow
<1>3. CASE w.do = "cancel"
  <2>1. Written(w, copy) = Bumped(Service!Cancelled(copy))
    BY <1>3 DEF Written, Versioned
  <2>2. StateAfter(w, copy) = "CANCELLED" /\ RetriesAfter(w, copy) = copy.retries
    BY <1>3 DEF StateAfter, RetriesAfter, Versioned
  <2>3. Service!Cancelled(copy) \in Row
    BY HeldRow
  <2>4. /\ Written(w, copy) \in Row
        /\ Written(w, copy).state = Service!Cancelled(copy).state
        /\ Written(w, copy).retries = Service!Cancelled(copy).retries
    BY <2>1, <2>3, BumpedRow
  <2> QED BY <2>2, <2>4, HeldRow
<1>4. CASE w.do = "retry"
  <2>1. Written(w, copy) = Bumped(Service!RetryScheduled(copy))
    BY <1>4 DEF Written, Versioned
  <2>2. /\ StateAfter(w, copy) = "RETRY_SCHEDULED"
        /\ RetriesAfter(w, copy) = copy.retries + 1
    BY <1>4 DEF StateAfter, RetriesAfter, Versioned
  <2>3. Service!RetryScheduled(copy) \in Row
    BY RetriedRow
  <2>4. /\ Written(w, copy) \in Row
        /\ Written(w, copy).state = Service!RetryScheduled(copy).state
        /\ Written(w, copy).retries = Service!RetryScheduled(copy).retries
    BY <2>1, <2>3, BumpedRow
  <2> QED BY <2>2, <2>4, RetriedRow
<1>5. CASE w.do = "intent"
  <2>1. Written(w, copy) = [copy EXCEPT !.intent = TRUE]
    BY <1>5 DEF Written, Versioned
  <2>2. StateAfter(w, copy) = copy.state /\ RetriesAfter(w, copy) = copy.retries
    BY <1>5 DEF StateAfter, RetriesAfter, Versioned
  <2> QED BY <2>1, <2>2, HeldRow
<1> QED
  BY <1>0, <1>1, <1>2, <1>3, <1>4, <1>5, WriteKinds DEF Plain, Deciding

\* The UPDATE leaves a row: a column has the copy's new value where the write
\* changed it, and keeps its own where not.
LEMMA UpdatedRow ==
  ASSUME NEW w, NEW old \in Row, NEW new \in Row, row \in Row, Update(w, old, new)
  PROVE  /\ row' \in Row
         /\ row'.state = IF new.state # old.state THEN new.state ELSE row.state
         /\ row'.retries = IF new.retries # old.retries THEN new.retries ELSE row.retries
         /\ old = row => row' = new
<1>1. DOMAIN row = Columns
  BY RowColumns
<1>2. row' = [f \in Columns |-> row'[f]]
  BY <1>1 DEF Update
<1>3. \A f \in Columns :
        row'[f] = IF new[f] # old[f] \/ (f = "paused" /\ w.do = "hold")
                  THEN new[f] ELSE row[f]
  BY <1>1 DEF Update
<1>4. row' \in Row
  BY <1>2, <1>3 DEF Row, Columns
<1>5. old = row => \A f \in Columns : row'[f] = new[f]
  BY <1>3
<1>6. old = row => row' = new
  BY <1>2, <1>5, RowColumns
<1> QED BY <1>3, <1>4, <1>6 DEF Columns

\* A write records at most one transition.
LEMMA EntryList ==
  ASSUME NEW w \in Write, NEW copy \in Row
  PROVE  Entry(w, copy) \in Seq(Transition) /\ Len(Entry(w, copy)) <= 1
<1>1. w.do \in {"move", "fail"} => Target(w) \in WorkflowState
  BY WriteKinds DEF Target, Goals, WorkflowState, Plain
<1>2. \A s, t \in WorkflowState : Service!Edge(s, t) \in Transition
  BY DEF Service!Edge, Transition
<1>3. {"CANCELLED", "FAILED", "RETRY_SCHEDULED"} \subseteq WorkflowState
  BY DEF WorkflowState
<1>4. copy.state \in WorkflowState
  BY DEF Row
<1>5. \A e \in Transition : <<e>> \in Seq(Transition) /\ Len(<<e>>) = 1
  OBVIOUS
<1>6. << >> \in Seq(Transition) /\ Len(<< >>) = 0
  OBVIOUS
<1>7. CASE w.do \in {"move", "fail"}
  <2>1. Entry(w, copy) = <<Service!Edge(copy.state, Target(w))>>
    BY <1>7 DEF Entry
  <2> QED BY <2>1, <1>7, <1>1, <1>2, <1>4, <1>5
<1>8. CASE w.do = "cancel"
  <2>1. Entry(w, copy) = <<Service!Edge(copy.state, "CANCELLED")>>
    BY <1>8 DEF Entry
  <2> QED BY <2>1, <1>2, <1>3, <1>4, <1>5
<1>9. CASE w.do = "retry"
  <2>1. Entry(w, copy) = <<Service!Edge("FAILED", "RETRY_SCHEDULED")>>
    BY <1>9 DEF Entry
  <2> QED BY <2>1, <1>2, <1>3, <1>5
<1>10. CASE w.do \notin {"move", "fail", "cancel", "retry"}
  <2>1. Entry(w, copy) = << >>
    BY <1>10 DEF Entry
  <2> QED BY <2>1, <1>6
<1> QED BY <1>7, <1>8, <1>9, <1>10

-----------------------------------------------------------------------------
(***************************************************************************)
(* Scripts.                                                                *)
(***************************************************************************)

\* A list of states gives a list of moves.
LEMMA MovesList ==
  ASSUME NEW S, NEW states \in Seq(S)
  PROVE  /\ Moves(states) \in Seq({Move(s) : s \in S})
         /\ Len(Moves(states)) = Len(states)
         /\ \A i \in 1 .. Len(states) : Moves(states)[i] = Move(states[i])
BY DEF Moves

\* What is left of a list after its first k - 1 elements.
From(list, k) == SubSeq(list, k, Len(list))

\* Taking the head off what is left.
LEMMA FromTail ==
  ASSUME NEW S, NEW list \in Seq(S), NEW k \in 1 .. Len(list)
  PROVE  /\ From(list, k) \in Seq(S) /\ From(list, k) # << >>
         /\ Len(From(list, k)) = Len(list) - k + 1
         /\ \A i \in 1 .. Len(list) - k + 1 : From(list, k)[i] = list[k + i - 1]
         /\ Head(From(list, k)) = list[k]
         /\ k < Len(list) => Tail(From(list, k)) = From(list, k + 1)
         /\ k = Len(list) => Tail(From(list, k)) = << >>
         /\ From(list, 1) = list
<1>1. /\ From(list, k) \in Seq(S) /\ Len(From(list, k)) = Len(list) - k + 1
      /\ \A i \in 1 .. Len(list) - k + 1 : From(list, k)[i] = list[k + i - 1]
  BY DEF From
<1>2. From(list, k) # << >> /\ Head(From(list, k)) = list[k]
  BY <1>1
<1>3. ASSUME k < Len(list) PROVE Tail(From(list, k)) = From(list, k + 1)
  BY <1>3 DEF From
<1>4. ASSUME k = Len(list) PROVE Tail(From(list, k)) = << >>
  <2> DEFINE rest == From(list, k)
  <2>1. rest \in Seq(S) /\ rest # << >> /\ Len(rest) = 1
    BY <1>1, <1>2, <1>4
  <2> HIDE DEF rest
  <2>2. Tail(rest) \in Seq(S) /\ Len(Tail(rest)) = 0
    BY <2>1, HeadTailProperties
  <2>3. Tail(rest) = << >>
    BY <2>2, EmptySeq
  <2> QED BY <2>3 DEF rest
<1>5. From(list, 1) = list
  BY DEF From
<1> QED BY <1>1, <1>2, <1>3, <1>4, <1>5

\* One list after the other.
LEMMA Concatenated ==
  ASSUME NEW a \in Seq(Write), NEW b \in Seq(Write)
  PROVE  /\ a \o b \in Seq(Write) /\ Len(a \o b) = Len(a) + Len(b)
         /\ \A i \in 1 .. Len(a) : (a \o b)[i] = a[i]
         /\ \A i \in 1 .. Len(b) : (a \o b)[Len(a) + i] = b[i]
OBVIOUS

\* The run from its context on, write by write.
LEMMA ContextWrites ==
  /\ RunFromContext \in Seq(Write) /\ Len(RunFromContext) = 7
  /\ RunFromContext[1] = Move("CONTEXT_RETRIEVAL")
  /\ RunFromContext[2] = Move("DATA_FRESHNESS_CHECK")
  /\ RunFromContext[3] = Move("INVESTIGATING")
  /\ RunFromContext[4] = Move("POLICY_RETRIEVAL")
  /\ RunFromContext[5] = Move("ACTION_PROPOSED")
  /\ RunFromContext[6] = Move("COMPLIANCE_REVIEW")
  /\ RunFromContext[7] = Do("decide")
<1> DEFINE states == <<"CONTEXT_RETRIEVAL", "DATA_FRESHNESS_CHECK", "INVESTIGATING",
                       "POLICY_RETRIEVAL", "ACTION_PROPOSED", "COMPLIANCE_REVIEW">>
           moves == Moves(states)
           last == <<Do("decide")>>
<1>1. states \in Seq(Goals) /\ Len(states) = 6
  BY DEF Goals, WorkflowState
<1>2. /\ moves \in Seq({Move(s) : s \in Goals}) /\ Len(moves) = 6
      /\ \A i \in 1 .. 6 : moves[i] = Move(states[i])
  <2> HIDE DEF states
  <2> QED BY <1>1, MovesList
<1>3. moves \in Seq(Write)
  BY <1>2 DEF Write
<1>4. last \in Seq(Write) /\ Len(last) = 1 /\ last[1] = Do("decide")
  BY DEF Write, Plain
<1>5. RunFromContext = moves \o last
  BY DEF RunFromContext
<1>6. /\ moves[1] = Move("CONTEXT_RETRIEVAL") /\ moves[2] = Move("DATA_FRESHNESS_CHECK")
      /\ moves[3] = Move("INVESTIGATING") /\ moves[4] = Move("POLICY_RETRIEVAL")
      /\ moves[5] = Move("ACTION_PROPOSED") /\ moves[6] = Move("COMPLIANCE_REVIEW")
  <2> HIDE DEF moves
  <2> QED BY <1>2
<1> HIDE DEF moves, last
<1>7. /\ RunFromContext \in Seq(Write) /\ Len(RunFromContext) = 7
      /\ \A i \in 1 .. 6 : RunFromContext[i] = moves[i]
      /\ \A i \in 1 .. 1 : RunFromContext[6 + i] = last[i]
  <2>1. /\ moves \o last \in Seq(Write) /\ Len(moves \o last) = Len(moves) + Len(last)
        /\ \A i \in 1 .. Len(moves) : (moves \o last)[i] = moves[i]
        /\ \A i \in 1 .. Len(last) : (moves \o last)[Len(moves) + i] = last[i]
    BY <1>3, <1>4, Concatenated
  <2> QED BY <2>1, <1>2, <1>4, <1>5
<1>8. RunFromContext[7] = last[1]
  BY <1>7
<1> QED BY <1>4, <1>6, <1>7, <1>8

\* The whole run, write by write.
LEMMA RunWrites ==
  /\ RunScript \in Seq(Write) /\ Len(RunScript) = 12
  /\ RunScript[1] = Move("AUTHENTICATED")
  /\ RunScript[2] = Move("AUTHORIZED")
  /\ RunScript[3] = Move("CLASSIFYING")
  /\ RunScript[4] = Do("intent")
  /\ RunScript[5] = Do("understand")
  /\ \A i \in 6 .. 12 : RunScript[i] = RunFromContext[i - 5]
  /\ RunFromContext = From(RunScript, 6)
<1> DEFINE states == <<"AUTHENTICATED", "AUTHORIZED", "CLASSIFYING">>
           moves == Moves(states)
           understanding == <<Do("intent"), Do("understand")>>
<1>1. states \in Seq(Goals) /\ Len(states) = 3
  BY DEF Goals, WorkflowState
<1>2. /\ moves \in Seq({Move(s) : s \in Goals}) /\ Len(moves) = 3
      /\ \A i \in 1 .. 3 : moves[i] = Move(states[i])
  <2> HIDE DEF states
  <2> QED BY <1>1, MovesList
<1>3. moves \in Seq(Write)
  BY <1>2 DEF Write
<1>4. /\ understanding \in Seq(Write) /\ Len(understanding) = 2
      /\ understanding[1] = Do("intent") /\ understanding[2] = Do("understand")
  BY DEF Write, Plain
<1>5. RunScript = (moves \o understanding) \o RunFromContext
  <2>1. RunScript = moves \o understanding \o RunFromContext
    BY DEF RunScript
  <2> QED BY <2>1
<1>6. /\ moves[1] = Move("AUTHENTICATED") /\ moves[2] = Move("AUTHORIZED")
      /\ moves[3] = Move("CLASSIFYING")
  <2> HIDE DEF moves
  <2> QED BY <1>2
<1> HIDE DEF moves, understanding
<1>7. /\ RunScript \in Seq(Write) /\ Len(RunScript) = 12
      /\ \A i \in 1 .. 3 : RunScript[i] = moves[i]
      /\ \A i \in 4 .. 5 : RunScript[i] = understanding[i - 3]
      /\ \A i \in 6 .. 12 : RunScript[i] = RunFromContext[i - 5]
  <2> DEFINE first == moves \o understanding
  <2>1. /\ first \in Seq(Write) /\ Len(first) = 5
        /\ \A i \in 1 .. 3 : first[i] = moves[i]
        /\ \A i \in 1 .. 2 : first[3 + i] = understanding[i]
    <3>1. /\ first \in Seq(Write) /\ Len(first) = Len(moves) + Len(understanding)
          /\ \A i \in 1 .. Len(moves) : first[i] = moves[i]
          /\ \A i \in 1 .. Len(understanding) : first[Len(moves) + i] = understanding[i]
      BY <1>3, <1>4, Concatenated
    <3> HIDE DEF first
    <3> QED BY <3>1, <1>2, <1>4
  <2>2. RunScript = first \o RunFromContext
    BY <1>5
  <2> HIDE DEF first
  <2>3. /\ RunScript \in Seq(Write) /\ Len(RunScript) = 12
        /\ \A i \in 1 .. 5 : RunScript[i] = first[i]
        /\ \A i \in 1 .. 7 : RunScript[5 + i] = RunFromContext[i]
    <3> DEFINE script == first \o RunFromContext
    <3>1. /\ script \in Seq(Write) /\ Len(script) = Len(first) + Len(RunFromContext)
          /\ \A i \in 1 .. Len(first) : script[i] = first[i]
          /\ \A i \in 1 .. Len(RunFromContext) :
               script[Len(first) + i] = RunFromContext[i]
      BY <2>1, ContextWrites, Concatenated
    <3> HIDE DEF script
    <3>2. RunScript = script
      BY <2>2 DEF script
    <3> QED BY <3>1, <3>2, <2>1, ContextWrites
  <2>4. ASSUME NEW i \in 6 .. 12 PROVE RunScript[i] = RunFromContext[i - 5]
    <3>1. i - 5 \in 1 .. 7 /\ 5 + (i - 5) = i
      OBVIOUS
    <3> QED BY <3>1, <2>3
  <2>5. ASSUME NEW i \in 4 .. 5 PROVE RunScript[i] = understanding[i - 3]
    <3>1. i - 3 \in 1 .. 2 /\ 3 + (i - 3) = i /\ i \in 1 .. 5
      OBVIOUS
    <3> QED BY <3>1, <2>1, <2>3
  <2>6. ASSUME NEW i \in 1 .. 3 PROVE RunScript[i] = moves[i]
    BY <2>1, <2>3
  <2> QED BY <2>3, <2>4, <2>5, <2>6
<1>8. RunFromContext = From(RunScript, 6)
  BY <1>7, ContextWrites DEF From
<1> QED BY <1>4, <1>6, <1>7, <1>8

\* What _apply_decision may have to write, and what follows an answer of the
\* supervisor.
LEMMA DecisionWrites ==
  /\ Decisions \subseteq Seq(Write) \ {<< >>}
  /\ \A rest \in Seq(Write) : Understandings(rest) \subseteq Seq(Write)
<1>1. /\ \A s \in Goals : Move(s) \in Write
      /\ \A x \in Plain : Do(x) \in Write
  BY DEF Write
<1>2. Moves(<<"EXECUTING", "VERIFYING", "COMPLETED">>) \in Seq(Write) \ {<< >>}
  <2> DEFINE states == <<"EXECUTING", "VERIFYING", "COMPLETED">>
  <2>1. states \in Seq(Goals) /\ Len(states) = 3
    BY DEF Goals, WorkflowState
  <2> HIDE DEF states
  <2>2. Moves(states) \in Seq({Move(s) : s \in Goals}) /\ Len(Moves(states)) = 3
    BY <2>1, MovesList
  <2>3. Moves(states) \in Seq(Write) \ {<< >>}
    BY <2>2 DEF Write
  <2> QED BY <2>3 DEF states
<1>3. {"DENIED", "ESCALATED", "WAITING_FOR_APPROVAL", "NEEDS_CLARIFICATION"} \subseteq Goals
  BY DEF Goals, WorkflowState
<1>4. {"hold", "pause"} \subseteq Plain
  BY DEF Plain
<1> QED BY <1>1, <1>2, <1>3, <1>4 DEF Decisions, Understandings

-----------------------------------------------------------------------------
(***************************************************************************)
(* Types.                                                                  *)
(***************************************************************************)

\* A call under way.
Ongoing ==
  [ step : {"ready", "selected", "written"}, copy : Row, todo : Seq(Write),
    run : BOOLEAN, entry : Seq(Transition) ]

\* A move that was selected has passed the checks of transition_workflow on
\* the copy.
Passed(k) ==
  k.step = "selected" /\ Head(k.todo).do # "force" =>
    /\ ~ IsTerminal(k.copy.state) /\ ~ k.copy.paused
    /\ ValidTransition(k.copy.state, Target(Head(k.todo)))

\* It has something left to do; only a versioned write is selected, a step
\* that decides writes nothing, and only a write leaves an entry to record.
WellFormed(k) ==
  /\ k \in Ongoing
  /\ k.todo # << >>
  /\ k.step = "selected" => Versioned(Head(k.todo))
  /\ Passed(k)
  /\ k.step = "written" => Head(k.todo).do \notin Deciding
  /\ k.step # "written" => k.entry = << >>
  /\ Len(k.entry) <= 1

Typed ==
  /\ row \in Row
  /\ ledger \in Seq(Transition)
  /\ session \in [Callers -> Ongoing \cup {Closed}]
  /\ \A c \in Callers : Active(c) => WellFormed(session[c])

\* The call of c becomes k, and the other caller's does not change.
Becomes(c, k) == session' = [session EXCEPT ![c] = k]

\* A call with some of its fields written.
Continued(k, step, todo, copy, entry) ==
  [k EXCEPT !.step = step, !.todo = todo, !.copy = copy, !.entry = entry]
Committed(k, step, copy, entry) ==
  [k EXCEPT !.step = step, !.copy = copy, !.entry = entry]

\* A call under way is the record of its fields, and what becomes of it when
\* some are written is one too.
LEMMA OngoingFields ==
  ASSUME NEW k \in Ongoing, NEW step, NEW copy, NEW todo, NEW entry
  PROVE  /\ Continued(k, step, todo, copy, entry)
              = [ step |-> step, copy |-> copy, todo |-> todo, run |-> k.run,
                  entry |-> entry ]
         /\ Committed(k, step, copy, entry)
              = [ step |-> step, copy |-> copy, todo |-> k.todo, run |-> k.run,
                  entry |-> entry ]
<1>1. k = [ step |-> k.step, copy |-> k.copy, todo |-> k.todo, run |-> k.run,
            entry |-> k.entry ]
  BY DEF Ongoing
<1> DEFINE a == k.step
           b == k.copy
           d == k.todo
           e == k.run
           f == k.entry
<1>2. k = [ step |-> a, copy |-> b, todo |-> d, run |-> e, entry |-> f ]
  BY <1>1
<1> DEFINE k1 == [k EXCEPT !.step = step]
           k2 == [k1 EXCEPT !.copy = copy]
           t2 == [k1 EXCEPT !.todo = todo]
           k3 == [t2 EXCEPT !.copy = copy]
<1> HIDE DEF a, b, d, e, f
<1>3. k.todo = d /\ k.run = e
  BY <1>2
<1>4. k1 = [ step |-> step, copy |-> b, todo |-> d, run |-> e, entry |-> f ]
  BY <1>2
<1> HIDE DEF k1
<1>5. k2 = [ step |-> step, copy |-> copy, todo |-> d, run |-> e, entry |-> f ]
  BY <1>4
<1> HIDE DEF k2
<1>11. t2 = [ step |-> step, copy |-> b, todo |-> todo, run |-> e, entry |-> f ]
  BY <1>4
<1> HIDE DEF t2
<1>6. k3 = [ step |-> step, copy |-> copy, todo |-> todo, run |-> e, entry |-> f ]
  BY <1>11
<1> HIDE DEF k3
<1>7. [k2 EXCEPT !.entry = entry]
        = [ step |-> step, copy |-> copy, todo |-> d, run |-> e, entry |-> entry ]
  BY <1>5
<1>8. [k3 EXCEPT !.entry = entry]
        = [ step |-> step, copy |-> copy, todo |-> todo, run |-> e, entry |-> entry ]
  BY <1>6
<1>9. Committed(k, step, copy, entry) = [k2 EXCEPT !.entry = entry]
  BY DEF k1, k2, Committed
<1>10. Continued(k, step, todo, copy, entry) = [k3 EXCEPT !.entry = entry]
  BY DEF k1, t2, k3, Continued
<1> QED BY <1>3, <1>7, <1>8, <1>9, <1>10

\* No call under way is a closed one.
LEMMA OngoingIsOpen == ASSUME NEW k \in Ongoing PROVE k # Closed
<1>1. k.step \in {"ready", "selected", "written"}
  BY DEF Ongoing
<1>2. Closed.step = "closed"
  BY DEF Closed
<1> QED BY <1>1, <1>2

\* What a well-formed call starts and goes on with.
LEMMA TodoWrites ==
  ASSUME NEW k, WellFormed(k)
  PROVE  /\ Head(k.todo) \in Write /\ Tail(k.todo) \in Seq(Write)
         /\ k.copy \in Row /\ k.run \in BOOLEAN /\ k.todo \in Seq(Write)
         /\ k.entry \in Seq(Transition)
         /\ k.step \in {"ready", "selected", "written"}
<1>1. /\ k.todo \in Seq(Write) /\ k.todo # << >> /\ k.copy \in Row /\ k.run \in BOOLEAN
      /\ k.entry \in Seq(Transition) /\ k.step \in {"ready", "selected", "written"}
  BY DEF WellFormed, Ongoing
<1> QED BY <1>1, HeadTailProperties

\* A call that has just got to a list of writes.
Ready(todo, copy, run) ==
  [ step |-> "ready", copy |-> copy, todo |-> todo, run |-> run, entry |-> << >> ]

\* It is well-formed when the list is not empty.
LEMMA ReadyWellFormed ==
  ASSUME NEW todo \in Seq(Write), todo # << >>, NEW copy \in Row, NEW run \in BOOLEAN
  PROVE  WellFormed(Ready(todo, copy, run))
<1>1. << >> \in Seq(Transition) /\ Len(<< >>) = 0
  OBVIOUS
<1>2. Ready(todo, copy, run) \in Ongoing
  BY <1>1 DEF Ready, Ongoing
<1> QED BY <1>1, <1>2 DEF WellFormed, Passed, Ready

\* A call that goes on is ready for what is left, or closed.
LEMMA ContinueBecomes ==
  ASSUME Typed, NEW c \in Callers, Active(c), NEW todo, NEW copy, Continue(c, todo, copy)
  PROVE  Becomes(c, IF todo = << >> THEN Closed ELSE Ready(todo, copy, session[c].run))
<1>1. session[c] \in Ongoing
  BY DEF Typed, WellFormed
<1>2. Continued(session[c], "ready", todo, copy, << >>) = Ready(todo, copy, session[c].run)
  BY <1>1, OngoingFields DEF Ready
<1> QED BY <1>2 DEF Continued, Continue, Becomes, Typed

\* A call that becomes a well-formed one, or closes, keeps the types.
LEMMA BecomesTyped ==
  ASSUME Typed, NEW c \in Callers, NEW k, Becomes(c, k), k = Closed \/ WellFormed(k),
         row' \in Row, ledger' \in Seq(Transition)
  PROVE  Typed'
<1>1. /\ session' \in [Callers -> Ongoing \cup {Closed}]
      /\ session'[c] = k
      /\ \A d \in Callers : d # c => session'[d] = session[d]
  BY DEF Typed, Becomes, WellFormed
<1>2. ASSUME NEW d \in Callers, Active(d)' PROVE WellFormed(session'[d])
  <2>1. CASE d = c
    BY <2>1, <1>1, <1>2 DEF Active
  <2>2. CASE d # c
    BY <2>2, <1>1, <1>2 DEF Active, Typed
  <2> QED BY <2>1, <2>2
<1>3. \A d \in Callers : Active(d)' => WellFormed(session[d])'
  BY <1>2 DEF WellFormed, Versioned, Passed, IsTerminal, ValidTransition, Target
<1> QED BY <1>1, <1>3 DEF Typed

-----------------------------------------------------------------------------
(***************************************************************************)
(* What each step makes of its caller's call.                              *)
(***************************************************************************)

\* A call is opened on the row as it is.
LEMMA OpenBecomes ==
  ASSUME Typed, NEW c \in Callers, NEW todo, NEW run, Open(c, todo, run)
  PROVE  ~ Active(c) /\ Becomes(c, Ready(todo, row, run)) /\ UNCHANGED <<row, ledger>>
BY DEF Open, Becomes, Ready

\* Select only notes that the row was found.
LEMMA SelectBecomes ==
  ASSUME Typed, NEW c \in Callers, Select(c)
  PROVE  LET k == session[c]
             n == [ step |-> "selected", copy |-> k.copy, todo |-> k.todo, run |-> k.run,
                    entry |-> << >> ]
         IN  /\ WellFormed(k) /\ k.step = "ready" /\ Versioned(Head(k.todo))
             /\ Permits(Head(k.todo), k.copy) /\ row.version = k.copy.version
             /\ Becomes(c, n) /\ WellFormed(n) /\ UNCHANGED <<row, ledger>>
<1> DEFINE k == session[c]
           n == [ step |-> "selected", copy |-> k.copy, todo |-> k.todo, run |-> k.run,
                  entry |-> << >> ]
<1>1. /\ WellFormed(k) /\ k.step = "ready" /\ Versioned(Head(k.todo))
      /\ Permits(Head(k.todo), k.copy) /\ row.version = k.copy.version
      /\ UNCHANGED <<row, ledger>>
      /\ session' = [session EXCEPT ![c].step = "selected"]
  BY DEF Select, At, Typed, NextWrite, Copy
<1>2. k \in Ongoing /\ k.entry = << >>
  BY <1>1 DEF WellFormed
<1>3. [k EXCEPT !.step = "selected"] = n /\ n \in Ongoing
  BY <1>2 DEF Ongoing
<1>4. Becomes(c, n)
  <2>1. session' = [session EXCEPT ![c] = [k EXCEPT !.step = "selected"]]
    BY <1>1 DEF Typed
  <2> QED BY <2>1, <1>3 DEF Becomes
<1>5. WellFormed(n)
  <2>1. Passed(n)
    <3>1. CASE Head(k.todo).do \in {"move", "fail"}
      <4>1. Service!CanMove(k.copy, Target(Head(k.todo)))
        BY <1>1, <3>1 DEF Permits
      <4> QED BY <4>1, ServiceChecks DEF Passed
    <3>2. CASE Head(k.todo).do = "force"
      BY <3>2 DEF Passed
    <3> QED BY <1>1, <3>1, <3>2 DEF Versioned
  <2> QED BY <1>1, <1>2, <1>3, <2>1 DEF WellFormed
<1> QED BY <1>1, <1>4, <1>5

\* Commit writes the row; the entry is still to be recorded.
LEMMA CommitBecomes ==
  ASSUME Typed, NEW c \in Callers, Commit(c)
  PROVE  LET k == session[c]
             w == Head(k.todo)
             new == Written(w, k.copy)
             n == [ step |-> "written", copy |-> new, todo |-> k.todo, run |-> k.run,
                    entry |-> Entry(w, k.copy) ]
         IN  /\ WellFormed(k) /\ k.step # "written"
             /\ w \in Write /\ w.do \notin Deciding
             /\ k.step = "selected" \/ (~ Versioned(w) /\ Permits(w, k.copy))
             /\ Update(w, k.copy, new)
             /\ Becomes(c, n) /\ WellFormed(n)
             /\ UNCHANGED ledger /\ row' \in Row
<1> DEFINE k == session[c]
           w == Head(k.todo)
           new == Written(w, k.copy)
           e == Entry(w, k.copy)
           n == [ step |-> "written", copy |-> new, todo |-> k.todo, run |-> k.run,
                  entry |-> e ]
<1>1. /\ WellFormed(k)
      /\ \/ k.step = "selected"
         \/ k.step = "ready" /\ ~ Versioned(w) /\ w.do \notin Deciding /\ Permits(w, k.copy)
      /\ Update(w, k.copy, new)
      /\ session' = [session EXCEPT ![c].step = "written", ![c].copy = new, ![c].entry = e]
      /\ UNCHANGED ledger
  BY DEF Commit, At, Typed, NextWrite, Copy
<1>2. k \in Ongoing /\ k.copy \in Row /\ w \in Write /\ w.do \notin Deciding
  BY <1>1, TodoWrites DEF WellFormed, Versioned, Deciding
<1>3. new \in Row /\ e \in Seq(Transition) /\ Len(e) <= 1
  BY <1>2, WrittenRow, EntryList
<1> HIDE DEF new, e
<1>4. Committed(k, "written", new, e) = n /\ n \in Ongoing
  <2>1. Committed(k, "written", new, e) = n
    BY <1>2, OngoingFields
  <2>2. n \in Ongoing
    BY <1>2, <1>3 DEF Ongoing
  <2> QED BY <2>1, <2>2
<1>5. Becomes(c, n)
  <2>1. session' =
          [session EXCEPT ![c] = [k EXCEPT !.step = "written", !.copy = new, !.entry = e]]
    BY <1>1 DEF Typed
  <2> QED BY <2>1, <1>4 DEF Becomes, Committed
<1>6. WellFormed(n)
  BY <1>1, <1>2, <1>3, <1>4 DEF WellFormed, Passed
<1>7. row' \in Row
  BY <1>1, <1>2, <1>3, UpdatedRow DEF Typed
<1> QED BY <1>1, <1>2, <1>5, <1>6, <1>7 DEF new, e

\* The call of c goes on to a list of writes, or closes when it is empty.
Goes(c, todo, copy, run) ==
  /\ todo \in Seq(Write) /\ copy \in Row /\ run \in BOOLEAN
  /\ Becomes(c, IF todo = << >> THEN Closed ELSE Ready(todo, copy, run))

\* A call that goes on keeps the types.
LEMMA GoesTyped ==
  ASSUME Typed, NEW c \in Callers, NEW todo, NEW copy, NEW run,
         Goes(c, todo, copy, run), row' \in Row, ledger' \in Seq(Transition)
  PROVE  Typed'
<1>1. CASE todo = << >>
  <2>1. Becomes(c, Closed)
    BY <1>1 DEF Goes
  <2> QED BY <2>1, BecomesTyped
<1>2. CASE todo # << >>
  <2>1. Becomes(c, Ready(todo, copy, run)) /\ WellFormed(Ready(todo, copy, run))
    BY <1>2, ReadyWellFormed DEF Goes
  <2> QED BY <2>1, BecomesTyped
<1> QED BY <1>1, <1>2

\* The lists that a call may go on to are lists of writes.
LEMMA ListsOfWrites ==
  /\ << >> \in Seq(Write) /\ <<Do("fail")>> \in Seq(Write) /\ <<Do("force")>> \in Seq(Write)
  /\ <<Do("pause")>> \in Seq(Write) /\ <<Do("resume")>> \in Seq(Write)
  /\ <<Do("cancel")>> \in Seq(Write)
  /\ \A r \in Row : RunOf(r) \in Seq(Write) /\ RunOf(r) # << >>
<1>1. << >> \in Seq(Write) /\ \A x \in Plain : <<Do(x)>> \in Seq(Write)
  BY DEF Write
<1>2. {"fail", "force", "pause", "resume", "cancel"} \subseteq Plain
  BY DEF Plain
<1>3. RunScript # << >> /\ RunFromContext # << >>
  BY RunWrites, ContextWrites
<1> QED BY <1>1, <1>2, <1>3, RunWrites, ContextWrites DEF RunOf

\* A refused write: the run is marked failed, the failure is forced, or the
\* call ends.
LEMMA RefuseGoes ==
  ASSUME Typed, NEW c \in Callers, Refuse(c)
  PROVE  LET k == session[c]
             w == Head(k.todo)
         IN  /\ WellFormed(k) /\ k.step = "ready" /\ w \in Write
             /\ w.do \notin Deciding /\ Refuses(c)
             /\ UNCHANGED <<row, ledger>>
             /\ \/ w.do = "move" /\ k.run /\ Goes(c, MarkFailed(c), k.copy, k.run)
                \/ w.do = "fail" /\ Goes(c, <<Do("force")>>, k.copy, k.run)
                \/ ~ (w.do = "move" /\ k.run) /\ w.do # "fail" /\ Goes(c, << >>, k.copy, k.run)
<1> DEFINE k == session[c]
<1>1. Active(c) /\ WellFormed(k) /\ k.step = "ready"
  BY DEF Refuse, At, Typed
<1>2. k.copy \in Row /\ k.run \in BOOLEAN /\ Head(k.todo) \in Write
  BY <1>1, TodoWrites
<1>3. MarkFailed(c) \in Seq(Write)
  BY ListsOfWrites DEF MarkFailed
<1>4. \A todo \in Seq(Write) : Continue(c, todo, Copy(c)) => Goes(c, todo, k.copy, k.run)
  BY <1>1, <1>2, ContinueBecomes DEF Goes, Copy
<1> QED BY <1>1, <1>2, <1>3, <1>4, ListsOfWrites DEF Refuse, NextWrite

\* Refresh records the entry and reads the row again.
LEMMA RefreshGoes ==
  ASSUME Typed, NEW c \in Callers, Refresh(c)
  PROVE  LET k == session[c]
         IN  /\ WellFormed(k) /\ k.step = "written"
             /\ row' = row /\ ledger' = ledger \o k.entry
             /\ Goes(c, Tail(k.todo), row, k.run)
<1> DEFINE k == session[c]
<1>1. Active(c) /\ WellFormed(k) /\ k.step = "written"
  BY DEF Refresh, At, Typed
<1>2. k.run \in BOOLEAN /\ Tail(k.todo) \in Seq(Write)
  BY <1>1, TodoWrites
<1>3. Continue(c, Tail(k.todo), row) => Goes(c, Tail(k.todo), row, k.run)
  BY <1>1, <1>2, ContinueBecomes DEF Goes, Typed
<1> QED BY <1>1, <1>3 DEF Refresh, Rest

\* A task run begins the run, or ends.
LEMMA BeginGoes ==
  ASSUME Typed, NEW c \in Callers, Begin(c)
  PROVE  LET k == session[c]
         IN  /\ WellFormed(k) /\ k.step = "ready" /\ Head(k.todo).do = "run"
             /\ UNCHANGED <<row, ledger>>
             /\ \/ CanRun(k.copy) /\ Goes(c, RunOf(k.copy), k.copy, TRUE)
                \/ Goes(c, << >>, k.copy, k.run)
<1> DEFINE k == session[c]
           list == RunOf(k.copy)
<1>1. Active(c) /\ WellFormed(k) /\ k.step = "ready" /\ Head(k.todo).do = "run"
  BY DEF Begin, At, Typed, NextWrite
<1>2. k.copy \in Row /\ k.run \in BOOLEAN /\ k \in Ongoing /\ k.entry = << >>
  BY <1>1, TodoWrites DEF WellFormed
<1>3. Continue(c, << >>, Copy(c)) => Goes(c, << >>, k.copy, k.run)
  BY <1>1, <1>2, ListsOfWrites, ContinueBecomes DEF Goes, Copy
<1>4. list \in Seq(Write) /\ list # << >>
  BY <1>2, ListsOfWrites
<1> HIDE DEF list
<1>5. ASSUME session' = [session EXCEPT ![c].todo = list, ![c].run = TRUE]
      PROVE  Goes(c, list, k.copy, TRUE)
  <2> DEFINE first == [k EXCEPT !.todo = list]
             both == [first EXCEPT !.run = TRUE]
  <2>1. k = [ step |-> k.step, copy |-> k.copy, todo |-> k.todo, run |-> k.run,
              entry |-> k.entry ]
    BY <1>2 DEF Ongoing
  <2>2. session' = [session EXCEPT ![c] = both]
    BY <1>5 DEF Typed
  <2>3. first = [ step |-> "ready", copy |-> k.copy, todo |-> list, run |-> k.run,
                  entry |-> << >> ]
    <3> DEFINE a == k.step
               b == k.copy
               d == k.todo
               e == k.run
               f == k.entry
    <3>1. k = [ step |-> a, copy |-> b, todo |-> d, run |-> e, entry |-> f ]
      BY <2>1
    <3>2. a = "ready" /\ f = << >>
      BY <1>1, <1>2
    <3> HIDE DEF a, b, d, e, f
    <3>3. first = [ step |-> a, copy |-> b, todo |-> list, run |-> e, entry |-> f ]
      BY <3>1
    <3> QED BY <3>2, <3>3 DEF b, e
  <2> HIDE DEF first
  <2>4. both = Ready(list, k.copy, TRUE)
    <3> DEFINE b == k.copy
               e == k.run
               t == TRUE
    <3> HIDE DEF b, e, t
    <3>1. first = [ step |-> "ready", copy |-> b, todo |-> list, run |-> e, entry |-> << >> ]
      BY <2>3 DEF b, e
    <3>2. [first EXCEPT !.run = t] =
            [ step |-> "ready", copy |-> b, todo |-> list, run |-> t, entry |-> << >> ]
      BY <3>1
    <3> QED BY <3>2 DEF b, t, Ready
  <2> HIDE DEF both
  <2> QED BY <1>2, <1>4, <2>2, <2>4 DEF Goes, Becomes
<1> QED BY <1>1, <1>3, <1>5 DEF Begin, Copy, list

\* The supervisor's answer and the compliance decision replace the list.
LEMMA DecidingGoes ==
  ASSUME Typed, NEW c \in Callers, Understand(c) \/ ApplyDecision(c)
  PROVE  LET k == session[c]
         IN  /\ WellFormed(k) /\ k.step = "ready"
             /\ UNCHANGED <<row, ledger>>
             /\ \/ /\ Head(k.todo).do = "understand"
                   /\ \E todo \in Understandings(Tail(k.todo)) :
                        Goes(c, todo, k.copy, k.run)
                \/ /\ Head(k.todo).do = "decide"
                   /\ \E todo \in Decisions : Goes(c, todo, k.copy, k.run)
<1> DEFINE k == session[c]
<1>1. Active(c) /\ WellFormed(k) /\ k.step = "ready" /\ UNCHANGED <<row, ledger>>
  BY DEF Understand, ApplyDecision, At, Typed
<1>2. k.copy \in Row /\ k.run \in BOOLEAN /\ Tail(k.todo) \in Seq(Write)
  BY <1>1, TodoWrites
<1>3. \A todo \in Seq(Write) : Continue(c, todo, Copy(c)) => Goes(c, todo, k.copy, k.run)
  BY <1>1, <1>2, ContinueBecomes DEF Goes, Copy
<1>4. CASE Understand(c)
  <2>1. PICK todo \in Understandings(Tail(k.todo)) : Continue(c, todo, Copy(c))
    BY <1>4 DEF Understand, Rest
  <2>2. todo \in Seq(Write)
    BY <1>2, DecisionWrites
  <2>3. Head(k.todo).do = "understand"
    BY <1>4 DEF Understand, NextWrite
  <2> QED BY <1>1, <1>3, <2>1, <2>2, <2>3
<1>5. CASE ApplyDecision(c)
  <2>1. PICK todo \in Decisions : Continue(c, todo, Copy(c))
    BY <1>5 DEF ApplyDecision
  <2>2. todo \in Seq(Write)
    BY DecisionWrites
  <2>3. Head(k.todo).do = "decide"
    BY <1>5 DEF ApplyDecision, NextWrite
  <2> QED BY <1>1, <1>3, <2>1, <2>2, <2>3
<1> QED BY <1>4, <1>5

\* Something raised: the run is marked failed.
LEMMA RaiseGoes ==
  ASSUME Typed, NEW c \in Callers, Raise(c)
  PROVE  LET k == session[c]
         IN  /\ WellFormed(k) /\ k.step = "ready" /\ k.run
             /\ MayRaiseBefore(Head(k.todo))
             /\ UNCHANGED <<row, ledger>>
             /\ Goes(c, MarkFailed(c), k.copy, k.run)
<1> DEFINE k == session[c]
<1>1. /\ Active(c) /\ WellFormed(k) /\ k.step = "ready" /\ k.run
      /\ MayRaiseBefore(Head(k.todo))
  BY DEF Raise, Running, At, Typed, NextWrite
<1>2. k.copy \in Row /\ k.run \in BOOLEAN
  BY <1>1, TodoWrites
<1>3. MarkFailed(c) \in Seq(Write)
  BY ListsOfWrites DEF MarkFailed
<1>4. Continue(c, MarkFailed(c), Copy(c)) => Goes(c, MarkFailed(c), k.copy, k.run)
  BY <1>1, <1>2, <1>3, ContinueBecomes DEF Goes, Copy
<1> QED BY <1>1, <1>4 DEF Raise

\* The writes of a retry, and the run that follows it in a task run.
RetryList(c) ==
  <<Do("retry"), Move("RECEIVED")>> \o (IF c = Scheduler THEN <<Do("run")>> ELSE << >>)

LEMMA RetryWrites ==
  ASSUME NEW c \in Callers
  PROVE  /\ RetryList(c) \in Seq(Write) /\ RetryList(c) # << >>
         /\ Len(RetryList(c)) = IF c = Scheduler THEN 3 ELSE 2
         /\ RetryList(c)[1] = Do("retry") /\ RetryList(c)[2] = Move("RECEIVED")
         /\ c = Scheduler => RetryList(c)[3] = Do("run")
<1> DEFINE first == <<Do("retry"), Move("RECEIVED")>>
           second == IF c = Scheduler THEN <<Do("run")>> ELSE << >>
           list == first \o second
<1>1. Do("retry") \in Write /\ Move("RECEIVED") \in Write /\ Do("run") \in Write
  BY DEF Write, Plain, Goals, WorkflowState
<1>2. /\ first \in Seq(Write) /\ Len(first) = 2
      /\ first[1] = Do("retry") /\ first[2] = Move("RECEIVED")
  BY <1>1
<1>3. /\ second \in Seq(Write) /\ Len(second) = IF c = Scheduler THEN 1 ELSE 0
      /\ c = Scheduler => second[1] = Do("run")
  BY <1>1
<1> HIDE DEF first, second
<1>4. /\ list \in Seq(Write) /\ Len(list) = Len(first) + Len(second)
      /\ \A i \in 1 .. Len(first) : list[i] = first[i]
      /\ \A i \in 1 .. Len(second) : list[Len(first) + i] = second[i]
  BY <1>2, <1>3, Concatenated
<1>5. RetryList(c) = list
  BY DEF RetryList, first, second
<1> HIDE DEF list
<1>6. /\ list[1] = Do("retry") /\ list[2] = Move("RECEIVED") /\ list # << >>
      /\ Len(list) = IF c = Scheduler THEN 3 ELSE 2
  BY <1>2, <1>3, <1>4
<1>7. c = Scheduler => list[3] = Do("run")
  BY <1>2, <1>3, <1>4
<1> QED BY <1>4, <1>5, <1>6, <1>7

\* The list that a call is opened with.
LEMMA OpenCallGoes ==
  ASSUME Typed, OpenCall
  PROVE  \E c \in Callers :
           /\ ~ Active(c) /\ UNCHANGED <<row, ledger>>
           /\ \/ c \in Runners /\ CanRun(row) /\ Goes(c, RunOf(row), row, TRUE)
              \/ /\ c \in Retriers /\ row.state = "FAILED" /\ row.retries < MaxRetries
                 /\ Goes(c, RetryList(c), row, FALSE)
              \/ /\ c = Api /\ ~ IsTerminal(row.state) /\ ~ row.paused
                 /\ Goes(c, <<Do("pause")>>, row, FALSE)
              \/ c = Api /\ row.paused /\ Goes(c, <<Do("resume")>>, row, FALSE)
              \/ /\ c = Api /\ ~ IsTerminal(row.state) /\ ValidTransition(row.state, "CANCELLED")
                 /\ Goes(c, <<Do("cancel")>>, row, FALSE)
<1>1. Api \in Callers /\ row \in Row
  BY DEF Callers, Typed
<1>2. ASSUME NEW c \in Callers, NEW todo \in Seq(Write), todo # << >>, NEW run \in BOOLEAN,
             Open(c, todo, run)
      PROVE  ~ Active(c) /\ UNCHANGED <<row, ledger>> /\ Goes(c, todo, row, run)
  BY <1>1, <1>2, OpenBecomes DEF Goes
<1>3. ASSUME OpenPause(Api)
      PROVE  /\ ~ Active(Api) /\ UNCHANGED <<row, ledger>>
             /\ Goes(Api, <<Do("pause")>>, row, FALSE)
  BY <1>1, <1>2, <1>3, ListsOfWrites DEF OpenPause
<1>4. ASSUME OpenResume(Api)
      PROVE  /\ ~ Active(Api) /\ UNCHANGED <<row, ledger>>
             /\ Goes(Api, <<Do("resume")>>, row, FALSE)
  BY <1>1, <1>2, <1>4, ListsOfWrites DEF OpenResume
<1>5. ASSUME OpenCancel(Api)
      PROVE  /\ ~ Active(Api) /\ UNCHANGED <<row, ledger>>
             /\ Goes(Api, <<Do("cancel")>>, row, FALSE)
  BY <1>1, <1>2, <1>5, ListsOfWrites DEF OpenCancel
<1>6. ASSUME NEW c \in Callers, OpenRun(c)
      PROVE  Goes(c, RunOf(row), row, TRUE) /\ ~ Active(c) /\ UNCHANGED <<row, ledger>>
  BY <1>1, <1>2, <1>6, ListsOfWrites DEF OpenRun
<1>7. ASSUME NEW c \in Callers, OpenRetry(c)
      PROVE  Goes(c, RetryList(c), row, FALSE) /\ ~ Active(c) /\ UNCHANGED <<row, ledger>>
  <2>1. Open(c, RetryList(c), FALSE)
    BY <1>7 DEF OpenRetry, RetryList
  <2> QED BY <1>1, <1>2, <2>1, RetryWrites
<1>8. CASE OpenPause(Api)
  BY <1>1, <1>3, <1>8 DEF OpenPause
<1>9. CASE OpenResume(Api)
  BY <1>1, <1>4, <1>9 DEF OpenResume
<1>10. CASE OpenCancel(Api)
  BY <1>1, <1>5, <1>10 DEF OpenCancel
<1>11. ASSUME NEW c \in Callers, OpenRun(c)
       PROVE  /\ c \in Runners /\ CanRun(row) /\ Goes(c, RunOf(row), row, TRUE)
              /\ ~ Active(c) /\ UNCHANGED <<row, ledger>>
  BY <1>6, <1>11 DEF OpenRun
<1>12. ASSUME NEW c \in Callers, OpenRetry(c)
       PROVE  c \in Retriers /\ row.state = "FAILED" /\ row.retries < MaxRetries
  BY <1>12 DEF OpenRetry
<1> QED BY <1>7, <1>8, <1>9, <1>10, <1>11, <1>12 DEF OpenCall

\* A step of any kind, abandoned calls included.
AnyStep == Next \/ \E c \in Callers : Abandon(c)

(* Before the first call the row is new. *)
LEMMA TypedInit == Init => Typed
<1> SUFFICES ASSUME Init PROVE Typed
  OBVIOUS
<1>1. row \in Row
  BY DEF Init, NewRow, Row, WorkflowState
<1>2. ledger \in Seq(Transition)
  BY DEF Init
<1>3. session = [c \in Callers |-> Closed]
  BY DEF Init
<1> QED BY <1>1, <1>2, <1>3 DEF Typed, Active

\* Every step keeps the types.
LEMMA TypedStep == Typed /\ [AnyStep]_vars => Typed'
<1> SUFFICES ASSUME Typed, [AnyStep]_vars PROVE Typed'
  OBVIOUS
<1>a. row \in Row /\ ledger \in Seq(Transition)
  BY DEF Typed
<1>1. CASE OpenCall
  BY <1>1, <1>a, OpenCallGoes, GoesTyped
<1>2. ASSUME NEW c \in Callers, Select(c) PROVE Typed'
  BY <1>2, <1>a, SelectBecomes, BecomesTyped
<1>3. ASSUME NEW c \in Callers, Refuse(c) PROVE Typed'
  BY <1>3, <1>a, RefuseGoes, GoesTyped
<1>4. ASSUME NEW c \in Callers, Commit(c) PROVE Typed'
  BY <1>4, <1>a, CommitBecomes, BecomesTyped
<1>5. ASSUME NEW c \in Callers, Refresh(c) PROVE Typed'
  <2>1. session[c].entry \in Seq(Transition)
    BY <1>5, RefreshGoes, TodoWrites
  <2>2. ledger' \in Seq(Transition)
    <3>1. ledger' = ledger \o session[c].entry
      BY <1>5, RefreshGoes
    <3> QED BY <1>a, <2>1, <3>1
  <2> QED BY <1>5, <1>a, <2>2, RefreshGoes, GoesTyped
<1>6. ASSUME NEW c \in Callers, Begin(c) PROVE Typed'
  BY <1>6, <1>a, BeginGoes, GoesTyped
<1>7. ASSUME NEW c \in Callers, Understand(c) \/ ApplyDecision(c) PROVE Typed'
  BY <1>7, <1>a, DecidingGoes, GoesTyped
<1>8. ASSUME NEW c \in Callers, Raise(c) PROVE Typed'
  BY <1>8, <1>a, RaiseGoes, GoesTyped
<1>9. ASSUME NEW c \in Callers, Abandon(c) PROVE Typed'
  <2>1. Becomes(c, Closed) /\ UNCHANGED <<row, ledger>>
    BY <1>9 DEF Abandon, Becomes
  <2> QED BY <1>a, <2>1, BecomesTyped
<1>10. CASE UNCHANGED vars
  BY <1>10 DEF vars, Typed, Active, WellFormed, Versioned, Passed, IsTerminal,
               ValidTransition, Target
<1> QED BY <1>1, <1>2, <1>3, <1>4, <1>5, <1>6, <1>7, <1>8, <1>9, <1>10
        DEF AnyStep, Next, Step

\* The types hold whatever the interleaving, and wherever a call is abandoned.
LEMMA TypedAlways == CrashSpec => []Typed
<1>1. Typed /\ [Next \/ \E c \in Callers : Abandon(c)]_vars => Typed'
  BY TypedStep DEF AnyStep
<1> QED BY <1>1, TypedInit, PTL DEF CrashSpec

\* Whatever two callers interleave and wherever a call is abandoned, the row
\* and every copy of it are rows of the table, and no call stays open with
\* nothing left to do.
THEOREM SessionTypes == CrashSpec => []SessionTypeOK
<1>1. Typed => SessionTypeOK
  BY DEF Typed, SessionTypeOK, WellFormed, Ongoing, Copy
<1> QED BY <1>1, TypedAlways, PTL

-----------------------------------------------------------------------------
(***************************************************************************)
(* Counting the entries of the ledger.                                     *)
(***************************************************************************)

\* The entries that enter a state, and how many there are.
Entering(s, list) == {i \in 1 .. Len(list) : list[i].to = s}
Times(s, list) == Cardinality(Entering(s, list))

\* The entries of a list are finitely many.
LEMMA EnteringFinite ==
  ASSUME NEW s, NEW list \in Seq(Transition)
  PROVE  IsFiniteSet(Entering(s, list)) /\ Times(s, list) \in Nat
<1>1. IsFiniteSet(1 .. Len(list))
  BY FS_Interval
<1>2. Entering(s, list) \subseteq 1 .. Len(list)
  BY DEF Entering
<1>3. IsFiniteSet(Entering(s, list))
  BY <1>1, <1>2, FS_Subset
<1> QED BY <1>3, FS_CardinalityType DEF Times

\* Nothing is counted in an empty list.
LEMMA TimesNone == ASSUME NEW s PROVE Times(s, << >>) = 0
<1>1. Entering(s, << >>) = {}
  BY DEF Entering
<1> QED BY <1>1, FS_EmptySet DEF Times

\* A list with at most one entry.
LEMMA TimesSmall ==
  ASSUME NEW s, NEW list \in Seq(Transition), Len(list) <= 1
  PROVE  Times(s, list) = IF list # << >> /\ list[1].to = s THEN 1 ELSE 0
<1>1. CASE Entering(s, list) = {}
  <2>1. Times(s, list) = 0
    BY <1>1, FS_EmptySet DEF Times
  <2>2. ~ (list # << >> /\ list[1].to = s)
    BY <1>1, EmptySeq DEF Entering
  <2> QED BY <2>1, <2>2
<1>2. CASE Entering(s, list) # {}
  <2>1. PICK i \in 1 .. Len(list) : list[i].to = s
    BY <1>2 DEF Entering
  <2>2. i = 1 /\ Len(list) = 1
    <3> DEFINE n == Len(list)
    <3>1. n \in Nat /\ n <= 1 /\ i \in 1 .. n
      BY LenProperties
    <3> HIDE DEF n
    <3>2. i = 1 /\ n = 1
      BY <3>1
    <3> QED BY <3>2 DEF n
  <2>3. Entering(s, list) = {1} /\ list # << >> /\ list[1].to = s
    BY <2>1, <2>2 DEF Entering
  <2>4. Times(s, list) = 1
    BY <2>3, FS_Singleton DEF Times
  <2> QED BY <2>3, <2>4
<1> QED BY <1>1, <1>2

\* Counting one list after the other.
LEMMA TimesConcat ==
  ASSUME NEW s, NEW a \in Seq(Transition), NEW b \in Seq(Transition)
  PROVE  Times(s, a \o b) = Times(s, a) + Times(s, b)
<1> DEFINE m == Len(a)
           A == Entering(s, a)
           B == Entering(s, b)
           C == {m + i : i \in B}
           shift == [i \in B |-> m + i]
<1>1. m \in Nat /\ A \subseteq 1 .. m /\ B \subseteq 1 .. Len(b) /\ Len(b) \in Nat
  BY DEF Entering
<1>2. /\ Len(a \o b) = m + Len(b)
      /\ \A i \in 1 .. m : (a \o b)[i] = a[i]
      /\ \A i \in 1 .. Len(b) : (a \o b)[m + i] = b[i]
  OBVIOUS
<1>3. Entering(s, a \o b) = A \cup C
  <2>1. ASSUME NEW i \in Entering(s, a \o b) PROVE i \in A \cup C
    <3>1. i \in 1 .. m + Len(b) /\ (a \o b)[i].to = s
      BY <1>2 DEF Entering
    <3>2. CASE i <= m
      BY <1>1, <1>2, <3>1, <3>2 DEF Entering
    <3>3. CASE i > m
      <4>1. i - m \in 1 .. Len(b) /\ m + (i - m) = i
        BY <1>1, <3>1, <3>3
      <4>2. b[i - m].to = s
        BY <1>2, <3>1, <4>1
      <4> QED BY <4>1, <4>2 DEF Entering
    <3> QED BY <1>1, <3>1, <3>2, <3>3
  <2>2. ASSUME NEW i \in A PROVE i \in Entering(s, a \o b)
    BY <1>1, <1>2 DEF Entering
  <2>3. ASSUME NEW j \in B PROVE m + j \in Entering(s, a \o b)
    BY <1>1, <1>2 DEF Entering
  <2> QED BY <2>1, <2>2, <2>3
<1>4. A \cap C = {}
  BY <1>1
<1>5. IsFiniteSet(A) /\ IsFiniteSet(B) /\ Cardinality(B) \in Nat /\ Cardinality(A) \in Nat
  BY EnteringFinite DEF Times
<1>6. shift \in Bijection(B, C)
  <2>1. shift \in [B -> C]
    OBVIOUS
  <2>2. \A i, j \in B : shift[i] = shift[j] => i = j
    BY <1>1
  <2>3. \A z \in C : \E i \in B : shift[i] = z
    OBVIOUS
  <2> HIDE DEF B, C, shift
  <2> QED BY <2>1, <2>2, <2>3 DEF Bijection, Injection, Surjection, IsInjective
<1>7. IsFiniteSet(C) /\ Cardinality(C) = Cardinality(B)
  BY <1>5, <1>6, FS_Bijection DEF ExistsBijection
<1>8. Cardinality(A \cup C) = Cardinality(A) + Cardinality(C)
  <2> HIDE DEF A, C
  <2>1. Cardinality(A \cap C) = 0
    BY <1>4, FS_EmptySet
  <2>2. Cardinality(A \cup C) = Cardinality(A) + Cardinality(C) - Cardinality(A \cap C)
    BY <1>5, <1>7, FS_Union
  <2>3. Cardinality(C) \in Nat
    BY <1>5, <1>7
  <2> QED BY <1>5, <2>1, <2>2, <2>3
<1> QED BY <1>3, <1>7, <1>8 DEF Times

\* What the ledger and the pending entries count together.
TimesTold(s) == Times(s, ledger) + Times(s, Pending(Api)) + Times(s, Pending(Scheduler))

\* The entries that are pending are a list.
LEMMA PendingList ==
  ASSUME Typed, NEW c \in Callers
  PROVE  Pending(c) \in Seq(Transition) /\ Len(Pending(c)) <= 1
<1>1. CASE Active(c)
  BY <1>1, TodoWrites DEF Pending, Typed, WellFormed
<1>2. CASE ~ Active(c)
  BY <1>2 DEF Pending
<1> QED BY <1>1, <1>2

\* The count is that of the ledger as it will be.
LEMMA ToldCount ==
  ASSUME Typed, NEW s
  PROVE  Times(s, Told) = TimesTold(s) /\ TimesTold(s) \in Nat
<1>1. /\ ledger \in Seq(Transition) /\ Pending(Api) \in Seq(Transition)
      /\ Pending(Scheduler) \in Seq(Transition)
  BY PendingList DEF Typed, Callers
<1> DEFINE both == ledger \o Pending(Api)
<1>2. both \in Seq(Transition) /\ Times(s, both) = Times(s, ledger) + Times(s, Pending(Api))
  BY <1>1, TimesConcat
<1> HIDE DEF both
<1>3. Times(s, both \o Pending(Scheduler)) = Times(s, both) + Times(s, Pending(Scheduler))
  BY <1>1, <1>2, TimesConcat
<1>4. Told = both \o Pending(Scheduler)
  BY DEF Told, both
<1> QED BY <1>1, <1>2, <1>3, <1>4, EnteringFinite DEF TimesTold

\* And they are a list after a step too.
LEMMA PendingListNext ==
  ASSUME Typed', NEW d \in Callers
  PROVE  Pending(d)' \in Seq(Transition)
<1>1. CASE Active(d)'
  <2>1. session'[d].entry \in Seq(Transition)
    BY <1>1 DEF Typed, WellFormed, Ongoing
  <2> QED BY <1>1, <2>1 DEF Pending
<1>2. CASE ~ Active(d)'
  BY <1>2 DEF Pending
<1> QED BY <1>1, <1>2

\* A count is a number after a step too.
LEMMA ToldCountNext == ASSUME Typed', NEW s PROVE TimesTold(s)' \in Nat
<1>1. \A d \in Callers : Pending(d)' \in Seq(Transition)
  BY PendingListNext
<1> DEFINE l == Times(s, ledger')
           a == Times(s, Pending(Api)')
           b == Times(s, Pending(Scheduler)')
<1>2. l \in Nat /\ a \in Nat /\ b \in Nat
  BY <1>1, EnteringFinite DEF Typed, Callers
<1>3. TimesTold(s)' = l + a + b
  BY DEF TimesTold, Times, Entering
<1> HIDE DEF l, a, b
<1> QED BY <1>2, <1>3

\* A step of one caller leaves the other's entry pending.
LEMMA PendingBecomes ==
  ASSUME Typed, NEW c \in Callers, NEW k, Becomes(c, k)
  PROVE  /\ Pending(c)' = IF k # Closed THEN k.entry ELSE << >>
         /\ session'[c] = k
         /\ \A d \in Callers \ {c} :
              Pending(d)' = Pending(d) /\ session'[d] = session[d] /\ (Active(d)' <=> Active(d))
         /\ Active(c)' <=> k # Closed
<1>1. session'[c] = k /\ \A d \in Callers : d # c => session'[d] = session[d]
  BY DEF Becomes, Typed
<1> QED BY <1>1 DEF Pending, Active

\* How one caller's step changes the count.
LEMMA CountChange ==
  ASSUME Typed, Typed', NEW c \in Callers, NEW s, NEW x \in Int,
         \A d \in Callers \ {c} : Pending(d)' = Pending(d),
         Times(s, ledger') + Times(s, Pending(c)') = Times(s, ledger) + Times(s, Pending(c)) + x
  PROVE  TimesTold(s)' = TimesTold(s) + x
<1>1. /\ ledger \in Seq(Transition) /\ Pending(Api) \in Seq(Transition)
      /\ Pending(Scheduler) \in Seq(Transition) /\ ledger' \in Seq(Transition)
      /\ Pending(Api)' \in Seq(Transition) /\ Pending(Scheduler)' \in Seq(Transition)
  <2>1. Api \in Callers /\ Scheduler \in Callers
    BY DEF Callers
  <2>2. Pending(Api) \in Seq(Transition) /\ Pending(Scheduler) \in Seq(Transition)
    BY <2>1, PendingList
  <2>3. ASSUME NEW d \in Callers PROVE Pending(d)' \in Seq(Transition)
    <3>1. CASE Active(d)'
      <4>1. session'[d].entry \in Seq(Transition)
        BY <3>1 DEF Typed, WellFormed, Ongoing
      <4> QED BY <3>1, <4>1 DEF Pending
    <3>2. CASE ~ Active(d)'
      BY <3>2 DEF Pending
    <3> QED BY <3>1, <3>2
  <2> QED BY <2>1, <2>2, <2>3 DEF Typed
<1> DEFINE l == Times(s, ledger)
           a == Times(s, Pending(Api))
           b == Times(s, Pending(Scheduler))
           m == Times(s, ledger')
           p == Times(s, Pending(Api)')
           q == Times(s, Pending(Scheduler)')
<1>2. l \in Nat /\ a \in Nat /\ b \in Nat /\ m \in Nat /\ p \in Nat /\ q \in Nat
  BY <1>1, EnteringFinite
<1>3. TimesTold(s) = l + a + b /\ TimesTold(s)' = m + p + q
  BY DEF TimesTold, Times, Entering
<1>4. CASE c = Api
  <2>1. Pending(Scheduler)' = Pending(Scheduler)
    BY <1>4, CallersAssumption DEF Callers
  <2>2. q = b
    BY <2>1
  <2>3. m + p = l + a + x
    BY <1>4
  <2> HIDE DEF l, a, b, m, p, q
  <2> QED BY <1>2, <1>3, <2>2, <2>3
<1>5. CASE c = Scheduler
  <2>1. Pending(Api)' = Pending(Api)
    BY <1>5, CallersAssumption DEF Callers
  <2>2. p = a
    BY <2>1
  <2>3. m + q = l + b + x
    BY <1>5
  <2> HIDE DEF l, a, b, m, p, q
  <2> QED BY <1>2, <1>3, <2>2, <2>3
<1> QED BY <1>4, <1>5 DEF Callers

\* A call that goes on without having written counts nothing.
LEMMA CountGoes ==
  ASSUME Typed, Typed', NEW c \in Callers, NEW todo, NEW copy, NEW run,
         Goes(c, todo, copy, run), ledger' = ledger, Pending(c) = << >>, NEW s
  PROVE  TimesTold(s)' = TimesTold(s)
<1> DEFINE k == IF todo = << >> THEN Closed ELSE Ready(todo, copy, run)
<1>1. Becomes(c, k)
  BY DEF Goes
<1>2. Pending(c)' = << >>
  BY <1>1, PendingBecomes DEF Ready
<1>3. /\ Times(s, ledger') + Times(s, Pending(c)') = Times(s, ledger) + Times(s, Pending(c)) + 0
      /\ \A d \in Callers \ {c} : Pending(d)' = Pending(d)
  <2>1. ledger \in Seq(Transition) /\ Pending(c) \in Seq(Transition)
    BY PendingList DEF Typed
  <2>2. Times(s, ledger) \in Nat /\ Times(s, Pending(c)) \in Nat
    BY <2>1, EnteringFinite
  <2>3. Times(s, Pending(c)') = Times(s, Pending(c)) /\ Times(s, ledger') = Times(s, ledger)
    BY <1>2
  <2> QED BY <1>1, <2>2, <2>3, PendingBecomes
<1>4. TimesTold(s)' = TimesTold(s) + 0
  BY <1>3, CountChange
<1> QED BY <1>4, ToldCount

\* A refresh moves the entry from the call to the ledger.
LEMMA CountRefresh ==
  ASSUME Typed, Typed', NEW c \in Callers, Refresh(c), NEW s
  PROVE  TimesTold(s)' = TimesTold(s)
<1> DEFINE k == session[c]
           n == IF Tail(k.todo) = << >> THEN Closed ELSE Ready(Tail(k.todo), row, k.run)
<1>1. Becomes(c, n) /\ ledger' = ledger \o k.entry /\ Active(c)
  BY RefreshGoes DEF Goes, Refresh, At
<1>2. Pending(c)' = << >>
  BY <1>1, PendingBecomes DEF Ready
<1>3. Pending(c) = k.entry /\ k.entry \in Seq(Transition) /\ ledger \in Seq(Transition)
  BY <1>1, PendingList DEF Pending, Typed
<1>4. Times(s, ledger') = Times(s, ledger) + Times(s, k.entry)
  BY <1>1, <1>3, TimesConcat
<1>5. Times(s, << >>) = 0
  BY TimesNone
<1>6. Times(s, ledger) \in Nat /\ Times(s, k.entry) \in Nat
  BY <1>3, EnteringFinite
<1>7. /\ Times(s, ledger') + Times(s, Pending(c)') = Times(s, ledger) + Times(s, Pending(c)) + 0
      /\ \A d \in Callers \ {c} : Pending(d)' = Pending(d)
  BY <1>1, <1>2, <1>3, <1>4, <1>5, <1>6, PendingBecomes
<1>8. TimesTold(s)' = TimesTold(s) + 0
  BY <1>7, CountChange
<1> QED BY <1>8, ToldCount

\* The state whose entry a write leaves.
Records(w, s) ==
  \/ w.do \in {"move", "fail"} /\ Target(w) = s
  \/ w.do = "cancel" /\ s = "CANCELLED"
  \/ w.do = "retry" /\ s = "RETRY_SCHEDULED"

\* A commit counts the entry of its write.
LEMMA CountCommit ==
  ASSUME Typed, Typed', NEW c \in Callers, Commit(c), NEW s
  PROVE  TimesTold(s)' = TimesTold(s) + (IF Records(Head(session[c].todo), s) THEN 1 ELSE 0)
<1> DEFINE k == session[c]
           w == Head(k.todo)
           e == Entry(w, k.copy)
           n == [ step |-> "written", copy |-> Written(w, k.copy), todo |-> k.todo,
                  run |-> k.run, entry |-> e ]
           x == IF Records(w, s) THEN 1 ELSE 0
<1>1. /\ WellFormed(k) /\ k.step # "written" /\ w \in Write /\ Becomes(c, n)
      /\ WellFormed(n) /\ ledger' = ledger
  BY CommitBecomes
<1>2. k.entry = << >> /\ n # Closed /\ k.copy \in Row
  BY <1>1, OngoingIsOpen, TodoWrites DEF WellFormed
<1>3. Pending(c) = << >> /\ Pending(c)' = e /\ \A d \in Callers \ {c} : Pending(d)' = Pending(d)
  BY <1>1, <1>2, PendingBecomes DEF Pending
<1>4. e \in Seq(Transition) /\ Len(e) <= 1
  BY <1>1, <1>2, EntryList
<1>5. Times(s, e) = x
  <2>1. Times(s, e) = IF e # << >> /\ e[1].to = s THEN 1 ELSE 0
    BY <1>4, TimesSmall
  <2>2. (e # << >> /\ e[1].to = s) <=> Records(w, s)
    <3>1. CASE w.do \in {"move", "fail"}
      BY <3>1 DEF Entry, Records, Service!Edge
    <3>2. CASE w.do = "cancel"
      BY <3>2 DEF Entry, Records, Service!Edge
    <3>3. CASE w.do = "retry"
      BY <3>3 DEF Entry, Records, Service!Edge
    <3>4. CASE w.do \notin {"move", "fail", "cancel", "retry"}
      BY <3>4 DEF Entry, Records
    <3> QED BY <3>1, <3>2, <3>3, <3>4
  <2> QED BY <2>1, <2>2
<1>6. Times(s, << >>) = 0
  BY TimesNone
<1>7. x \in Int /\ Times(s, ledger) \in Nat
  BY EnteringFinite DEF Typed
<1> HIDE DEF x, e
<1>8. Times(s, ledger') + Times(s, Pending(c)') = Times(s, ledger) + Times(s, Pending(c)) + x
  BY <1>1, <1>3, <1>5, <1>6, <1>7
<1>9. TimesTold(s)' = TimesTold(s) + x
  BY <1>3, <1>7, <1>8, CountChange
<1> QED BY <1>9 DEF x

\* An abandoned call loses its entry.
LEMMA CountAbandon ==
  ASSUME Typed, Typed', NEW c \in Callers, Abandon(c), NEW s
  PROVE  TimesTold(s)' <= TimesTold(s)
<1>1. Becomes(c, Closed) /\ ledger' = ledger
  BY DEF Abandon, Becomes
<1>2. Pending(c)' = << >> /\ \A d \in Callers \ {c} : Pending(d)' = Pending(d)
  BY <1>1, PendingBecomes
<1> DEFINE x == 0 - Times(s, Pending(c))
<1>3. Times(s, << >>) = 0
  BY TimesNone
<1>4. Times(s, Pending(c)) \in Nat /\ Times(s, ledger) \in Nat
  BY PendingList, EnteringFinite DEF Typed
<1>5. /\ Times(s, ledger') + Times(s, Pending(c)') = Times(s, ledger) + Times(s, Pending(c)) + x
      /\ x \in Int /\ x <= 0
  BY <1>1, <1>2, <1>3, <1>4
<1> HIDE DEF x
<1>6. TimesTold(s)' = TimesTold(s) + x
  BY <1>2, <1>5, CountChange
<1>7. TimesTold(s) \in Nat
  BY ToldCount
<1> QED BY <1>5, <1>6, <1>7

-----------------------------------------------------------------------------
(***************************************************************************)
(* The writes of a run.                                                    *)
(***************************************************************************)

\* A run never retries, resumes or cancels, and never moves to RECEIVED.
RunWrite ==
  {Do(x) : x \in {"intent", "understand", "decide", "pause", "hold", "fail", "force"}}
    \cup {Move(s) : s \in Goals \ {"RECEIVED"}}

\* What the writes of a run can be.
LEMMA RunWriteKinds ==
  ASSUME NEW w \in RunWrite
  PROVE  /\ \/ w.do = "move" /\ w = Move(w.to) /\ w.to \in Goals \ {"RECEIVED"}
            \/ /\ w.do \in {"intent", "understand", "decide", "pause", "hold", "fail", "force"}
               /\ w = Do(w.do)
         /\ w \in Write
<1>1. {"intent", "understand", "decide", "pause", "hold", "fail", "force"} \subseteq Plain
  BY DEF Plain
<1> QED BY <1>1 DEF RunWrite, Write, Do, Move

\* A list whose elements are in a set is a list over that set.
LEMMA ElementsOf ==
  ASSUME NEW S, NEW T, NEW list \in Seq(T), \A i \in 1 .. Len(list) : list[i] \in S
  PROVE  list \in Seq(S)
OBVIOUS

\* The lists of a run are lists of such writes.
LEMMA RunLists ==
  /\ RunScript \in Seq(RunWrite) /\ RunFromContext \in Seq(RunWrite)
  /\ \A r : RunOf(r) \in Seq(RunWrite)
  /\ Decisions \subseteq Seq(RunWrite)
  /\ \A rest \in Seq(RunWrite) : Understandings(rest) \subseteq Seq(RunWrite)
  /\ << >> \in Seq(RunWrite) /\ <<Do("fail")>> \in Seq(RunWrite)
  /\ <<Do("force")>> \in Seq(RunWrite) /\ <<Do("pause")>> \in Seq(RunWrite)
<1>1. /\ \A s \in Goals \ {"RECEIVED"} : Move(s) \in RunWrite
      /\ \A x \in {"intent", "understand", "decide", "pause", "hold", "fail", "force"} :
           Do(x) \in RunWrite
  BY DEF RunWrite
<1>2. /\ {"AUTHENTICATED", "AUTHORIZED", "CLASSIFYING", "CONTEXT_RETRIEVAL",
          "DATA_FRESHNESS_CHECK", "INVESTIGATING", "POLICY_RETRIEVAL", "ACTION_PROPOSED",
          "COMPLIANCE_REVIEW", "EXECUTING", "VERIFYING", "COMPLETED", "DENIED",
          "ESCALATED", "WAITING_FOR_APPROVAL", "NEEDS_CLARIFICATION"}
           \subseteq Goals \ {"RECEIVED"}
  BY DEF Goals, WorkflowState
<1>3. RunFromContext \in Seq(RunWrite)
  <2>1. \A i \in 1 .. 7 : RunFromContext[i] \in RunWrite
    <3>1. \A i \in 1 .. 7 : i = 1 \/ i = 2 \/ i = 3 \/ i = 4 \/ i = 5 \/ i = 6 \/ i = 7
      OBVIOUS
    <3> QED BY <1>1, <1>2, <3>1, ContextWrites
  <2> QED BY <2>1, ContextWrites
<1>4. RunScript \in Seq(RunWrite)
  <2>1. \A i \in 1 .. 5 : RunScript[i] \in RunWrite
    <3>1. \A i \in 1 .. 5 : i = 1 \/ i = 2 \/ i = 3 \/ i = 4 \/ i = 5
      OBVIOUS
    <3> QED BY <1>1, <1>2, <3>1, RunWrites
  <2>2. \A i \in 6 .. 12 : RunScript[i] \in RunWrite
    BY <1>3, RunWrites, ContextWrites
  <2>3. \A i \in 1 .. 12 : RunScript[i] \in RunWrite
    BY <2>1, <2>2
  <2>4. RunScript \in Seq(Write) /\ Len(RunScript) = 12
    BY RunWrites
  <2> QED BY <2>3, <2>4, ElementsOf
<1>5. Moves(<<"EXECUTING", "VERIFYING", "COMPLETED">>) \in Seq(RunWrite)
  <2> DEFINE states == <<"EXECUTING", "VERIFYING", "COMPLETED">>
  <2>1. states \in Seq(Goals \ {"RECEIVED"})
    BY <1>2
  <2> HIDE DEF states
  <2>2. Moves(states) \in Seq({Move(s) : s \in Goals \ {"RECEIVED"}})
    BY <2>1, MovesList
  <2>3. Moves(states) \in Seq(RunWrite)
    BY <2>2 DEF RunWrite
  <2> QED BY <2>3 DEF states
<1>6. Decisions \subseteq Seq(RunWrite)
  BY <1>1, <1>2, <1>5 DEF Decisions
<1>7. ASSUME NEW rest \in Seq(RunWrite) PROVE Understandings(rest) \subseteq Seq(RunWrite)
  BY <1>1, <1>2 DEF Understandings
<1>8. /\ << >> \in Seq(RunWrite) /\ <<Do("fail")>> \in Seq(RunWrite)
      /\ <<Do("force")>> \in Seq(RunWrite) /\ <<Do("pause")>> \in Seq(RunWrite)
  BY <1>1
<1> QED BY <1>3, <1>4, <1>6, <1>7, <1>8 DEF RunOf

-----------------------------------------------------------------------------
(***************************************************************************)
(* The retry budget, when one caller retries.                              *)
(***************************************************************************)

\* A retry is the first write of its list.
RetryFirst(list) == \A i \in 2 .. Len(list) : list[i].do # "retry"

\* What is known of a call: the copy of the one caller that retries has the
\* row's count, and its retry is within the budget until it is written.
CallBudget(c, k, r) ==
  /\ RetryFirst(k.todo)
  /\ c \in Retriers => k.copy.retries = r.retries
  /\ Head(k.todo).do = "retry" =>
       c \in Retriers /\ (k.step # "written" => r.retries < MaxRetries)

Budgeted ==
  /\ row.retries <= MaxRetries
  /\ TimesTold("RETRY_SCHEDULED") <= row.retries
  /\ \A c \in Callers : Active(c) => CallBudget(c, session[c], row)

\* A list without a retry.
NoRetry(list) == \A i \in 1 .. Len(list) : list[i].do # "retry"

\* The lists of a run, and what is left of any list, have none.
LEMMA NoRetryLists ==
  /\ \A list \in Seq(RunWrite) : NoRetry(list)
  /\ \A list \in Seq(Write) : RetryFirst(list) /\ list # << >> => NoRetry(Tail(list))
  /\ \A x : x # "retry" => NoRetry(<<Do(x)>>)
  /\ \A list \in Seq(Write) :
       NoRetry(list) => RetryFirst(list) /\ (list # << >> => Head(list).do # "retry")
<1>1. ASSUME NEW list \in Seq(RunWrite) PROVE NoRetry(list)
  BY RunWriteKinds DEF NoRetry
<1>2. ASSUME NEW list \in Seq(Write), RetryFirst(list), list # << >>
      PROVE  NoRetry(Tail(list))
  <2>1. Len(Tail(list)) = Len(list) - 1 /\ Len(list) \in Nat
    BY <1>2, HeadTailProperties
  <2>2. ASSUME NEW i \in 1 .. Len(Tail(list)) PROVE Tail(list)[i].do # "retry"
    <3>1. Tail(list)[i] = list[i + 1] /\ i + 1 \in 2 .. Len(list)
      BY <1>2, <2>1, HeadTailProperties
    <3> QED BY <1>2, <3>1 DEF RetryFirst
  <2> QED BY <2>2 DEF NoRetry
<1>3. ASSUME NEW x, x # "retry" PROVE NoRetry(<<Do(x)>>)
  BY <1>3 DEF NoRetry, Do
<1>4. ASSUME NEW list \in Seq(Write), NoRetry(list)
      PROVE  RetryFirst(list) /\ (list # << >> => Head(list).do # "retry")
  <2>1. Len(list) \in Nat /\ (list # << >> => Len(list) >= 1 /\ Head(list) = list[1])
    BY EmptySeq
  <2> QED BY <1>4, <2>1 DEF NoRetry, RetryFirst
<1> QED BY <1>1, <1>2, <1>3, <1>4

\* A call that goes on with no retry ahead, or with one within the budget.
LEMMA BudgetGoes ==
  ASSUME Typed, Budgeted, NEW c \in Callers, NEW todo, NEW copy, NEW run,
         Goes(c, todo, copy, run), row' = row, c \in Retriers => copy.retries = row.retries,
         \/ NoRetry(todo)
         \/ RetryFirst(todo) /\ c \in Retriers /\ row.retries < MaxRetries,
         TimesTold("RETRY_SCHEDULED")' <= TimesTold("RETRY_SCHEDULED"),
         TimesTold("RETRY_SCHEDULED")' \in Nat
  PROVE  Budgeted'
<1> DEFINE k == IF todo = << >> THEN Closed ELSE Ready(todo, copy, run)
<1>1. Becomes(c, k) /\ todo \in Seq(Write)
  BY DEF Goes
<1>2. /\ session'[c] = k
      /\ \A d \in Callers \ {c} : session'[d] = session[d] /\ (Active(d)' <=> Active(d))
      /\ Active(c)' <=> k # Closed
  BY <1>1, PendingBecomes
<1>3. RetryFirst(todo) /\ (todo # << >> /\ Head(todo).do = "retry" =>
                             c \in Retriers /\ row.retries < MaxRetries)
  BY <1>1, NoRetryLists
<1>4. ASSUME k # Closed PROVE CallBudget(c, k, row)
  <2>1. todo # << >> /\ k = Ready(todo, copy, run)
    BY <1>4
  <2>2. k.todo = todo /\ k.copy = copy
    BY <2>1 DEF Ready
  <2> HIDE DEF k
  <2> QED BY <1>3, <2>1, <2>2 DEF CallBudget
<1> HIDE DEF k
<1>5. ASSUME NEW d \in Callers, Active(d)' PROVE CallBudget(d, session'[d], row')
  <2>1. CASE d = c
    BY <1>2, <1>4, <1>5, <2>1
  <2>2. CASE d # c
    BY <1>2, <1>5, <2>2 DEF Budgeted
  <2> QED BY <2>1, <2>2
<1>6. row.retries \in Nat /\ TimesTold("RETRY_SCHEDULED") \in Nat
  BY ToldCount DEF Typed, Row
<1>7. row'.retries <= MaxRetries /\ TimesTold("RETRY_SCHEDULED")' <= row'.retries
  BY <1>6, MaxRetriesAssumption DEF Budgeted
<1> QED BY <1>5, <1>7 DEF Budgeted, CallBudget, RetryFirst

(* Before the first call nothing was retried. *)
LEMMA BudgetInit == Init => Budgeted
<1> SUFFICES ASSUME Init PROVE Budgeted
  OBVIOUS
<1>1. row.retries = 0 /\ ledger = << >> /\ \A c \in Callers : ~ Active(c)
  BY DEF Init, NewRow, Active
<1>2. TimesTold("RETRY_SCHEDULED") = 0
  <2>1. Pending(Api) = << >> /\ Pending(Scheduler) = << >>
    BY <1>1 DEF Pending, Callers
  <2> QED BY <1>1, <2>1, TimesNone DEF TimesTold
<1> QED BY <1>1, <1>2, MaxRetriesAssumption DEF Budgeted

\* A call that has committed nothing has no entry pending.
LEMMA NothingPending ==
  ASSUME Typed, NEW c \in Callers, ~ Active(c) \/ session[c].step # "written"
  PROVE  Pending(c) = << >>
BY DEF Pending, Typed, WellFormed

\* A step that becomes a call on an unchanged row keeps the budget, when the
\* call does.
LEMMA BudgetBecomes ==
  ASSUME Typed, Budgeted, NEW c \in Callers, NEW k, Becomes(c, k),
         row'.retries <= MaxRetries,
         TimesTold("RETRY_SCHEDULED")' <= row'.retries,
         k # Closed => CallBudget(c, k, row'),
         \A d \in Callers \ {c} : Active(d) => CallBudget(d, session[d], row')
  PROVE  Budgeted'
<1>1. /\ session'[c] = k
      /\ \A d \in Callers \ {c} : session'[d] = session[d] /\ (Active(d)' <=> Active(d))
      /\ Active(c)' <=> k # Closed
  BY PendingBecomes
<1>2. ASSUME NEW d \in Callers, Active(d)' PROVE CallBudget(d, session'[d], row')
  <2>1. CASE d = c
    BY <1>1, <1>2, <2>1
  <2>2. CASE d # c
    BY <1>1, <1>2, <2>2
  <2> QED BY <2>1, <2>2
<1> QED BY <1>2 DEF Budgeted, CallBudget, RetryFirst

\* At most one caller retries: the endpoint does, or task runs do.
OneRetrier == \A a, b \in Retriers : a = b

\* A commit counts a retry in the row when it records one, and keeps the
\* budget that was checked when the call was opened.
LEMMA BudgetCommit ==
  ASSUME Typed, Typed', Budgeted, OneRetrier, NEW c \in Callers, Commit(c)
  PROVE  Budgeted'
<1> DEFINE k == session[c]
           w == Head(k.todo)
           new == Written(w, k.copy)
           n == [ step |-> "written", copy |-> new, todo |-> k.todo, run |-> k.run,
                  entry |-> Entry(w, k.copy) ]
<1>1. /\ WellFormed(k) /\ k.step # "written" /\ w \in Write /\ w.do \notin Deciding
      /\ Update(w, k.copy, new) /\ Becomes(c, n) /\ Active(c)
  BY CommitBecomes DEF Commit, At
<1>2. k.copy \in Row /\ row \in Row
  BY <1>1, TodoWrites DEF Typed
<1>3. new \in Row /\ new.retries = RetriesAfter(w, k.copy)
  BY <1>1, <1>2, WrittenRow
<1>4. row'.retries = IF new.retries # k.copy.retries THEN new.retries ELSE row.retries
  BY <1>1, <1>2, <1>3, UpdatedRow
<1>5. TimesTold("RETRY_SCHEDULED")' =
        TimesTold("RETRY_SCHEDULED") + (IF Records(w, "RETRY_SCHEDULED") THEN 1 ELSE 0)
  BY CountCommit
<1>6. /\ CallBudget(c, k, row)
      /\ \A d \in Callers : Active(d) => CallBudget(d, session[d], row)
      /\ row.retries <= MaxRetries /\ TimesTold("RETRY_SCHEDULED") <= row.retries
  BY <1>1 DEF Budgeted
<1>7. k.copy.retries \in Nat /\ row.retries \in Nat /\ TimesTold("RETRY_SCHEDULED") \in Nat
  BY <1>2, ToldCount DEF Row
<1> HIDE DEF new
<1>8. CASE w.do = "retry"
  <2>1. c \in Retriers /\ k.copy.retries = row.retries /\ row.retries < MaxRetries
    BY <1>1, <1>6, <1>8 DEF CallBudget
  <2>2. new.retries = row.retries + 1
    BY <1>3, <1>8, <2>1 DEF RetriesAfter
  <2>3. row'.retries = row.retries + 1
    BY <1>4, <1>7, <2>1, <2>2
  <2>4. Records(w, "RETRY_SCHEDULED")
    BY <1>8 DEF Records
  <2>5. TimesTold("RETRY_SCHEDULED")' <= row'.retries /\ row'.retries <= MaxRetries
    BY <1>5, <1>6, <1>7, <2>1, <2>3, <2>4, MaxRetriesAssumption
  <2>6. CallBudget(c, n, row')
    BY <1>6, <2>1, <2>2, <2>3 DEF CallBudget
  <2>7. ASSUME NEW d \in Callers \ {c}, Active(d) PROVE CallBudget(d, session[d], row')
    BY <1>6, <2>1, <2>7 DEF CallBudget, OneRetrier
  <2> QED BY <1>1, <2>5, <2>6, <2>7, BudgetBecomes
<1>9. CASE w.do # "retry"
  <2>1. new.retries = k.copy.retries /\ row'.retries = row.retries
    BY <1>3, <1>4, <1>9 DEF RetriesAfter
  <2>2. ~ Records(w, "RETRY_SCHEDULED")
    <3>1. CASE w.do = "move"
      <4>1. w.to # "RETRY_SCHEDULED"
        BY <1>1, <3>1, WriteKinds DEF Goals, Plain
      <4> QED BY <3>1, <4>1 DEF Records, Target
    <3>2. CASE w.do # "move"
      BY <1>9, <3>2 DEF Records, Target
    <3> QED BY <3>1, <3>2
  <2>3. TimesTold("RETRY_SCHEDULED")' <= row'.retries /\ row'.retries <= MaxRetries
    BY <1>5, <1>6, <1>7, <2>1, <2>2
  <2>4. CallBudget(c, n, row')
    BY <1>6, <1>9, <2>1 DEF CallBudget
  <2>5. ASSUME NEW d \in Callers \ {c}, Active(d) PROVE CallBudget(d, session[d], row')
    BY <1>6, <2>1, <2>5 DEF CallBudget
  <2> QED BY <1>1, <2>3, <2>4, <2>5, BudgetBecomes
<1> QED BY <1>8, <1>9

\* A step of a call under way that writes nothing keeps the budget.
LEMMA BudgetOnward ==
  ASSUME Typed, Typed', Budgeted, NEW c \in Callers, NEW todo, NEW run,
         Active(c), session[c].step # "written", UNCHANGED <<row, ledger>>,
         Goes(c, todo, session[c].copy, run), NoRetry(todo)
  PROVE  Budgeted'
<1>1. Pending(c) = << >>
  BY NothingPending
<1>2. TimesTold("RETRY_SCHEDULED")' = TimesTold("RETRY_SCHEDULED")
  BY <1>1, CountGoes
<1>3. c \in Retriers => session[c].copy.retries = row.retries
  BY DEF Budgeted, CallBudget
<1>4. TimesTold("RETRY_SCHEDULED") \in Nat
  BY ToldCount
<1> QED BY <1>2, <1>3, <1>4, BudgetGoes

\* A call is opened within the budget.
LEMMA BudgetOpen == ASSUME Typed, Typed', Budgeted, OpenCall PROVE Budgeted'
<1>1. row \in Row
  BY DEF Typed
<1>2. ASSUME NEW c \in Callers, NEW todo, NEW run, ~ Active(c), UNCHANGED <<row, ledger>>,
             Goes(c, todo, row, run),
             \/ NoRetry(todo)
             \/ RetryFirst(todo) /\ c \in Retriers /\ row.retries < MaxRetries
      PROVE  Budgeted'
  <2>1. Pending(c) = << >>
    BY <1>2, NothingPending
  <2>2. TimesTold("RETRY_SCHEDULED")' = TimesTold("RETRY_SCHEDULED")
    BY <1>2, <2>1, CountGoes
  <2>3. TimesTold("RETRY_SCHEDULED") \in Nat
    BY ToldCount
  <2> QED BY <1>2, <2>2, <2>3, BudgetGoes
<1>3. ASSUME NEW c \in Callers PROVE RetryFirst(RetryList(c))
  <2>1. \A i \in 2 .. Len(RetryList(c)) : i = 2 \/ (c = Scheduler /\ i = 3)
    <3> DEFINE n == Len(RetryList(c))
    <3>1. n = IF c = Scheduler THEN 3 ELSE 2
      BY RetryWrites
    <3> HIDE DEF n
    <3>2. \A i \in 2 .. n : i = 2 \/ (c = Scheduler /\ i = 3)
      BY <3>1
    <3> QED BY <3>2 DEF n
  <2> QED BY <2>1, RetryWrites DEF RetryFirst, Move, Do
<1>4. NoRetry(RunOf(row))
  BY RunLists, NoRetryLists
<1>5. NoRetry(<<Do("pause")>>) /\ NoRetry(<<Do("resume")>>) /\ NoRetry(<<Do("cancel")>>)
  BY NoRetryLists
<1> QED BY <1>1, <1>2, <1>3, <1>4, <1>5, OpenCallGoes


\* Every step keeps the budget, when one caller retries.
LEMMA BudgetStep ==
  ASSUME Typed, Budgeted, OneRetrier, [AnyStep]_vars
  PROVE  Budgeted'
<1>t. Typed'
  BY TypedStep
<1>w. ASSUME NEW c \in Callers, Active(c)
      PROVE  /\ session[c].todo \in Seq(Write) /\ NoRetry(Tail(session[c].todo))
             /\ CallBudget(c, session[c], row)
  BY <1>w, TodoWrites, NoRetryLists DEF Typed, WellFormed, Budgeted, CallBudget
<1>m. /\ NoRetry(<< >>) /\ NoRetry(<<Do("fail")>>) /\ NoRetry(<<Do("force")>>)
      /\ \A c : NoRetry(MarkFailed(c))
  BY RunLists, NoRetryLists DEF MarkFailed
<1>1. CASE OpenCall
  BY <1>t, <1>1, BudgetOpen
<1>2. ASSUME NEW c \in Callers, Select(c) PROVE Budgeted'
  <2> DEFINE k == session[c]
             n == [ step |-> "selected", copy |-> k.copy, todo |-> k.todo, run |-> k.run,
                    entry |-> << >> ]
  <2>1. /\ WellFormed(k) /\ k.step = "ready" /\ Becomes(c, n) /\ WellFormed(n)
        /\ UNCHANGED <<row, ledger>> /\ Active(c)
    BY <1>2, SelectBecomes DEF Select, At
  <2>2. n # Closed
    BY <2>1, OngoingIsOpen DEF WellFormed
  <2>3. Pending(c) = << >> /\ Pending(c)' = << >>
    BY <2>1, <2>2, PendingBecomes, NothingPending
  <2>4. TimesTold("RETRY_SCHEDULED")' = TimesTold("RETRY_SCHEDULED")
    <3>1. Pending(c)' = Pending(c) /\ \A d \in Callers \ {c} : Pending(d)' = Pending(d)
      BY <2>1, <2>3, PendingBecomes
    <3>2. Pending(Api)' = Pending(Api) /\ Pending(Scheduler)' = Pending(Scheduler)
      BY <3>1 DEF Callers
    <3> QED BY <2>1, <3>2 DEF TimesTold, Times, Entering
  <2>5. CallBudget(c, n, row')
    BY <2>1, <1>w DEF CallBudget
  <2> QED BY <2>1, <2>4, <2>5, BudgetBecomes DEF Budgeted
<1>3. ASSUME NEW c \in Callers, Refuse(c) PROVE Budgeted'
  <2>1. Active(c) /\ session[c].step # "written" /\ UNCHANGED <<row, ledger>>
    BY <1>3, RefuseGoes DEF Refuse, At
  <2>2. PICK todo : NoRetry(todo) /\ Goes(c, todo, session[c].copy, session[c].run)
    BY <1>3, <1>m, RefuseGoes
  <2> QED BY <1>t, <2>1, <2>2, BudgetOnward
<1>4. ASSUME NEW c \in Callers, Commit(c) PROVE Budgeted'
  BY <1>t, <1>4, BudgetCommit
<1>5. ASSUME NEW c \in Callers, Refresh(c) PROVE Budgeted'
  <2>1. Active(c) /\ row' = row /\ Goes(c, Tail(session[c].todo), row, session[c].run)
    BY <1>5, RefreshGoes DEF Refresh, At
  <2>2. TimesTold("RETRY_SCHEDULED")' = TimesTold("RETRY_SCHEDULED")
    BY <1>t, <1>5, CountRefresh
  <2>3. TimesTold("RETRY_SCHEDULED") \in Nat
    BY ToldCount
  <2> QED BY <1>w, <2>1, <2>2, <2>3, BudgetGoes
<1>6. ASSUME NEW c \in Callers, Begin(c) PROVE Budgeted'
  <2>1. Active(c) /\ session[c].step # "written" /\ UNCHANGED <<row, ledger>>
    BY <1>6, BeginGoes DEF Begin, At
  <2>2. NoRetry(RunOf(session[c].copy))
    BY RunLists, NoRetryLists
  <2>3. PICK todo, run : NoRetry(todo) /\ Goes(c, todo, session[c].copy, run)
    BY <1>6, <1>m, <2>2, BeginGoes
  <2> QED BY <1>t, <2>1, <2>3, BudgetOnward
<1>7. ASSUME NEW c \in Callers, Understand(c) \/ ApplyDecision(c) PROVE Budgeted'
  <2>1. Active(c) /\ session[c].step # "written" /\ UNCHANGED <<row, ledger>>
    BY <1>7, DecidingGoes DEF Understand, ApplyDecision, At
  <2>2. \A todo \in Decisions : NoRetry(todo)
    BY RunLists, NoRetryLists
  <2>3. \A todo \in Understandings(Tail(session[c].todo)) : NoRetry(todo)
    <3>1. NoRetry(<<Move("NEEDS_CLARIFICATION"), Do("pause")>>)
      BY DEF NoRetry, Move, Do
    <3> QED BY <1>w, <2>1, <3>1 DEF Understandings
  <2>4. PICK todo : NoRetry(todo) /\ Goes(c, todo, session[c].copy, session[c].run)
    BY <1>7, <2>2, <2>3, DecidingGoes
  <2> QED BY <1>t, <2>1, <2>4, BudgetOnward
<1>8. ASSUME NEW c \in Callers, Raise(c) PROVE Budgeted'
  <2>1. Active(c) /\ session[c].step # "written" /\ UNCHANGED <<row, ledger>>
    BY <1>8, RaiseGoes DEF Raise, At
  <2> QED BY <1>t, <1>m, <1>8, <2>1, RaiseGoes, BudgetOnward
<1>9. ASSUME NEW c \in Callers, Abandon(c) PROVE Budgeted'
  <2>1. Becomes(c, Closed) /\ row' = row
    BY <1>9 DEF Abandon, Becomes
  <2>2. TimesTold("RETRY_SCHEDULED")' <= TimesTold("RETRY_SCHEDULED")
    BY <1>t, <1>9, CountAbandon
  <2>3. TimesTold("RETRY_SCHEDULED") \in Nat /\ TimesTold("RETRY_SCHEDULED")' \in Nat
    <3>1. TimesTold("RETRY_SCHEDULED") \in Nat
      BY ToldCount
    <3>2. TimesTold("RETRY_SCHEDULED")' \in Nat
      BY <1>t, ToldCountNext
    <3> QED BY <3>1, <3>2
  <2>4. row.retries \in Nat
    BY DEF Typed, Row
  <2>5. TimesTold("RETRY_SCHEDULED")' <= row'.retries
    BY <2>1, <2>2, <2>3, <2>4 DEF Budgeted
  <2> QED BY <2>1, <2>5, BudgetBecomes DEF Budgeted
<1>10. CASE UNCHANGED vars
  <2>1. /\ row' = row /\ ledger' = ledger /\ session' = session
    BY <1>10 DEF vars
  <2>2. TimesTold("RETRY_SCHEDULED")' = TimesTold("RETRY_SCHEDULED")
    BY <2>1 DEF TimesTold, Times, Entering, Pending, Active
  <2> QED BY <2>1, <2>2 DEF Budgeted, CallBudget, RetryFirst, Active
<1> QED BY <1>1, <1>2, <1>3, <1>4, <1>5, <1>6, <1>7, <1>8, <1>9, <1>10
        DEF AnyStep, Next, Step

\* The retries stay within the budget, and retry_count misses none that the
\* ledger shows, although retry_workflow and the two moves that it makes check
\* no version and its caller may be interrupted or abandoned anywhere: as long
\* as one caller retries.  (With two, SessionsBudget.cfg shows the count lost.)
THEOREM SessionRetriesWithinBudget ==
  ASSUME OneRetrier
  PROVE  CrashSpec => []RetriesWithinBudget
<1>1. Typed /\ Budgeted /\ [Next \/ \E c \in Callers : Abandon(c)]_vars => Budgeted'
  BY BudgetStep DEF AnyStep
<1>2. Typed /\ Budgeted => RetriesWithinBudget
  <2> SUFFICES ASSUME Typed, Budgeted PROVE RetriesWithinBudget
    OBVIOUS
  <2>1. Cardinality(Service!RetryEntries(Told)) = Times("RETRY_SCHEDULED", Told)
    BY DEF Service!RetryEntries, Times, Entering
  <2> QED BY <2>1, ToldCount DEF RetriesWithinBudget, Budgeted
<1> QED BY <1>1, <1>2, BudgetInit, TypedAlways, PTL DEF CrashSpec


-----------------------------------------------------------------------------
(***************************************************************************)
(* One execution per attempt, when the scheduler runs and the API retries. *)
(***************************************************************************)

\* The writes by which a run executes the action, or may still decide to.
Executes(w) == w = Do("decide") \/ w = Move("EXECUTING")
Ahead(list) == \E i \in 1 .. Len(list) : Executes(list[i])

\* The lists of a run: a failure is marked alone, CLASSIFYING leads to a
\* decision, and nothing executes after the action has.
RunList(list) ==
  /\ list \in Seq(RunWrite)
  /\ \A i \in 1 .. Len(list) : list[i].do \in {"fail", "force"} => Len(list) = 1
  /\ \A i \in 1 .. Len(list) : list[i] = Move("CLASSIFYING") => list[Len(list)] = Do("decide")
  /\ \A i, j \in 1 .. Len(list) : i < j /\ list[i] = Move("EXECUTING") => ~ Executes(list[j])

\* The lists of the API when it does not run.
ApiList(list) ==
  \/ /\ list # << >> /\ Head(list) = Do("retry")
     /\ Tail(list) # << >> /\ Head(Tail(list)) = Move("RECEIVED") /\ Tail(Tail(list)) = << >>
  \/ /\ list # << >> /\ Tail(list) = << >>
     /\ Head(list) \in {Do("pause"), Do("resume"), Do("cancel"), Move("RECEIVED")}

\* A list of one write, and of two.
LEMMA ShortLists ==
  ASSUME NEW list \in Seq(Write)
  PROVE  /\ Len(list) = 1 => list # << >> /\ Head(list) = list[1] /\ Tail(list) = << >>
         /\ Len(list) = 2 =>
              /\ list # << >> /\ Head(list) = list[1]
              /\ Tail(list) # << >> /\ Head(Tail(list)) = list[2] /\ Tail(Tail(list)) = << >>
<1>1. ASSUME NEW S, NEW other \in Seq(S), Len(other) = 1
      PROVE  other # << >> /\ Head(other) = other[1] /\ Tail(other) = << >>
  <2>1. other # << >> /\ Head(other) = other[1]
    <3>1. other = << >> => Len(other) = 0
      OBVIOUS
    <3> QED BY <1>1, <3>1
  <2>2. Tail(other) \in Seq(S) /\ Len(Tail(other)) = 0
    BY <1>1, <2>1, HeadTailProperties
  <2> QED BY <2>1, <2>2, EmptySeq
<1>2. ASSUME Len(list) = 2
      PROVE  /\ list # << >> /\ Head(list) = list[1]
             /\ Tail(list) # << >> /\ Head(Tail(list)) = list[2] /\ Tail(Tail(list)) = << >>
  <2>1. list # << >> /\ Head(list) = list[1]
    BY <1>2
  <2>2. Tail(list) \in Seq(Write) /\ Len(Tail(list)) = 1 /\ Tail(list)[1] = list[2]
    BY <1>2, <2>1, HeadTailProperties
  <2> QED BY <1>1, <2>1, <2>2
<1> QED BY <1>1, <1>2

\* What is left of a list of the API is one too, or nothing; only after a
\* retry is there something left.
LEMMA ApiListTail ==
  ASSUME NEW list, ApiList(list)
  PROVE  /\ list # << >>
         /\ Head(list).do \in {"retry", "pause", "resume", "cancel", "move"}
         /\ Head(list).do = "move" => Head(list) = Move("RECEIVED")
         /\ Head(list).do # "retry" => Tail(list) = << >>
         /\ Head(list).do = "retry" =>
              /\ Tail(list) # << >> /\ Head(Tail(list)) = Move("RECEIVED")
              /\ ApiList(Tail(list))
BY DEF ApiList, Do, Move

\* The lists that the API opens a call with.
LEMMA ApiLists ==
  /\ \A x \in {"pause", "resume", "cancel"} : ApiList(<<Do(x)>>) /\ Head(<<Do(x)>>) = Do(x)
  /\ ApiList(RetryList(Api)) /\ Head(RetryList(Api)) = Do("retry")
<1>1. ASSUME NEW x \in {"pause", "resume", "cancel"}
      PROVE  ApiList(<<Do(x)>>) /\ Head(<<Do(x)>>) = Do(x)
  <2> DEFINE list == <<Do(x)>>
  <2>1. list \in Seq(Write) /\ Len(list) = 1 /\ list[1] = Do(x)
    BY DEF Write, Plain
  <2> HIDE DEF list
  <2>2. list # << >> /\ Head(list) = Do(x) /\ Tail(list) = << >>
    BY <2>1, ShortLists
  <2>3. ApiList(list)
    BY <2>2 DEF ApiList
  <2> QED BY <2>2, <2>3 DEF list
<1>2. ApiList(RetryList(Api)) /\ Head(RetryList(Api)) = Do("retry")
  <2>1. /\ RetryList(Api) \in Seq(Write) /\ Len(RetryList(Api)) = 2
        /\ RetryList(Api)[1] = Do("retry") /\ RetryList(Api)[2] = Move("RECEIVED")
    BY RetryWrites, CallersAssumption DEF Callers
  <2> QED BY <2>1, ShortLists DEF ApiList
<1> QED BY <1>1, <1>2

\* What is left of a list of a run is one too, and has no more ahead.
LEMMA RunListTail ==
  ASSUME NEW list, RunList(list), list # << >>
  PROVE  /\ RunList(Tail(list)) /\ Head(list) \in RunWrite
         /\ Ahead(Tail(list)) => Ahead(list)
         /\ Executes(Head(list)) => Ahead(list)
         /\ Head(list) = Move("EXECUTING") => ~ Ahead(Tail(list))
         /\ Head(list) = Move("CLASSIFYING") => Ahead(list)
         /\ Head(list).do \in {"fail", "force"} => Len(list) = 1
<1> DEFINE rest == Tail(list)
           n == Len(list)
<1>1. /\ list \in Seq(RunWrite) /\ rest \in Seq(RunWrite) /\ n \in Nat /\ n >= 1
      /\ Len(rest) = n - 1 /\ Head(list) = list[1] /\ Head(list) \in RunWrite
      /\ \A i \in 1 .. n - 1 : rest[i] = list[i + 1]
  BY HeadTailProperties, EmptySeq DEF RunList
<1>2. /\ \A i \in 1 .. n : list[i].do \in {"fail", "force"} => n = 1
      /\ \A i \in 1 .. n : list[i] = Move("CLASSIFYING") => list[n] = Do("decide")
      /\ \A i, j \in 1 .. n : i < j /\ list[i] = Move("EXECUTING") => ~ Executes(list[j])
      /\ Ahead(list) <=> \E i \in 1 .. n : Executes(list[i])
      /\ Ahead(rest) <=> \E i \in 1 .. n - 1 : Executes(rest[i])
  BY <1>1 DEF RunList, Ahead
<1> HIDE DEF rest, n
<1>3. \A i \in 1 .. n - 1 : i + 1 \in 1 .. n /\ i + 1 > 1
  BY <1>1
<1>4. Ahead(rest) => Ahead(list)
  BY <1>1, <1>2, <1>3
<1>5. /\ Executes(Head(list)) => Ahead(list)
      /\ Head(list).do \in {"fail", "force"} => n = 1
  BY <1>1, <1>2
<1>6. Head(list) = Move("EXECUTING") => ~ Ahead(rest)
  BY <1>1, <1>2, <1>3
<1>7. Head(list) = Move("CLASSIFYING") => Ahead(list)
  BY <1>1, <1>2 DEF Executes
<1>8. ASSUME NEW i \in 1 .. n - 1, rest[i] = Move("CLASSIFYING")
      PROVE  rest[n - 1] = Do("decide")
  <2>1. list[n] = Do("decide") /\ n - 1 \in 1 .. n - 1 /\ (n - 1) + 1 = n
    BY <1>1, <1>2, <1>3, <1>8
  <2> QED BY <1>1, <2>1
<1>9. \A i \in 1 .. n - 1 : rest[i].do \in {"fail", "force"} => n - 1 = 1
  BY <1>1, <1>2, <1>3
<1>10. ASSUME NEW i \in 1 .. n - 1, NEW j \in 1 .. n - 1, i < j, rest[i] = Move("EXECUTING")
       PROVE  ~ Executes(rest[j])
  <2>1. /\ i + 1 \in 1 .. n /\ j + 1 \in 1 .. n /\ i + 1 < j + 1
        /\ list[i + 1] = Move("EXECUTING") /\ rest[j] = list[j + 1]
    BY <1>1, <1>3, <1>10
  <2> QED BY <1>2, <2>1
<1>11. RunList(rest)
  BY <1>1, <1>8, <1>9, <1>10 DEF RunList
<1> QED BY <1>1, <1>4, <1>5, <1>6, <1>7, <1>11 DEF rest, n

\* The lists that a run goes on to.
LEMMA RunListsGoOn ==
  /\ \A x \in {"fail", "force"} : RunList(<<Do(x)>>) /\ ~ Ahead(<<Do(x)>>)
  /\ ~ Ahead(<< >>)
  /\ \A r : RunList(RunOf(r))
  /\ \A list \in Decisions : RunList(list)
  /\ \A rest : RunList(rest) =>
       \A list \in Understandings(rest) : RunList(list) /\ (Ahead(list) => Ahead(rest))
<1>1. ASSUME NEW x \in {"fail", "force"} PROVE RunList(<<Do(x)>>) /\ ~ Ahead(<<Do(x)>>)
  <2> DEFINE list == <<Do(x)>>
  <2>1. list \in Seq(RunWrite) /\ Len(list) = 1 /\ list[1] = Do(x)
    BY RunLists
  <2>2. Do(x) # Move("CLASSIFYING") /\ ~ Executes(Do(x)) /\ Do(x) # Move("EXECUTING")
    BY DEF Do, Move, Executes
  <2> HIDE DEF list
  <2>3. RunList(list) /\ ~ Ahead(list)
    BY <2>1, <2>2 DEF RunList, Ahead
  <2> QED BY <2>3 DEF list
<1>2. ~ Ahead(<< >>)
  BY DEF Ahead
<1>3. RunList(RunFromContext)
  <2>1. /\ RunFromContext \in Seq(RunWrite) /\ Len(RunFromContext) = 7
        /\ RunFromContext[7] = Do("decide")
    BY RunLists, ContextWrites
  <2>2. \A i \in 1 .. 7 : i = 1 \/ i = 2 \/ i = 3 \/ i = 4 \/ i = 5 \/ i = 6 \/ i = 7
    OBVIOUS
  <2>3. ASSUME NEW i \in 1 .. 7
        PROVE  /\ RunFromContext[i].do \notin {"fail", "force"}
               /\ RunFromContext[i] # Move("EXECUTING")
    BY <2>2, ContextWrites DEF Move, Do
  <2> QED BY <2>1, <2>3 DEF RunList
<1>4. RunList(RunScript)
  <2>1. /\ RunScript \in Seq(RunWrite) /\ Len(RunScript) = 12
        /\ RunScript[12] = Do("decide")
    BY RunLists, RunWrites, ContextWrites
  <2>2. \A i \in 1 .. 5 : i = 1 \/ i = 2 \/ i = 3 \/ i = 4 \/ i = 5
    OBVIOUS
  <2>3. ASSUME NEW i \in 1 .. 5
        PROVE  /\ RunScript[i].do \notin {"fail", "force"}
               /\ RunScript[i] # Move("EXECUTING")
    BY <2>2, RunWrites DEF Move, Do
  <2>4. \A i \in 1 .. 7 : i = 1 \/ i = 2 \/ i = 3 \/ i = 4 \/ i = 5 \/ i = 6 \/ i = 7
    OBVIOUS
  <2>5. ASSUME NEW i \in 1 .. 7
        PROVE  /\ RunFromContext[i].do \notin {"fail", "force"}
               /\ RunFromContext[i] # Move("EXECUTING")
    BY <2>4, ContextWrites DEF Move, Do
  <2>6. ASSUME NEW i \in 6 .. 12
        PROVE  /\ RunScript[i].do \notin {"fail", "force"}
               /\ RunScript[i] # Move("EXECUTING")
    <3>1. RunScript[i] = RunFromContext[i - 5] /\ i - 5 \in 1 .. 7
      BY RunWrites
    <3> QED BY <3>1, <2>5
  <2>7. ASSUME NEW i \in 1 .. 12
        PROVE  /\ RunScript[i].do \notin {"fail", "force"}
               /\ RunScript[i] # Move("EXECUTING")
    BY <2>3, <2>6
  <2> QED BY <2>1, <2>7 DEF RunList
<1>5. ASSUME NEW list \in Seq(RunWrite), NEW n \in Nat, Len(list) = n,
             \A i \in 1 .. n : /\ list[i].do \notin {"fail", "force"}
                              /\ list[i] # Move("CLASSIFYING"),
             \A i \in 1 .. n : i > 1 => ~ Executes(list[i])
      PROVE  RunList(list)
  <2>1. ASSUME NEW i \in 1 .. n, NEW j \in 1 .. n, i < j PROVE ~ Executes(list[j])
    <3>1. j > 1
      BY <2>1
    <3> QED BY <1>5, <3>1
  <2>2. /\ \A i \in 1 .. n : list[i].do \in {"fail", "force"} => n = 1
        /\ \A i \in 1 .. n : list[i] = Move("CLASSIFYING") => list[n] = Do("decide")
    BY <1>5
  <2> QED BY <1>5, <2>1, <2>2 DEF RunList
<1>6. ASSUME NEW list \in Decisions PROVE RunList(list)
  <2>0. list \in Seq(RunWrite)
    BY RunLists
  <2>1. ASSUME NEW x, list = <<Move(x)>>, x \in {"DENIED", "ESCALATED"}
        PROVE  RunList(list)
    <3>1. Len(list) = 1 /\ list[1] = Move(x)
      BY <2>1
    <3>2. \A i \in 1 .. 1 : i = 1
      OBVIOUS
    <3>3. Move(x).do = "move" /\ Move(x) # Move("CLASSIFYING")
      BY <2>1 DEF Move
    <3> QED BY <2>0, <3>1, <3>2, <3>3, <1>5
  <2>2. CASE list = <<Move("WAITING_FOR_APPROVAL"), Do("hold")>>
    <3>1. Len(list) = 2 /\ list[1] = Move("WAITING_FOR_APPROVAL") /\ list[2] = Do("hold")
      BY <2>2
    <3>2. \A i \in 1 .. 2 : i = 1 \/ i = 2
      OBVIOUS
    <3>3. /\ Move("WAITING_FOR_APPROVAL").do = "move" /\ Do("hold").do = "hold"
          /\ Move("WAITING_FOR_APPROVAL") # Move("CLASSIFYING")
          /\ Do("hold") # Move("CLASSIFYING") /\ ~ Executes(Do("hold"))
      BY DEF Move, Do, Executes
    <3> QED BY <2>0, <3>1, <3>2, <3>3, <1>5
  <2>3. CASE list = Moves(<<"EXECUTING", "VERIFYING", "COMPLETED">>)
    <3> DEFINE states == <<"EXECUTING", "VERIFYING", "COMPLETED">>
    <3>1. /\ states \in Seq(Goals) /\ Len(states) = 3
          /\ states[1] = "EXECUTING" /\ states[2] = "VERIFYING" /\ states[3] = "COMPLETED"
      BY DEF Goals, WorkflowState
    <3> HIDE DEF states
    <3>2. Len(list) = 3 /\ \A i \in 1 .. 3 : list[i] = Move(states[i])
      <4>1. Len(Moves(states)) = 3 /\ \A i \in 1 .. 3 : Moves(states)[i] = Move(states[i])
        BY <3>1, MovesList
      <4> QED BY <2>3, <4>1 DEF states
    <3>3. \A i \in 1 .. 3 : i = 1 \/ i = 2 \/ i = 3
      OBVIOUS
    <3>4. /\ \A x : Move(x).do = "move"
          /\ \A x \in {"EXECUTING", "VERIFYING", "COMPLETED"} : Move(x) # Move("CLASSIFYING")
          /\ ~ Executes(Move("VERIFYING")) /\ ~ Executes(Move("COMPLETED"))
      BY DEF Move, Do, Executes
    <3> QED BY <2>0, <3>1, <3>2, <3>3, <3>4, <1>5
  <2> QED BY <2>1, <2>2, <2>3 DEF Decisions
<1>7. ASSUME NEW rest, RunList(rest), NEW list \in Understandings(rest)
      PROVE  RunList(list) /\ (Ahead(list) => Ahead(rest))
  <2> DEFINE ask == <<Move("NEEDS_CLARIFICATION"), Do("pause")>>
  <2>1. ask \in Seq(RunWrite)
    BY <1>7, RunLists DEF Understandings, RunList
  <2>2. /\ Len(ask) = 2 /\ ask[1] = Move("NEEDS_CLARIFICATION") /\ ask[2] = Do("pause")
    OBVIOUS
  <2> HIDE DEF ask
  <2>3. \A i \in 1 .. 2 : i = 1 \/ i = 2
    OBVIOUS
  <2>4. \A i \in 1 .. 2 : /\ ask[i].do \notin {"fail", "force"} /\ ~ Executes(ask[i])
                         /\ ask[i] # Move("CLASSIFYING")
    BY <2>2, <2>3 DEF Move, Do, Executes
  <2>5. RunList(ask) /\ ~ Ahead(ask)
    BY <1>5, <2>1, <2>2, <2>4 DEF Ahead
  <2> QED BY <1>7, <2>5 DEF Understandings, ask
<1> QED BY <1>1, <1>2, <1>3, <1>4, <1>6, <1>7 DEF RunOf


\* The writes that a call has still to commit.
Left(k) == IF k.step = "written" THEN Tail(k.todo) ELSE k.todo

\* The next of them is the second move of a retry, or the first.
Restarts(k) == Left(k) # << >> /\ Head(Left(k)) = Move("RECEIVED")
WillRetry(k) == Left(k) # << >> /\ Head(Left(k)) = Do("retry")

\* A call of the API: its retry finds the workflow FAILED, and its restart
\* finds it RETRY_SCHEDULED, for nobody else leaves these states.
ApiPart(k, r) ==
  /\ ApiList(k.todo) /\ ~ k.run
  /\ WillRetry(k) => r.state = "FAILED" /\ k.copy.state = "FAILED"
  /\ Restarts(k) => r.state = "RETRY_SCHEDULED"

\* A call of the scheduler: once the workflow failed it commits nothing more.
RunPart(k, r) ==
  /\ RunList(k.todo)
  /\ r.state \in {"FAILED", "RETRY_SCHEDULED"} => k.step = "written" /\ Len(k.todo) = 1

\* The attempt under way may still execute the action.
Chance(r, api, run) ==
  \/ r.state \in {"RECEIVED", "CLASSIFYING"}
  \/ api # Closed /\ Restarts(api)
  \/ run # Closed /\ Ahead(Left(run))

\* There is room for it: one execution for the first attempt and for each
\* retry.
Room(times, chance, r) == times + (IF chance THEN 1 ELSE 0) <= 1 + r.retries

Executing ==
  /\ session[Api] # Closed => ApiPart(session[Api], row)
  /\ session[Scheduler] # Closed => RunPart(session[Scheduler], row)
  /\ Room(TimesTold("EXECUTING"), Chance(row, session[Api], session[Scheduler]), row)

\* The scheduler runs the workflows, and the API retries them.
Apart == Runners \subseteq {Scheduler} /\ Retriers \subseteq {Api}

(* Before the first call the first attempt is ahead. *)
LEMMA ExecutingInit == Init => Executing
<1> SUFFICES ASSUME Init PROVE Executing
  OBVIOUS
<1>1. row.retries = 0 /\ ledger = << >> /\ \A c \in Callers : session[c] = Closed
  BY DEF Init, NewRow
<1>2. TimesTold("EXECUTING") = 0
  <2>1. Pending(Api) = << >> /\ Pending(Scheduler) = << >>
    BY <1>1 DEF Pending, Callers, Active
  <2> QED BY <1>1, <2>1, TimesNone DEF TimesTold
<1>3. session[Api] = Closed /\ session[Scheduler] = Closed
  BY <1>1 DEF Callers
<1>4. \A chance : Room(0, chance, row)
  BY <1>1 DEF Room
<1> QED BY <1>2, <1>3, <1>4 DEF Executing

\* Room remains when nothing was executed, nothing more may be, and no retry
\* was undone.
LEMMA RoomKept ==
  ASSUME NEW r \in Row, NEW s \in Row, NEW m \in Nat, NEW n \in Nat, n <= m,
         NEW a, NEW b, b => a, r.retries <= s.retries, Room(m, a, r)
  PROVE  Room(n, b, s)
BY DEF Room, Row

\* A step of the API.
LEMMA ApiBecomes ==
  ASSUME Typed, NEW k, Becomes(Api, k),
         k # Closed => ApiPart(k, row'),
         session[Scheduler] # Closed => RunPart(session[Scheduler], row'),
         Room(TimesTold("EXECUTING")', Chance(row', k, session[Scheduler]), row')
  PROVE  Executing'
<1>1. session'[Api] = k /\ session'[Scheduler] = session[Scheduler]
  BY CallersAssumption, PendingBecomes DEF Callers
<1>2. (session[Api] # Closed => ApiPart(session[Api], row))'
  BY <1>1 DEF ApiPart, Restarts, WillRetry, Left, ApiList
<1>3. (session[Scheduler] # Closed => RunPart(session[Scheduler], row))'
  BY <1>1 DEF RunPart, RunList, Executes
<1>4. Room(TimesTold("EXECUTING"), Chance(row, session[Api], session[Scheduler]), row)'
  BY <1>1 DEF Chance, Room, Restarts, Left, Ahead, Executes
<1> QED BY <1>2, <1>3, <1>4 DEF Executing

\* A step of the scheduler.
LEMMA SchedulerBecomes ==
  ASSUME Typed, NEW k, Becomes(Scheduler, k),
         session[Api] # Closed => ApiPart(session[Api], row'),
         k # Closed => RunPart(k, row'),
         Room(TimesTold("EXECUTING")', Chance(row', session[Api], k), row')
  PROVE  Executing'
<1>1. session'[Scheduler] = k /\ session'[Api] = session[Api]
  BY CallersAssumption, PendingBecomes DEF Callers
<1>2. (session[Api] # Closed => ApiPart(session[Api], row))'
  BY <1>1 DEF ApiPart, Restarts, WillRetry, Left, ApiList
<1>3. (session[Scheduler] # Closed => RunPart(session[Scheduler], row))'
  BY <1>1 DEF RunPart, RunList, Executes
<1>4. Room(TimesTold("EXECUTING"), Chance(row, session[Api], session[Scheduler]), row)'
  BY <1>1 DEF Chance, Room, Restarts, Left, Ahead, Executes
<1> QED BY <1>2, <1>3, <1>4 DEF Executing

\* A step that writes no row and counts no entry: the room remains when the
\* call that made it has no more ahead than before.
LEMMA ApiOnward ==
  ASSUME Typed, Executing, NEW k, Becomes(Api, k), row' = row,
         TimesTold("EXECUTING")' \in Nat,
         TimesTold("EXECUTING")' <= TimesTold("EXECUTING"),
         k # Closed => ApiPart(k, row),
         k # Closed /\ Restarts(k) =>
           \/ session[Api] # Closed /\ Restarts(session[Api])
           \/ row.state \in {"RECEIVED", "CLASSIFYING"}
  PROVE  Executing'
<1>1. Chance(row', k, session[Scheduler]) => Chance(row, session[Api], session[Scheduler])
  BY DEF Chance
<1>2. TimesTold("EXECUTING") \in Nat /\ row \in Row
  BY ToldCount DEF Typed
<1>3. row.retries <= row.retries
  BY <1>2 DEF Row
<1>4. Room(TimesTold("EXECUTING"), Chance(row, session[Api], session[Scheduler]), row)
  BY DEF Executing
<1>5. Room(TimesTold("EXECUTING")', Chance(row', k, session[Scheduler]), row)
  BY <1>1, <1>2, <1>3, <1>4, RoomKept
<1> QED BY <1>5, ApiBecomes DEF Executing

\* The same of the scheduler.
LEMMA SchedulerOnward ==
  ASSUME Typed, Executing, NEW k, Becomes(Scheduler, k), row' = row,
         TimesTold("EXECUTING")' \in Nat,
         TimesTold("EXECUTING")' <= TimesTold("EXECUTING"),
         k # Closed => RunPart(k, row),
         k # Closed /\ Ahead(Left(k)) =>
           \/ session[Scheduler] # Closed /\ Ahead(Left(session[Scheduler]))
           \/ row.state \in {"RECEIVED", "CLASSIFYING"}
  PROVE  Executing'
<1>1. Chance(row', session[Api], k) => Chance(row, session[Api], session[Scheduler])
  BY DEF Chance
<1>2. TimesTold("EXECUTING") \in Nat /\ row \in Row
  BY ToldCount DEF Typed
<1>3. row.retries <= row.retries
  BY <1>2 DEF Row
<1>4. Room(TimesTold("EXECUTING"), Chance(row, session[Api], session[Scheduler]), row)
  BY DEF Executing
<1>5. Room(TimesTold("EXECUTING")', Chance(row', session[Api], k), row)
  BY <1>1, <1>2, <1>3, <1>4, RoomKept
<1> QED BY <1>5, SchedulerBecomes DEF Executing


\* The API's pauses, resumptions, cancellations and retries leave room: a
\* retry adds an execution and counts a retry.
LEMMA ExecutingApiCommit ==
  ASSUME Typed, Typed', Budgeted, Executing, Commit(Api)
  PROVE  Executing'
<1> DEFINE k == session[Api]
           w == Head(k.todo)
           new == Written(w, k.copy)
           n == [ step |-> "written", copy |-> new, todo |-> k.todo, run |-> k.run,
                  entry |-> Entry(w, k.copy) ]
           times == TimesTold("EXECUTING")
           before == Chance(row, k, session[Scheduler])
           after == Chance(row', n, session[Scheduler])
<1>1. /\ WellFormed(k) /\ k.step # "written" /\ w \in Write /\ w.do \notin Deciding
      /\ Update(w, k.copy, new) /\ Becomes(Api, n) /\ Active(Api) /\ k # Closed
  BY CommitBecomes DEF Commit, At, Callers, Active
<1>2. k.copy \in Row /\ row \in Row /\ row' \in Row
  BY <1>1, TodoWrites DEF Typed
<1>3. new \in Row /\ new.retries = RetriesAfter(w, k.copy) /\ new.state = StateAfter(w, k.copy)
  BY <1>1, <1>2, WrittenRow
<1>4. /\ row'.retries = IF new.retries # k.copy.retries THEN new.retries ELSE row.retries
      /\ row'.state = IF new.state # k.copy.state THEN new.state ELSE row.state
  BY <1>1, <1>2, <1>3, UpdatedRow
<1>5. times \in Nat /\ row.retries \in Nat /\ row'.retries \in Nat /\ k.copy.retries \in Nat
  BY <1>2, ToldCount DEF Row
<1>6. ApiPart(k, row) /\ ApiList(k.todo) /\ ~ k.run
  BY <1>1 DEF Executing, ApiPart
<1>7. session[Scheduler] # Closed => RunPart(session[Scheduler], row)
  BY DEF Executing
<1>8. Room(times, before, row)
  BY DEF Executing
<1>9. ~ Records(w, "EXECUTING")
  <2>1. w.do = "move" => w.to = "RECEIVED"
    BY <1>6, ApiListTail DEF Move
  <2> QED BY <1>6, <2>1, ApiListTail DEF Records, Target
<1>10. times' = times
  <2>1. times' = times + (IF Records(w, "EXECUTING") THEN 1 ELSE 0)
    BY CountCommit DEF Callers
  <2> QED BY <1>5, <1>9, <2>1
<1>11. Left(k) = k.todo /\ Left(n) = Tail(k.todo)
  BY <1>1 DEF Left
<1> HIDE DEF new, times
<1>12. CASE w.do = "retry"
  <2>1. w = Do("retry") /\ WillRetry(k)
    BY <1>1, <1>6, <1>11, <1>12, WriteKinds, ApiListTail DEF WillRetry
  <2>2. row.state = "FAILED" /\ k.copy.state = "FAILED"
    BY <1>6, <2>1 DEF ApiPart
  <2>3. new.state = "RETRY_SCHEDULED"
    BY <1>3, <1>12 DEF StateAfter, Versioned
  <2>4. row'.state = "RETRY_SCHEDULED"
    BY <1>4, <2>2, <2>3
  <2>5. k.copy.retries = row.retries
    BY <1>1, <1>12 DEF Budgeted, CallBudget, Callers
  <2>6. row'.retries = row.retries + 1
    <3>1. new.retries = row.retries + 1
      BY <1>3, <1>12, <2>5 DEF RetriesAfter
    <3> QED BY <1>4, <1>5, <2>5, <3>1
  <2>7. Room(times', after, row')
    BY <1>5, <1>8, <1>10, <2>6 DEF Room
  <2>8. ApiPart(n, row')
    <3>1. ~ WillRetry(n)
      <4>1. Head(Left(n)) = Move("RECEIVED")
        BY <1>6, <1>11, <1>12, ApiListTail
      <4>2. Move("RECEIVED") # Do("retry")
        BY DEF Move, Do
      <4> HIDE DEF n
      <4> QED BY <4>1, <4>2 DEF WillRetry
    <3> QED BY <1>6, <2>4, <3>1 DEF ApiPart
  <2>9. session[Scheduler] # Closed => RunPart(session[Scheduler], row')
    BY <1>7, <2>2 DEF RunPart
  <2> QED BY <1>1, <2>7, <2>8, <2>9, ApiBecomes DEF times
<1>13. CASE w.do # "retry"
  <2>1. Left(n) = << >>
    BY <1>6, <1>11, <1>13, ApiListTail
  <2>2. ~ WillRetry(n) /\ ~ Restarts(n)
    BY <2>1 DEF WillRetry, Restarts
  <2>3. row'.retries = row.retries
    <3>1. new.retries = k.copy.retries
      BY <1>3, <1>13 DEF RetriesAfter
    <3> QED BY <1>4, <3>1
  <2>4. w.do = "move" => Restarts(k) /\ w.to = "RECEIVED" /\ row.state = "RETRY_SCHEDULED"
    BY <1>6, <1>11, ApiListTail DEF Restarts, ApiPart, Move
  <2>5. \/ row'.state = row.state
        \/ row'.state = "CANCELLED"
        \/ row'.state = "RECEIVED" /\ Restarts(k) /\ row.state = "RETRY_SCHEDULED"
    <3>1. CASE w.do = "move"
      <4>1. new.state = "RECEIVED"
        BY <1>3, <2>4, <3>1 DEF StateAfter, Versioned, Target
      <4> QED BY <1>4, <2>4, <3>1, <4>1
    <3>2. CASE w.do = "cancel"
      <4>1. new.state = "CANCELLED"
        BY <1>3, <3>2 DEF StateAfter, Versioned
      <4> QED BY <1>4, <4>1
    <3>3. CASE w.do \in {"pause", "resume"}
      <4>1. new.state = k.copy.state
        BY <1>3, <3>3 DEF StateAfter, Versioned
      <4> QED BY <1>4, <4>1
    <3> QED BY <1>6, <1>13, <3>1, <3>2, <3>3, ApiListTail
  <2>6. ApiPart(n, row')
    BY <1>6, <2>2 DEF ApiPart
  <2>7. session[Scheduler] # Closed => RunPart(session[Scheduler], row')
    BY <1>7, <2>5 DEF RunPart
  <2>8. after => before
    BY <1>1, <2>2, <2>5 DEF Chance
  <2>9. Room(times', after, row')
    <3> HIDE DEF after, before
    <3>1. times' \in Nat /\ times' <= times /\ row.retries <= row'.retries
      BY <1>5, <1>10, <2>3
    <3> QED BY <1>2, <1>5, <1>8, <2>8, <3>1, RoomKept
  <2> QED BY <1>1, <2>6, <2>7, <2>9, ApiBecomes DEF times
<1> QED BY <1>12, <1>13

\* A run that moves the workflow to EXECUTING had it ahead, and has it behind
\* then; one that moves it to CLASSIFYING decides later.
LEMMA ExecutingSchedulerCommit ==
  ASSUME Typed, Typed', Executing, Commit(Scheduler)
  PROVE  Executing'
<1> DEFINE k == session[Scheduler]
           w == Head(k.todo)
           new == Written(w, k.copy)
           n == [ step |-> "written", copy |-> new, todo |-> k.todo, run |-> k.run,
                  entry |-> Entry(w, k.copy) ]
           times == TimesTold("EXECUTING")
           before == Chance(row, session[Api], k)
           after == Chance(row', session[Api], n)
<1>1. /\ WellFormed(k) /\ k.step # "written" /\ w \in Write /\ w.do \notin Deciding
      /\ k.step = "selected" \/ ~ Versioned(w)
      /\ Update(w, k.copy, new) /\ Becomes(Scheduler, n) /\ k # Closed
  BY CommitBecomes DEF Commit, At, Callers, Active
<1>2. k.copy \in Row /\ row \in Row /\ row' \in Row /\ k.todo # << >>
  BY <1>1, TodoWrites DEF Typed, WellFormed
<1>3. new \in Row /\ new.retries = RetriesAfter(w, k.copy) /\ new.state = StateAfter(w, k.copy)
  BY <1>1, <1>2, WrittenRow
<1>4. /\ row'.retries = IF new.retries # k.copy.retries THEN new.retries ELSE row.retries
      /\ row'.state = IF new.state # k.copy.state THEN new.state ELSE row.state
  BY <1>1, <1>2, <1>3, UpdatedRow
<1>5. times \in Nat /\ row.retries \in Nat /\ row'.retries \in Nat
  BY <1>2, ToldCount DEF Row
<1>6. RunList(k.todo) /\ row.state \notin {"FAILED", "RETRY_SCHEDULED"}
  BY <1>1 DEF Executing, RunPart
<1>7. session[Api] # Closed =>
        ApiPart(session[Api], row) /\ ~ WillRetry(session[Api]) /\ ~ Restarts(session[Api])
  BY <1>6 DEF Executing, ApiPart
<1>8. Room(times, before, row)
  BY DEF Executing
<1>9. w \in RunWrite
  BY <1>2, <1>6, RunListTail
<1>10. times' = times + (IF Records(w, "EXECUTING") THEN 1 ELSE 0)
  BY CountCommit DEF Callers
<1>11. Left(k) = k.todo /\ Left(n) = Tail(k.todo)
  BY <1>1 DEF Left
<1> HIDE DEF new, times
<1>12. row'.retries = row.retries
  <2>1. w.do # "retry"
    BY <1>9, RunWriteKinds
  <2>2. new.retries = k.copy.retries
    BY <1>3, <2>1 DEF RetriesAfter
  <2> QED BY <1>4, <2>2
<1>13. \/ row'.state = row.state
       \/ w.do \in {"fail", "force"} /\ row'.state = "FAILED"
       \/ /\ w.do = "move" /\ w = Move(w.to) /\ w.to \in Goals \ {"RECEIVED"}
          /\ row'.state = w.to
  <2>1. CASE w.do = "move"
    <3>1. new.state = w.to
      BY <1>3, <2>1 DEF StateAfter, Versioned, Target
    <3>2. w = Move(w.to) /\ w.to \in Goals \ {"RECEIVED"}
      BY <1>9, <2>1, RunWriteKinds
    <3> QED BY <1>4, <2>1, <3>1, <3>2
  <2>2. CASE w.do \in {"fail", "force"}
    <3>1. new.state = "FAILED"
      BY <1>3, <2>2 DEF StateAfter, Versioned, Target
    <3> QED BY <1>4, <2>2, <3>1
  <2>3. CASE w.do \notin {"move", "fail", "force"}
    <3>1. w.do \notin {"cancel", "retry"}
      BY <1>9, RunWriteKinds
    <3>2. new.state = k.copy.state
      BY <1>3, <2>3, <3>1 DEF StateAfter, Versioned
    <3> QED BY <1>4, <3>2
  <2> QED BY <2>1, <2>2, <2>3
<1>14. session[Api] # Closed => ApiPart(session[Api], row')
  BY <1>7 DEF ApiPart
<1>15. RunPart(n, row')
  <2>1. row'.state \in {"FAILED", "RETRY_SCHEDULED"} => w.do \in {"fail", "force"}
    BY <1>6, <1>13 DEF Goals
  <2>2. w.do \in {"fail", "force"} => Len(k.todo) = 1
    BY <1>2, <1>6, RunListTail
  <2> QED BY <1>6, <2>1, <2>2 DEF RunPart
<1>16. Room(times', after, row')
  <2>1. CASE w = Move("EXECUTING")
    <3>1. Records(w, "EXECUTING") /\ Executes(w)
      BY <2>1 DEF Records, Executes, Move, Target
    <3>2. Ahead(k.todo) /\ ~ Ahead(Tail(k.todo))
      BY <1>2, <1>6, <2>1, <3>1, RunListTail
    <3>3. before
      BY <1>1, <1>11, <3>2 DEF Chance
    <3>4. row'.state = "EXECUTING"
      <4>1. w.do = "move" /\ w.to = "EXECUTING" /\ Versioned(w)
        BY <2>1 DEF Move, Versioned
      <4>2. ValidTransition(k.copy.state, Target(w))
        BY <1>1, <4>1 DEF WellFormed, Passed
      <4>3. k.copy.state # "EXECUTING"
        BY <4>1, <4>2 DEF ValidTransition, Target
      <4>4. new.state = "EXECUTING"
        BY <1>3, <4>1 DEF StateAfter, Target
      <4> QED BY <1>4, <4>3, <4>4
    <3>5. ~ after
      BY <1>7, <1>11, <3>2, <3>4 DEF Chance
    <3> QED BY <1>5, <1>8, <1>10, <1>12, <3>1, <3>3, <3>5 DEF Room
  <2>2. CASE w # Move("EXECUTING")
    <3>1. ~ Records(w, "EXECUTING")
      BY <1>9, <2>2, RunWriteKinds DEF Records, Target
    <3>2. times' = times
      BY <1>5, <1>10, <3>1
    <3>3. ASSUME row'.state \in {"RECEIVED", "CLASSIFYING"} PROVE before
      <4>1. CASE row'.state = row.state
        BY <3>3, <4>1 DEF Chance
      <4>2. CASE row'.state # row.state
        <5>1. w = Move("CLASSIFYING")
          BY <1>13, <3>3, <4>2
        <5>2. Ahead(k.todo)
          BY <1>2, <1>6, <5>1, RunListTail
        <5> QED BY <1>1, <1>11, <5>2 DEF Chance
      <4> QED BY <4>1, <4>2
    <3>4. Ahead(Left(n)) => before
      BY <1>1, <1>2, <1>6, <1>11, RunListTail DEF Chance
    <3>5. after => before
      BY <1>7, <3>3, <3>4 DEF Chance
    <3> HIDE DEF after, before
    <3>6. times' \in Nat /\ times' <= times /\ row.retries <= row'.retries
      BY <1>5, <1>12, <3>2
    <3> QED BY <1>2, <1>5, <1>8, <3>5, <3>6, RoomKept
  <2> QED BY <2>1, <2>2
<1> QED BY <1>1, <1>14, <1>15, <1>16, SchedulerBecomes DEF times


\* The lists that are opened and gone on to have a kind, and no more ahead.
LEMMA ExecutingGoes ==
  ASSUME Typed, Executing, NEW c \in Callers, NEW todo, NEW copy, NEW run,
         Goes(c, todo, copy, run), row' = row,
         TimesTold("EXECUTING")' \in Nat,
         TimesTold("EXECUTING")' <= TimesTold("EXECUTING"),
         c = Api /\ todo # << >> =>
           /\ ApiList(todo) /\ ~ run
           /\ Head(todo) = Do("retry") => row.state = "FAILED" /\ copy.state = "FAILED"
           /\ Head(todo) = Move("RECEIVED") =>
                Active(Api) /\ Restarts(session[Api]),
         c = Scheduler /\ todo # << >> =>
           /\ RunList(todo) /\ row.state \notin {"FAILED", "RETRY_SCHEDULED"}
           /\ Ahead(todo) =>
                \/ Active(Scheduler) /\ Ahead(Left(session[Scheduler]))
                \/ row.state \in {"RECEIVED", "CLASSIFYING"}
  PROVE  Executing'
<1> DEFINE k == IF todo = << >> THEN Closed ELSE Ready(todo, copy, run)
<1>1. Becomes(c, k)
  BY DEF Goes
<1>2. ASSUME k # Closed
      PROVE  /\ todo # << >> /\ k.todo = todo /\ k.copy = copy /\ k.run = run
             /\ Left(k) = todo
  <2>1. todo # << >> /\ k = Ready(todo, copy, run)
    BY <1>2
  <2> QED BY <2>1 DEF Ready, Left
<1> HIDE DEF k
<1>3. CASE c = Api
  <2>1. ASSUME k # Closed PROVE ApiPart(k, row)
    <3>1. Restarts(k) => row.state = "RETRY_SCHEDULED"
      BY <1>2, <1>3, <2>1 DEF Restarts, Executing, ApiPart, Active
    <3> QED BY <1>2, <1>3, <2>1, <3>1 DEF ApiPart, WillRetry
  <2>2. k # Closed /\ Restarts(k) => session[Api] # Closed /\ Restarts(session[Api])
    BY <1>2, <1>3 DEF Restarts, Active
  <2> QED BY <1>1, <1>3, <2>1, <2>2, ApiOnward
<1>4. CASE c = Scheduler
  <2>1. k # Closed => RunPart(k, row)
    BY <1>2, <1>4 DEF RunPart
  <2>2. k # Closed /\ Ahead(Left(k)) =>
          \/ session[Scheduler] # Closed /\ Ahead(Left(session[Scheduler]))
          \/ row.state \in {"RECEIVED", "CLASSIFYING"}
    BY <1>2, <1>4 DEF Active
  <2> QED BY <1>1, <1>4, <2>1, <2>2, SchedulerOnward
<1> QED BY <1>3, <1>4 DEF Callers

\* Every step keeps one execution per attempt, when the scheduler runs and
\* the API retries.
LEMMA ExecutingStep ==
  ASSUME Typed, Budgeted, Executing, Apart, [AnyStep]_vars
  PROVE  Executing'
<1>t. Typed'
  BY TypedStep
<1>n. TimesTold("EXECUTING") \in Nat /\ TimesTold("EXECUTING")' \in Nat /\ row \in Row
  BY <1>t, ToldCount, ToldCountNext DEF Typed
<1>s. ASSUME NEW c \in Callers, ~ Active(c) \/ session[c].step # "written",
             NEW todo, NEW copy, NEW run, Goes(c, todo, copy, run), ledger' = ledger
      PROVE  TimesTold("EXECUTING")' <= TimesTold("EXECUTING")
  <2>1. Pending(c) = << >>
    BY <1>s, NothingPending
  <2>2. TimesTold("EXECUTING")' = TimesTold("EXECUTING")
    BY <1>t, <1>s, <2>1, CountGoes
  <2> QED BY <1>n, <2>2
<1>p. Active(Api) => ApiPart(session[Api], row)
  BY DEF Active, Executing
<1>r. Active(Scheduler) => /\ RunPart(session[Scheduler], row)
                           /\ session[Scheduler].todo # << >>
                           /\ session[Scheduler].todo \in Seq(Write)
  BY TodoWrites DEF Active, Executing, Typed, WellFormed, Callers
<1>c. Callers = {Api, Scheduler} /\ Api # Scheduler
  BY CallersAssumption DEF Callers
<1>1. CASE OpenCall
  <2>1. PICK c \in Callers :
           /\ ~ Active(c) /\ UNCHANGED <<row, ledger>>
           /\ \/ c \in Runners /\ CanRun(row) /\ Goes(c, RunOf(row), row, TRUE)
              \/ /\ c \in Retriers /\ row.state = "FAILED" /\ row.retries < MaxRetries
                 /\ Goes(c, RetryList(c), row, FALSE)
              \/ /\ c = Api /\ ~ IsTerminal(row.state) /\ ~ row.paused
                 /\ Goes(c, <<Do("pause")>>, row, FALSE)
              \/ c = Api /\ row.paused /\ Goes(c, <<Do("resume")>>, row, FALSE)
              \/ /\ c = Api /\ ~ IsTerminal(row.state) /\ ValidTransition(row.state, "CANCELLED")
                 /\ Goes(c, <<Do("cancel")>>, row, FALSE)
    BY <1>1, OpenCallGoes
  <2>2. CASE c \in Runners /\ CanRun(row) /\ Goes(c, RunOf(row), row, TRUE)
    <3>1. c = Scheduler /\ row.state \in {"RECEIVED", "CLASSIFYING"}
      BY <2>2 DEF Apart, CanRun, Resumable
    <3>2. TimesTold("EXECUTING")' <= TimesTold("EXECUTING")
      BY <1>s, <2>1, <2>2
    <3>3. RunList(RunOf(row))
      BY RunListsGoOn
    <3> QED BY <1>c, <1>n, <2>1, <2>2, <3>1, <3>2, <3>3, ExecutingGoes
  <2>3. CASE /\ c \in Retriers /\ row.state = "FAILED"
             /\ Goes(c, RetryList(c), row, FALSE)
    <3>1. c = Api
      BY <2>3 DEF Apart
    <3>2. TimesTold("EXECUTING")' <= TimesTold("EXECUTING")
      BY <1>s, <2>1, <2>3
    <3>3. ApiList(RetryList(Api)) /\ Head(RetryList(Api)) # Move("RECEIVED")
      BY ApiLists DEF Do, Move
    <3> QED BY <1>c, <1>n, <2>1, <2>3, <3>1, <3>2, <3>3, ExecutingGoes
  <2>4. ASSUME NEW x \in {"pause", "resume", "cancel"}, c = Api,
               Goes(c, <<Do(x)>>, row, FALSE)
        PROVE  Executing'
    <3>1. TimesTold("EXECUTING")' <= TimesTold("EXECUTING")
      BY <1>s, <2>1, <2>4
    <3> DEFINE list == <<Do(x)>>
    <3>2. /\ ApiList(list) /\ Head(list) = Do(x)
          /\ Do(x) # Do("retry") /\ Do(x) # Move("RECEIVED")
      BY ApiLists DEF Do, Move
    <3>3. Goes(c, list, row, FALSE)
      BY <2>4
    <3> HIDE DEF list
    <3> QED BY <1>c, <1>n, <2>1, <2>4, <3>1, <3>2, <3>3, ExecutingGoes
  <2> QED BY <2>1, <2>2, <2>3, <2>4
<1>2. ASSUME NEW c \in Callers, Select(c) PROVE Executing'
  <2> DEFINE k == session[c]
             n == [ step |-> "selected", copy |-> k.copy, todo |-> k.todo, run |-> k.run,
                    entry |-> << >> ]
  <2>1. /\ WellFormed(k) /\ k.step = "ready" /\ Becomes(c, n) /\ WellFormed(n)
        /\ UNCHANGED <<row, ledger>> /\ Active(c)
    BY <1>2, SelectBecomes DEF Select, At
  <2>2. n # Closed
    BY <2>1, OngoingIsOpen DEF WellFormed
  <2>3. TimesTold("EXECUTING")' <= TimesTold("EXECUTING")
    <3>1. Pending(c) = << >> /\ Pending(c)' = << >>
      BY <2>1, <2>2, PendingBecomes, NothingPending
    <3>2. Pending(c)' = Pending(c) /\ \A d \in Callers \ {c} : Pending(d)' = Pending(d)
      BY <2>1, <3>1, PendingBecomes
    <3>3. Pending(Api)' = Pending(Api) /\ Pending(Scheduler)' = Pending(Scheduler)
      BY <3>2 DEF Callers
    <3>4. TimesTold("EXECUTING")' = TimesTold("EXECUTING")
      BY <2>1, <3>3 DEF TimesTold, Times, Entering
    <3> QED BY <1>n, <3>4
  <2>4. n.todo = k.todo /\ n.copy = k.copy /\ n.run = k.run /\ Left(n) = Left(k)
        /\ n.step # "written" /\ k.step # "written"
    BY <2>1 DEF Left
  <2>5. Becomes(c, n) /\ row' = row
    BY <2>1
  <2> HIDE DEF n
  <2>6. CASE c = Api
    <3>1. ApiPart(n, row) /\ (Restarts(n) => Restarts(k))
      BY <1>p, <2>1, <2>4, <2>6 DEF ApiPart, Restarts, WillRetry
    <3> QED BY <1>n, <2>1, <2>3, <2>5, <2>6, <3>1, ApiOnward DEF Active
  <2>7. CASE c = Scheduler
    <3>1. RunPart(n, row)
      BY <1>r, <2>1, <2>4, <2>7 DEF RunPart
    <3> QED BY <1>n, <2>1, <2>3, <2>4, <2>5, <2>7, <3>1, SchedulerOnward DEF Active
  <2> QED BY <1>c, <2>6, <2>7
<1>g. ASSUME NEW c \in Callers, Active(c), session[c].step # "written",
             UNCHANGED <<row, ledger>>, NEW todo,
             Goes(c, todo, session[c].copy, session[c].run),
             c = Api => todo = << >>,
             c = Scheduler => RunList(todo) /\ (Ahead(todo) => Ahead(session[c].todo))
      PROVE  Executing'
  <2>1. TimesTold("EXECUTING")' <= TimesTold("EXECUTING")
    BY <1>s, <1>g
  <2>2. c = Scheduler =>
          /\ row.state \notin {"FAILED", "RETRY_SCHEDULED"}
          /\ Left(session[Scheduler]) = session[Scheduler].todo
    BY <1>g, <1>r DEF RunPart, Left
  <2> QED BY <1>g, <1>n, <2>1, <2>2, ExecutingGoes
<1>3. ASSUME NEW c \in Callers, Refuse(c) PROVE Executing'
  <2>1. Active(c) /\ session[c].step # "written" /\ UNCHANGED <<row, ledger>>
    BY <1>3, RefuseGoes DEF Refuse, At
  <2>2. CASE c = Api
    <3>1. Head(session[c].todo).do # "fail" /\ ~ session[c].run
      BY <1>p, <2>1, <2>2, ApiListTail DEF ApiPart
    <3>2. Goes(c, << >>, session[c].copy, session[c].run)
      BY <1>3, <3>1, RefuseGoes
    <3> QED BY <1>c, <1>g, <2>1, <2>2, <3>2
  <2>3. CASE c = Scheduler
    <3>1. \A x \in {"fail", "force"} : RunList(<<Do(x)>>) /\ ~ Ahead(<<Do(x)>>)
      BY RunListsGoOn
    <3>2. RunList(<< >>) /\ ~ Ahead(<< >>)
      BY RunListsGoOn, RunLists DEF RunList
    <3>3. RunList(MarkFailed(c)) /\ ~ Ahead(MarkFailed(c))
      BY <3>1, <3>2 DEF MarkFailed
    <3>4. PICK todo : RunList(todo) /\ ~ Ahead(todo)
                      /\ Goes(c, todo, session[c].copy, session[c].run)
      BY <1>3, <3>1, <3>2, <3>3, RefuseGoes
    <3> QED BY <1>c, <1>g, <2>1, <2>3, <3>4
  <2> QED BY <1>c, <2>2, <2>3
<1>4. ASSUME NEW c \in Callers, Commit(c) PROVE Executing'
  BY <1>c, <1>t, <1>4, ExecutingApiCommit, ExecutingSchedulerCommit
<1>5. ASSUME NEW c \in Callers, Refresh(c) PROVE Executing'
  <2> DEFINE rest == Tail(session[c].todo)
  <2>1. /\ Active(c) /\ row' = row /\ Goes(c, rest, row, session[c].run)
        /\ session[c].step = "written"
    BY <1>5, RefreshGoes DEF Refresh, At
  <2>2. TimesTold("EXECUTING")' <= TimesTold("EXECUTING")
    <3>1. TimesTold("EXECUTING")' = TimesTold("EXECUTING")
      BY <1>t, <1>5, CountRefresh
    <3> QED BY <1>n, <3>1
  <2>3. Left(session[c]) = rest
    BY <2>1 DEF Left
  <2>4. CASE c = Api
    <3>1. ApiPart(session[Api], row)
      BY <1>p, <2>1, <2>4
    <3>2. ASSUME rest # << >>
          PROVE  ApiList(rest) /\ Head(rest) = Move("RECEIVED") /\ Restarts(session[Api])
      BY <2>3, <2>4, <3>1, <3>2, ApiListTail DEF ApiPart, Restarts
    <3>3. Move("RECEIVED") # Do("retry")
      BY DEF Move, Do
    <3>4. ~ session[Api].run
      BY <3>1 DEF ApiPart
    <3> HIDE DEF rest
    <3> QED BY <1>c, <1>n, <2>1, <2>2, <2>4, <3>2, <3>3, <3>4, ExecutingGoes
  <2>5. CASE c = Scheduler
    <3>1. RunPart(session[Scheduler], row) /\ session[Scheduler].todo # << >>
      BY <1>r, <2>1, <2>5
    <3>2. RunList(rest)
      BY <2>5, <3>1, RunListTail DEF RunPart
    <3>3. rest # << >> => row.state \notin {"FAILED", "RETRY_SCHEDULED"}
      <4>1. Len(session[Scheduler].todo) = 1 => rest = << >>
        BY <1>r, <2>1, <2>5, ShortLists
      <4> QED BY <3>1, <4>1 DEF RunPart
    <3> HIDE DEF rest
    <3> QED BY <1>c, <1>n, <2>1, <2>2, <2>3, <2>5, <3>2, <3>3, ExecutingGoes
  <2> QED BY <1>c, <2>4, <2>5
<1>6. ASSUME NEW c \in Callers, Begin(c) PROVE Executing'
  <2>1. Active(c) /\ Head(session[c].todo).do = "run"
    BY <1>6, BeginGoes DEF Begin, At
  <2>2. c # Api
    BY <1>p, <2>1, ApiListTail DEF ApiPart
  <2>3. c # Scheduler
    <3>1. ASSUME c = Scheduler PROVE FALSE
      <4>1. Head(session[c].todo) \in RunWrite
        BY <1>r, <2>1, <3>1, RunListTail DEF RunPart
      <4> QED BY <2>1, <4>1, RunWriteKinds
    <3> QED BY <3>1
  <2> QED BY <1>c, <2>2, <2>3
<1>7. ASSUME NEW c \in Callers, Understand(c) \/ ApplyDecision(c) PROVE Executing'
  <2>1. /\ Active(c) /\ session[c].step # "written" /\ UNCHANGED <<row, ledger>>
        /\ Head(session[c].todo).do \in {"understand", "decide"}
    BY <1>7, DecidingGoes DEF Understand, ApplyDecision, At
  <2>2. c = Scheduler
    <3>1. c # Api
      BY <1>p, <2>1, ApiListTail DEF ApiPart
    <3> QED BY <1>c, <3>1
  <2>3. RunList(session[c].todo) /\ session[c].todo # << >>
    BY <1>r, <2>1, <2>2 DEF RunPart
  <2>4. ASSUME Head(session[c].todo).do = "understand",
               NEW todo \in Understandings(Tail(session[c].todo)),
               Goes(c, todo, session[c].copy, session[c].run)
        PROVE  Executing'
    <3>1. RunList(todo) /\ (Ahead(todo) => Ahead(session[c].todo))
      BY <2>3, <2>4, RunListTail, RunListsGoOn
    <3> QED BY <1>c, <1>g, <2>1, <2>2, <2>4, <3>1
  <2>5. ASSUME Head(session[c].todo).do = "decide", NEW todo \in Decisions,
               Goes(c, todo, session[c].copy, session[c].run)
        PROVE  Executing'
    <3>1. Executes(Head(session[c].todo))
      <4>1. Head(session[c].todo) \in RunWrite
        BY <2>3, RunListTail
      <4> QED BY <2>5, <4>1, RunWriteKinds DEF Executes
    <3>2. RunList(todo) /\ Ahead(session[c].todo)
      BY <2>3, <2>5, <3>1, RunListTail, RunListsGoOn
    <3> QED BY <1>c, <1>g, <2>1, <2>2, <2>5, <3>2
  <2> QED BY <1>7, <2>4, <2>5, DecidingGoes
<1>8. ASSUME NEW c \in Callers, Raise(c) PROVE Executing'
  <2>1. /\ Active(c) /\ session[c].step # "written" /\ UNCHANGED <<row, ledger>>
        /\ session[c].run /\ Goes(c, MarkFailed(c), session[c].copy, session[c].run)
    BY <1>8, RaiseGoes DEF Raise, At
  <2>2. c = Scheduler
    BY <1>c, <1>p, <2>1 DEF ApiPart
  <2>3. RunList(MarkFailed(c)) /\ ~ Ahead(MarkFailed(c))
    BY RunListsGoOn, RunLists DEF RunList, MarkFailed
  <2> QED BY <1>c, <1>g, <2>1, <2>2, <2>3
<1>9. ASSUME NEW c \in Callers, Abandon(c) PROVE Executing'
  <2>1. Becomes(c, Closed) /\ row' = row
    BY <1>9 DEF Abandon, Becomes
  <2>2. TimesTold("EXECUTING")' <= TimesTold("EXECUTING")
    BY <1>t, <1>9, CountAbandon
  <2> QED BY <1>c, <1>n, <2>1, <2>2, ApiOnward, SchedulerOnward
<1>10. CASE UNCHANGED vars
  <2>1. /\ row' = row /\ ledger' = ledger /\ session' = session
    BY <1>10 DEF vars
  <2>2. TimesTold("EXECUTING")' <= TimesTold("EXECUTING")
    <3>1. TimesTold("EXECUTING")' = TimesTold("EXECUTING")
      BY <2>1 DEF TimesTold, Times, Entering, Pending, Active
    <3> QED BY <1>n, <3>1
  <2>3. Becomes(Api, session[Api])
    BY <2>1, <1>c DEF Becomes, Typed
  <2> QED BY <1>n, <1>p, <2>1, <2>2, <2>3, ApiOnward DEF Active
<1> QED BY <1>1, <1>2, <1>3, <1>4, <1>5, <1>6, <1>7, <1>8, <1>9, <1>10
        DEF AnyStep, Next, Step

\* An attempt at a workflow executes its action once, wherever a call is
\* abandoned and whatever the interleaving, when the scheduler runs the
\* workflows and the API retries, pauses, resumes and cancels them.
THEOREM SessionExecutesOncePerAttempt ==
  ASSUME Apart
  PROVE  CrashSpec => []ExecutedOncePerAttempt
<1>1. OneRetrier
  BY DEF Apart, OneRetrier
<1>2. Typed /\ Budgeted /\ [Next \/ \E c \in Callers : Abandon(c)]_vars => Budgeted'
  BY <1>1, BudgetStep DEF AnyStep
<1>3. Typed /\ Budgeted /\ Executing /\ [Next \/ \E c \in Callers : Abandon(c)]_vars
        => Executing'
  BY ExecutingStep DEF AnyStep
<1>4. Typed /\ Executing => ExecutedOncePerAttempt
  <2> SUFFICES ASSUME Typed, Executing PROVE ExecutedOncePerAttempt
    OBVIOUS
  <2>1. Cardinality({i \in 1 .. Len(Told) : Told[i].to = "EXECUTING"})
          = TimesTold("EXECUTING")
    BY ToldCount DEF Times, Entering
  <2>2. TimesTold("EXECUTING") \in Nat /\ row.retries \in Nat
    BY ToldCount DEF Typed, Row
  <2>3. TimesTold("EXECUTING") <= 1 + row.retries
    BY <2>2 DEF Executing, Room
  <2> QED BY <2>1, <2>3 DEF ExecutedOncePerAttempt
<1> QED BY <1>2, <1>3, <1>4, BudgetInit, ExecutingInit, TypedAlways, PTL DEF CrashSpec


-----------------------------------------------------------------------------
(***************************************************************************)
(* Calls that do not overlap (SerialSpec), whoever runs and retries.       *)
(***************************************************************************)

\* A row that no run has to move on.
AtRest(r) == r.state \notin RunStates \/ Resumable(r)

\* The writes that a list reaches only when the workflow is at rest.
Idle == {"pause", "hold", "resume", "cancel", "retry", "run"}

\* The shape of the lists of calls: before the last write they neither stop
\* the workflow nor end it, the last one brings it to rest or decides, and
\* what waits for it to be at rest follows a move that brings it there.
Sound(list) ==
  \A i \in 1 .. Len(list) :
    /\ i < Len(list) => list[i].do \notin {"pause", "hold", "cancel"}
    /\ i < Len(list) /\ list[i].do = "move" => ~ IsTerminal(list[i].to)
    /\ i = Len(list) =>
         /\ list[i].do \notin {"intent", "understand"}
         /\ list[i].do = "move" => list[i].to \notin RunStates
    /\ i > 1 => list[i].do \notin {"resume", "cancel", "retry"}
    /\ i > 1 /\ list[i].do \in Idle =>
         list[i - 1].do = "move" /\ list[i - 1].to \notin RunStates

\* A list of a call that is not a run leaves the workflow at rest.
Calm(list) ==
  \A i \in 1 .. Len(list) :
    list[i] = Move("RECEIVED") \/ list[i].do \in {"pause", "resume", "cancel", "retry", "run"}

\* What a call that has `list` left finds in the row.
Stands(list, run, r) ==
  /\ Sound(list)
  /\ ~ run => AtRest(r) /\ Calm(list)
  /\ list = << >> => AtRest(r)
  /\ list # << >> =>
       /\ run => ~ r.paused /\ ~ IsTerminal(r.state)
       /\ Head(list).do \in Idle => AtRest(r)
       /\ Head(list).do = "resume" => r.paused
       /\ Head(list).do = "cancel" => ~ IsTerminal(r.state) /\ ValidTransition(r.state, "CANCELLED")
       /\ Head(list).do = "retry" => r.state = "FAILED" /\ r.retries < MaxRetries

\* One call at a time, which knows the row as it is; without one, the
\* workflow rests.
Serial ==
  /\ OneAtATime
  /\ (\A c \in Callers : session[c] = Closed) => AtRest(row)
  /\ \A c \in Callers : session[c] # Closed =>
       /\ session[c].copy = row
       /\ Stands(Left(session[c]), session[c].run, row)

\* What the shape says of the head of a list, and leaves of its tail.
LEMMA SoundTail ==
  ASSUME NEW list \in Seq(Write), list # << >>, Sound(list)
  PROVE  LET w == Head(list)
             rest == Tail(list)
         IN  /\ Sound(rest)
             /\ w.do \in {"pause", "hold", "cancel"} => rest = << >>
             /\ w.do = "move" /\ rest # << >> => ~ IsTerminal(w.to)
             /\ w.do = "move" /\ rest = << >> => w.to \notin RunStates
             /\ w.do \in {"intent", "understand"} => rest # << >>
             /\ rest # << >> => Head(rest).do \notin {"resume", "cancel", "retry"}
             /\ rest # << >> /\ Head(rest).do \in Idle => w.do = "move" /\ w.to \notin RunStates
             /\ Calm(list) => Calm(rest)
             /\ Calm(list) => w = Move("RECEIVED") \/ w.do \in {"pause", "resume", "cancel", "retry", "run"}
<1> DEFINE w == Head(list)
           rest == Tail(list)
           n == Len(list)
<1>1. /\ n \in Nat /\ n >= 1 /\ w = list[1] /\ rest \in Seq(Write) /\ Len(rest) = n - 1
      /\ \A i \in 1 .. n - 1 : rest[i] = list[i + 1]
      /\ rest = << >> <=> n = 1
      /\ rest # << >> => Head(rest) = list[2] /\ n >= 2
  <2>1. /\ n \in Nat /\ n >= 1 /\ w = list[1] /\ rest \in Seq(Write) /\ Len(rest) = n - 1
        /\ \A i \in 1 .. n - 1 : rest[i] = list[i + 1]
    BY HeadTailProperties, EmptySeq
  <2> HIDE DEF rest, n
  <2>2. rest = << >> <=> Len(rest) = 0
    BY <2>1, EmptySeq
  <2>3. rest # << >> => n >= 2
    BY <2>1, <2>2
  <2>4. rest # << >> => Head(rest) = rest[1] /\ rest[1] = list[1 + 1]
    BY <2>1, <2>3
  <2> QED BY <2>1, <2>2, <2>3, <2>4
<1>2. \A i \in 1 .. n :
        /\ i < n => list[i].do \notin {"pause", "hold", "cancel"}
        /\ i < n /\ list[i].do = "move" => ~ IsTerminal(list[i].to)
        /\ i = n =>
             /\ list[i].do \notin {"intent", "understand"}
             /\ list[i].do = "move" => list[i].to \notin RunStates
        /\ i > 1 => list[i].do \notin {"resume", "cancel", "retry"}
        /\ i > 1 /\ list[i].do \in Idle =>
             list[i - 1].do = "move" /\ list[i - 1].to \notin RunStates
  BY DEF Sound
<1>3. Calm(list) => \A i \in 1 .. n :
        list[i] = Move("RECEIVED") \/ list[i].do \in {"pause", "resume", "cancel", "retry", "run"}
  BY DEF Calm
<1> HIDE DEF w, rest, n
<1>4. ASSUME NEW i \in 1 .. n - 1
      PROVE  /\ i < n - 1 => rest[i].do \notin {"pause", "hold", "cancel"}
             /\ i < n - 1 /\ rest[i].do = "move" => ~ IsTerminal(rest[i].to)
             /\ i = n - 1 =>
                  /\ rest[i].do \notin {"intent", "understand"}
                  /\ rest[i].do = "move" => rest[i].to \notin RunStates
             /\ i > 1 => rest[i].do \notin {"resume", "cancel", "retry"}
             /\ i > 1 /\ rest[i].do \in Idle =>
                  rest[i - 1].do = "move" /\ rest[i - 1].to \notin RunStates
  <2> DEFINE j == i + 1
  <2>1. /\ j \in 1 .. n /\ j > 1 /\ rest[i] = list[j] /\ j - 1 = i
        /\ i < n - 1 <=> j < n
        /\ i = n - 1 <=> j = n
    BY <1>1
  <2>2. i > 1 => i - 1 \in 1 .. n - 1 /\ rest[i - 1] = list[i]
    <3>1. i > 1 => i - 1 \in 1 .. n - 1 /\ (i - 1) + 1 = i
      BY <1>1
    <3> QED BY <1>1, <3>1
  <2> HIDE DEF j
  <2>3. /\ j < n => list[j].do \notin {"pause", "hold", "cancel"}
        /\ j < n /\ list[j].do = "move" => ~ IsTerminal(list[j].to)
        /\ j = n =>
             /\ list[j].do \notin {"intent", "understand"}
             /\ list[j].do = "move" => list[j].to \notin RunStates
        /\ list[j].do \notin {"resume", "cancel", "retry"}
        /\ list[j].do \in Idle => list[i].do = "move" /\ list[i].to \notin RunStates
    BY <1>2, <2>1
  <2> QED BY <2>1, <2>2, <2>3
<1>5. Sound(rest)
  BY <1>1, <1>4 DEF Sound
<1>6. Calm(list) => Calm(rest)
  <2>1. \A i \in 1 .. n - 1 : i + 1 \in 1 .. n
    BY <1>1
  <2> QED BY <1>1, <1>3, <2>1 DEF Calm
<1>7. 1 \in 1 .. n /\ (rest # << >> => 2 \in 1 .. n /\ 1 < n /\ 2 - 1 = 1)
  BY <1>1
<1>8. /\ w.do \in {"pause", "hold", "cancel"} => rest = << >>
      /\ w.do = "move" /\ rest # << >> => ~ IsTerminal(w.to)
      /\ w.do = "move" /\ rest = << >> => w.to \notin RunStates
      /\ w.do \in {"intent", "understand"} => rest # << >>
  BY <1>1, <1>2, <1>7
<1>9. rest # << >> =>
        /\ Head(rest).do \notin {"resume", "cancel", "retry"}
        /\ Head(rest).do \in Idle => w.do = "move" /\ w.to \notin RunStates
  <2>1. rest # << >> =>
          /\ list[2].do \notin {"resume", "cancel", "retry"}
          /\ list[2].do \in Idle => list[2 - 1].do = "move" /\ list[2 - 1].to \notin RunStates
    BY <1>2, <1>7
  <2> QED BY <1>1, <1>7, <2>1
<1>10. Calm(list) => w = Move("RECEIVED") \/ w.do \in {"pause", "resume", "cancel", "retry", "run"}
  BY <1>1, <1>3, <1>7
<1> QED BY <1>5, <1>6, <1>8, <1>9, <1>10 DEF w, rest

\* Lists of moves and decisions.
Moving(list, n) ==
  \A i \in 1 .. n :
    \/ /\ list[i].do = "move"
       /\ i < n => ~ IsTerminal(list[i].to)
       /\ i = n => list[i].to \notin RunStates
    \/ list[i].do \in {"intent", "understand"} /\ i < n
    \/ list[i].do = "decide"

\* They have that shape.
LEMMA MovingSound ==
  ASSUME NEW list, NEW n \in Nat, n >= 1, Len(list) = n, Moving(list, n)
  PROVE  Sound(list)
BY DEF Moving, Sound, Idle

\* The lists that calls are opened with and go on to have that shape.
LEMMA SoundLists ==
  /\ Sound(<< >>) /\ \A r : Sound(RunOf(r))
  /\ \A x \in Plain \ {"intent", "understand"} : Sound(<<Do(x)>>)
  /\ \A x \in {"pause", "resume", "cancel"} : Calm(<<Do(x)>>)
  /\ \A c \in Callers : Sound(RetryList(c)) /\ Calm(RetryList(c))
  /\ \A list \in Decisions : Sound(list)
  /\ Sound(<<Move("NEEDS_CLARIFICATION"), Do("pause")>>)
<1>1. Sound(<< >>)
  BY DEF Sound
<1>2. ASSUME NEW x \in Plain \ {"intent", "understand"}
      PROVE  Sound(<<Do(x)>>) /\ (x \in {"pause", "resume", "cancel"} => Calm(<<Do(x)>>))
  <2> DEFINE list == <<Do(x)>>
  <2>1. Len(list) = 1 /\ list[1] = Do(x) /\ \A i \in 1 .. 1 : i = 1
    OBVIOUS
  <2>2. Do(x).do = x /\ x # "move"
    BY DEF Do, Plain
  <2> HIDE DEF list
  <2>3. Sound(list)
    BY <2>1, <2>2, <1>2 DEF Sound
  <2>4. x \in {"pause", "resume", "cancel"} => Calm(list)
    BY <2>1, <2>2 DEF Calm
  <2> QED BY <2>3, <2>4 DEF list
<1>4. Sound(RunFromContext)
  <2>1. \A i \in 1 .. 7 : i = 1 \/ i = 2 \/ i = 3 \/ i = 4 \/ i = 5 \/ i = 6 \/ i = 7
    OBVIOUS
  <2>2. \A i \in 1 .. 7 : \/ RunFromContext[i].do = "move" /\ i < 7
                             /\ ~ IsTerminal(RunFromContext[i].to)
                          \/ RunFromContext[i].do = "decide"
    BY <2>1, ContextWrites DEF Move, Do, IsTerminal, TERMINAL_STATES
  <2>3. Len(RunFromContext) = 7
    BY ContextWrites
  <2>4. Moving(RunFromContext, 7)
    BY <2>2 DEF Moving
  <2>5. 7 \in Nat /\ 7 >= 1
    OBVIOUS
  <2> QED BY <2>3, <2>4, <2>5, MovingSound, Zenon
<1>5. Sound(RunScript)
  <2>1. \A i \in 1 .. 7 : i = 1 \/ i = 2 \/ i = 3 \/ i = 4 \/ i = 5 \/ i = 6 \/ i = 7
    OBVIOUS
  <2>2. \A i \in 1 .. 7 : \/ RunFromContext[i].do = "move" /\ i < 7
                             /\ ~ IsTerminal(RunFromContext[i].to)
                          \/ RunFromContext[i].do = "decide"
    BY <2>1, ContextWrites DEF Move, Do, IsTerminal, TERMINAL_STATES
  <2>3. ASSUME NEW i \in 6 .. 12
        PROVE  \/ RunScript[i].do = "move" /\ i < 12 /\ ~ IsTerminal(RunScript[i].to)
               \/ RunScript[i].do = "decide"
    <3>1. RunScript[i] = RunFromContext[i - 5] /\ i - 5 \in 1 .. 7 /\ (i - 5 < 7 => i < 12)
      BY RunWrites
    <3> QED BY <3>1, <2>2
  <2>4. \A i \in 1 .. 5 : i = 1 \/ i = 2 \/ i = 3 \/ i = 4 \/ i = 5
    OBVIOUS
  <2>5. \A i \in 1 .. 5 : \/ RunScript[i].do = "move" /\ ~ IsTerminal(RunScript[i].to)
                          \/ RunScript[i].do \in {"intent", "understand"}
    BY <2>4, RunWrites DEF Move, Do, IsTerminal, TERMINAL_STATES
  <2>6. Len(RunScript) = 12
    BY RunWrites
  <2>7. ASSUME NEW i \in 1 .. 12
        PROVE  \/ RunScript[i].do = "move" /\ i < 12 /\ ~ IsTerminal(RunScript[i].to)
               \/ RunScript[i].do \in {"intent", "understand", "decide"} /\ i < 12
               \/ RunScript[i].do = "decide"
    <3>1. i \in 1 .. 5 \/ i \in 6 .. 12
      OBVIOUS
    <3>2. i \in 1 .. 5 => i < 12
      OBVIOUS
    <3> QED BY <2>3, <2>5, <3>1, <3>2
  <2>8. Moving(RunScript, 12)
    BY <2>7 DEF Moving
  <2>9. 12 \in Nat /\ 12 >= 1
    OBVIOUS
  <2> QED BY <2>6, <2>8, <2>9, MovingSound, Zenon
<1>6. \A r : Sound(RunOf(r))
  BY <1>4, <1>5 DEF RunOf
<1>7. ASSUME NEW c \in Callers PROVE Sound(RetryList(c)) /\ Calm(RetryList(c))
  <2> DEFINE n == IF c = Scheduler THEN 3 ELSE 2
             list == RetryList(c)
  <2>1. /\ Len(list) = n /\ list[1] = Do("retry") /\ list[2] = Move("RECEIVED")
        /\ n = 3 => list[3] = Do("run")
        /\ n = 2 \/ n = 3
    BY RetryWrites
  <2>2. /\ Do("retry").do = "retry" /\ Do("run").do = "run" /\ Move("RECEIVED").do = "move"
        /\ Move("RECEIVED").to = "RECEIVED" /\ ~ IsTerminal("RECEIVED")
        /\ "RECEIVED" \notin RunStates
    BY DEF Do, Move, IsTerminal, TERMINAL_STATES, RunStates
  <2> HIDE DEF n, list
  <2>3. \A i \in 1 .. n : i = 1 \/ i = 2 \/ (i = 3 /\ n = 3)
    BY <2>1
  <2>4. Calm(list)
    BY <2>1, <2>2, <2>3 DEF Calm
  <2>5. Sound(list)
    <3>1. CASE n = 2
      <4>1. \A i \in 1 .. 2 : i = 1 \/ i = 2
        OBVIOUS
      <4> QED BY <2>1, <2>2, <3>1, <4>1 DEF Sound, Idle
    <3>2. CASE n = 3
      <4>1. \A i \in 1 .. 3 : i = 1 \/ i = 2 \/ i = 3
        OBVIOUS
      <4> QED BY <2>1, <2>2, <3>2, <4>1 DEF Sound, Idle
    <3> QED BY <2>1, <3>1, <3>2
  <2> QED BY <2>4, <2>5 DEF list
<1>8. ASSUME NEW list, Len(list) = 2, NEW s, list[1] = Move(s), NEW x \in {"hold", "pause"},
             list[2] = Do(x), ~ IsTerminal(s), s \notin RunStates
      PROVE  Sound(list)
  <2>1. Move(s).do = "move" /\ Move(s).to = s /\ Do(x).do = x
    BY DEF Move, Do
  <2>2. \A i \in 1 .. 2 : i = 1 \/ i = 2
    OBVIOUS
  <2> QED BY <1>8, <2>1, <2>2 DEF Sound, Idle
<1>9. Sound(<<Move("NEEDS_CLARIFICATION"), Do("pause")>>)
  <2>1. /\ Len(<<Move("NEEDS_CLARIFICATION"), Do("pause")>>) = 2
        /\ <<Move("NEEDS_CLARIFICATION"), Do("pause")>>[1] = Move("NEEDS_CLARIFICATION")
        /\ <<Move("NEEDS_CLARIFICATION"), Do("pause")>>[2] = Do("pause")
    OBVIOUS
  <2> QED BY <1>8, <2>1 DEF IsTerminal, TERMINAL_STATES, RunStates
<1>10. ASSUME NEW list \in Decisions PROVE Sound(list)
  <2>1. ASSUME NEW x, list = <<Move(x)>>, x \in {"DENIED", "ESCALATED"}
        PROVE  Sound(list)
    <3>1. Len(list) = 1 /\ list[1] = Move(x) /\ \A i \in 1 .. 1 : i = 1
      BY <2>1
    <3>2. Move(x).do = "move" /\ Move(x).to = x /\ x \notin RunStates
      BY <2>1 DEF Move, RunStates
    <3>3. Moving(list, 1)
      BY <3>1, <3>2 DEF Moving
    <3>4. 1 \in Nat /\ 1 >= 1
      OBVIOUS
    <3> QED BY <3>1, <3>3, <3>4, MovingSound, Zenon
  <2>2. CASE list = <<Move("WAITING_FOR_APPROVAL"), Do("hold")>>
    <3>1. Len(list) = 2 /\ list[1] = Move("WAITING_FOR_APPROVAL") /\ list[2] = Do("hold")
      BY <2>2
    <3> QED BY <1>8, <3>1 DEF IsTerminal, TERMINAL_STATES, RunStates
  <2>3. CASE list = Moves(<<"EXECUTING", "VERIFYING", "COMPLETED">>)
    <3> DEFINE states == <<"EXECUTING", "VERIFYING", "COMPLETED">>
    <3>1. /\ states \in Seq(Goals) /\ Len(states) = 3
          /\ states[1] = "EXECUTING" /\ states[2] = "VERIFYING" /\ states[3] = "COMPLETED"
      BY DEF Goals, WorkflowState
    <3> HIDE DEF states
    <3>2. Len(list) = 3 /\ \A i \in 1 .. 3 : list[i] = Move(states[i])
      <4>1. Len(Moves(states)) = 3 /\ \A i \in 1 .. 3 : Moves(states)[i] = Move(states[i])
        BY <3>1, MovesList
      <4> QED BY <2>3, <4>1 DEF states
    <3>3. \A i \in 1 .. 3 : i = 1 \/ i = 2 \/ i = 3
      OBVIOUS
    <3>4. /\ \A x : Move(x).do = "move" /\ Move(x).to = x
          /\ ~ IsTerminal("EXECUTING") /\ ~ IsTerminal("VERIFYING") /\ "COMPLETED" \notin RunStates
      BY DEF Move, IsTerminal, TERMINAL_STATES, RunStates
    <3>5. Moving(list, 3)
      BY <3>1, <3>2, <3>3, <3>4 DEF Moving
    <3>6. 3 \in Nat /\ 3 >= 1
      OBVIOUS
    <3> QED BY <3>2, <3>5, <3>6, MovingSound, Zenon
  <2> QED BY <2>1, <2>2, <2>3 DEF Decisions
<1>11. {"pause", "resume", "cancel"} \subseteq Plain \ {"intent", "understand"}
  BY DEF Plain
<1> QED BY <1>1, <1>2, <1>6, <1>7, <1>9, <1>10, <1>11


\* A row as the service knows it, column by column.
Known(s, p, h, n, d, i) ==
  [ state |-> s, previous |-> p, paused |-> h, retries |-> n, completed |-> d, intent |-> i ]

\* Columns of it written.
Ended(u, x, y, z)   == [u EXCEPT !.previous = x, !.state = y, !.completed = z]
Counted(u, x, y, z) == [u EXCEPT !.previous = x, !.state = y, !.retries = z]
Held(u, x)          == [u EXCEPT !.paused = x]
Intended(u, x)      == [u EXCEPT !.intent = x]

\* They are what was written.
LEMMA KnownWritten ==
  ASSUME NEW s, NEW p, NEW h, NEW n, NEW d, NEW i, NEW x, NEW y, NEW z,
         NEW u, u = Known(s, p, h, n, d, i)
  PROVE  /\ Ended(u, x, y, z) = Known(y, x, h, n, z, i)
         /\ Counted(u, x, y, z) = Known(y, x, h, z, d, i)
<1>1. u = [ state |-> s, previous |-> p, paused |-> h, retries |-> n, completed |-> d,
            intent |-> i ]
  BY DEF Known
<1> DEFINE a == [u EXCEPT !.previous = x]
           b == [a EXCEPT !.state = y]
           e == [b EXCEPT !.completed = z]
           f == [b EXCEPT !.retries = z]
<1>2. a = [ state |-> s, previous |-> x, paused |-> h, retries |-> n, completed |-> d,
            intent |-> i ]
  BY <1>1
<1>3. Ended(u, x, y, z) = e /\ Counted(u, x, y, z) = f
  BY DEF Ended, Counted
<1> HIDE DEF a
<1>4. b = [ state |-> y, previous |-> x, paused |-> h, retries |-> n, completed |-> d,
            intent |-> i ]
  BY <1>2
<1> HIDE DEF b
<1>5. e = Known(y, x, h, n, z, i)
  BY <1>4 DEF Known
<1>6. f = Known(y, x, h, z, d, i)
  BY <1>4 DEF Known
<1> QED BY <1>3, <1>5, <1>6

\* The pause written.
LEMMA KnownHeld ==
  ASSUME NEW s, NEW p, NEW h, NEW n, NEW d, NEW i, NEW x, NEW u, u = Known(s, p, h, n, d, i)
  PROVE  Held(u, x) = Known(s, p, x, n, d, i)
<1>1. u = [ state |-> s, previous |-> p, paused |-> h, retries |-> n, completed |-> d,
            intent |-> i ]
  BY DEF Known
<1> QED BY <1>1 DEF Known, Held

\* The intent written.
LEMMA KnownIntended ==
  ASSUME NEW s, NEW p, NEW h, NEW n, NEW d, NEW i, NEW x, NEW u, u = Known(s, p, h, n, d, i)
  PROVE  Intended(u, x) = Known(s, p, h, n, d, x)
<1>1. u = [ state |-> s, previous |-> p, paused |-> h, retries |-> n, completed |-> d,
            intent |-> i ]
  BY DEF Known
<1> QED BY <1>1 DEF Known, Intended

\* The copy, without its version, is what the service's operation writes.
LEMMA WrittenUnversioned ==
  ASSUME NEW w \in Write, w.do \notin Deciding, NEW r \in Row
  PROVE  LET u == Unversioned(r)
             v == Unversioned(Written(w, r))
         IN  /\ Versioned(w) => v = Service!MovedTo(u, Target(w))
             /\ w.do \in {"pause", "hold"} => v = Service!Paused(u)
             /\ w.do = "resume" => v = Service!Resumed(u)
             /\ w.do = "cancel" => v = Service!Cancelled(u)
             /\ w.do = "retry" => v = Service!RetryScheduled(u)
             /\ w.do = "intent" => v = [u EXCEPT !.intent = TRUE]
<1> DEFINE u == Unversioned(r)
<1>0. ASSUME NEW q \in Row
      PROVE  Unversioned(q) =
               Known(q.state, q.previous, q.paused, q.retries, q.completed, q.intent)
  BY UnversionedRow DEF Known
<1>1. /\ u = Known(r.state, r.previous, r.paused, r.retries, r.completed, r.intent)
      /\ u.state = r.state /\ u.retries = r.retries /\ u.completed = r.completed
  <2>1. u = Known(r.state, r.previous, r.paused, r.retries, r.completed, r.intent)
    BY <1>0
  <2> HIDE DEF u
  <2> QED BY <2>1 DEF Known
<1> HIDE DEF u
<1>2. ASSUME NEW q \in Row PROVE Unversioned(Bumped(q)) = Unversioned(q)
  BY <1>0, BumpedRow
<1>3. ASSUME NEW to \in WorkflowState
      PROVE  Unversioned(Service!MovedTo(r, to)) = Service!MovedTo(u, to)
  <2> DEFINE q == Service!MovedTo(r, to)
             d == r.completed \/ to \in Service!CompletingStates
             e == u.completed \/ to \in Service!CompletingStates
  <2>1. /\ q \in Row /\ q.state = to /\ q.previous = r.state /\ q.paused = r.paused
        /\ q.retries = r.retries /\ q.completed = d /\ q.intent = r.intent
    <3>1. q \in Row
      BY MovedRow
    <3>2. /\ q.state = to /\ q.previous = r.state /\ q.paused = r.paused
          /\ q.retries = r.retries /\ q.intent = r.intent
      BY DEF Service!MovedTo, Row
    <3>3. q.completed = d
      BY DEF Service!MovedTo, Row
    <3> QED BY <3>1, <3>2, <3>3
  <2>2. Service!MovedTo(u, to) = Ended(u, r.state, to, d)
    <3>1. d = e
      BY <1>1
    <3>2. Service!MovedTo(u, to) = Ended(u, u.state, to, e)
      BY DEF Service!MovedTo, Ended
    <3> HIDE DEF d, e
    <3> QED BY <1>1, <3>1, <3>2
  <2> HIDE DEF q, d
  <2>3. Unversioned(q) = Known(to, r.state, r.paused, r.retries, d, r.intent)
    BY <1>0, <2>1
  <2>4. Service!MovedTo(u, to) = Known(to, r.state, r.paused, r.retries, d, r.intent)
    BY <1>1, <2>2, KnownWritten
  <2> QED BY <2>3, <2>4 DEF q
<1>4. /\ Unversioned(Service!Paused(r)) = Service!Paused(u)
      /\ Unversioned(Service!Resumed(r)) = Service!Resumed(u)
      /\ Unversioned([r EXCEPT !.intent = TRUE]) = [u EXCEPT !.intent = TRUE]
  <2> DEFINE yes == TRUE
             no == FALSE
             a == [r EXCEPT !.paused = yes]
             b == [r EXCEPT !.paused = no]
             d == [r EXCEPT !.intent = yes]
  <2>1. a \in Row /\ b \in Row /\ d \in Row
    BY HeldRow DEF Service!Paused, Service!Resumed
  <2>2. ASSUME NEW x
        PROVE  /\ Held(u, x) =
                    Known(r.state, r.previous, x, r.retries, r.completed, r.intent)
               /\ Intended(u, x) =
                    Known(r.state, r.previous, r.paused, r.retries, r.completed, x)
    <3>1. Held(u, x) = Known(r.state, r.previous, x, r.retries, r.completed, r.intent)
      BY <1>1, KnownHeld
    <3>2. Intended(u, x) = Known(r.state, r.previous, r.paused, r.retries, r.completed, x)
      BY <1>1, KnownIntended
    <3> QED BY <3>1, <3>2
  <2> HIDE DEF yes, no
  <2>3. /\ a.state = r.state /\ a.previous = r.previous /\ a.paused = yes
        /\ a.retries = r.retries /\ a.completed = r.completed /\ a.intent = r.intent
        /\ b.state = r.state /\ b.previous = r.previous /\ b.paused = no
        /\ b.retries = r.retries /\ b.completed = r.completed /\ b.intent = r.intent
        /\ d.state = r.state /\ d.previous = r.previous /\ d.paused = r.paused
        /\ d.retries = r.retries /\ d.completed = r.completed /\ d.intent = yes
    BY DEF Row
  <2> HIDE DEF a, b, d
  <2>4. /\ Unversioned(a) = Held(u, yes)
        /\ Unversioned(b) = Held(u, no)
        /\ Unversioned(d) = Intended(u, yes)
    BY <1>0, <2>1, <2>2, <2>3
  <2> QED BY <2>4 DEF a, b, d, yes, no, Service!Paused, Service!Resumed, Held, Intended
<1>5. Unversioned(Service!Cancelled(r)) = Service!Cancelled(u)
  <2> DEFINE yes == TRUE
             q == [r EXCEPT !.previous = r.state, !.state = "CANCELLED", !.completed = yes]
  <2>1. q \in Row
    BY HeldRow DEF Service!Cancelled
  <2> HIDE DEF yes
  <2>2. /\ q.state = "CANCELLED" /\ q.previous = r.state /\ q.paused = r.paused
        /\ q.retries = r.retries /\ q.completed = yes /\ q.intent = r.intent
    BY DEF Row
  <2> HIDE DEF q
  <2>3. Unversioned(q) = Known("CANCELLED", r.state, r.paused, r.retries, yes, r.intent)
    BY <1>0, <2>1, <2>2
  <2>4. Ended(u, r.state, "CANCELLED", yes)
          = Known("CANCELLED", r.state, r.paused, r.retries, yes, r.intent)
    BY <1>1, KnownWritten
  <2>5. Service!Cancelled(u)
          = Ended(u, u.state, "CANCELLED", yes)
    BY DEF Service!Cancelled, yes, Ended
  <2> QED BY <1>1, <2>3, <2>4, <2>5 DEF q, yes, Service!Cancelled
<1>6. Unversioned(Service!RetryScheduled(r)) = Service!RetryScheduled(u)
  <2> DEFINE n == r.retries + 1
             q == [r EXCEPT !.previous = "FAILED", !.state = "RETRY_SCHEDULED", !.retries = n]
  <2>1. Service!RetryScheduled(r) = q /\ q \in Row
    BY RetriedRow DEF Service!RetryScheduled
  <2>2. Service!RetryScheduled(u) =
          Counted(u, "FAILED", "RETRY_SCHEDULED", n)
    BY <1>1 DEF Service!RetryScheduled, Counted
  <2> HIDE DEF n
  <2>3. /\ q.state = "RETRY_SCHEDULED" /\ q.previous = "FAILED" /\ q.paused = r.paused
        /\ q.retries = n /\ q.completed = r.completed /\ q.intent = r.intent
    BY DEF Row
  <2> HIDE DEF q
  <2>4. Unversioned(q) =
          Known("RETRY_SCHEDULED", "FAILED", r.paused, n, r.completed, r.intent)
    BY <1>0, <2>1, <2>3
  <2>5. Service!RetryScheduled(u) =
          Known("RETRY_SCHEDULED", "FAILED", r.paused, n, r.completed, r.intent)
    BY <1>1, <2>2, KnownWritten
  <2> QED BY <2>1, <2>4, <2>5
<1>8. Versioned(w) => Target(w) \in WorkflowState
  BY WriteKinds DEF Versioned, Target, Goals, WorkflowState, Plain
<1>9. ASSUME Versioned(w)
      PROVE  Unversioned(Written(w, r)) = Service!MovedTo(u, Target(w))
  <2>1. Written(w, r) = Bumped(Service!MovedTo(r, Target(w)))
    BY <1>9 DEF Written, Versioned
  <2>2. Service!MovedTo(r, Target(w)) \in Row
    BY <1>8, <1>9, MovedRow
  <2> QED BY <1>2, <1>3, <1>8, <1>9, <2>1, <2>2
<1>10. ASSUME w.do \in {"pause", "hold"}
       PROVE  Unversioned(Written(w, r)) = Service!Paused(u)
  <2>1. Written(w, r) = Bumped(Service!Paused(r))
    BY <1>10 DEF Written, Versioned
  <2> QED BY <1>2, <1>4, <2>1, HeldRow
<1>11. ASSUME w.do = "resume" PROVE Unversioned(Written(w, r)) = Service!Resumed(u)
  <2>1. Written(w, r) = Bumped(Service!Resumed(r))
    BY <1>11 DEF Written, Versioned
  <2> QED BY <1>2, <1>4, <2>1, HeldRow
<1>12. ASSUME w.do = "cancel" PROVE Unversioned(Written(w, r)) = Service!Cancelled(u)
  <2>1. Written(w, r) = Bumped(Service!Cancelled(r))
    BY <1>12 DEF Written, Versioned
  <2> QED BY <1>2, <1>5, <2>1, HeldRow
<1>13. ASSUME w.do = "retry" PROVE Unversioned(Written(w, r)) = Service!RetryScheduled(u)
  <2>1. Written(w, r) = Bumped(Service!RetryScheduled(r))
    BY <1>13 DEF Written, Versioned
  <2> QED BY <1>2, <1>6, <2>1, RetriedRow
<1>14. ASSUME w.do = "intent" PROVE Unversioned(Written(w, r)) = [u EXCEPT !.intent = TRUE]
  <2>1. Written(w, r) = [r EXCEPT !.intent = TRUE]
    BY <1>14 DEF Written, Versioned
  <2> QED BY <1>4, <2>1
<1> QED BY <1>9, <1>10, <1>11, <1>12, <1>13, <1>14 DEF u

\* What a write leaves in the pause and in the intent.
LEMMA WrittenFlags ==
  ASSUME NEW w \in Write, w.do \notin Deciding, NEW r \in Row
  PROVE  /\ Written(w, r).paused =
              IF w.do \in {"pause", "hold"} THEN TRUE
              ELSE IF w.do = "resume" THEN FALSE ELSE r.paused
         /\ Written(w, r).intent = IF w.do = "intent" THEN TRUE ELSE r.intent
<1> DEFINE u == Unversioned(r)
           v == Unversioned(Written(w, r))
<1>1. u = [ state |-> r.state, previous |-> r.previous, paused |-> r.paused,
            retries |-> r.retries, completed |-> r.completed, intent |-> r.intent ]
  BY UnversionedRow
<1>2. v.paused = Written(w, r).paused /\ v.intent = Written(w, r).intent
  <2>1. Written(w, r) \in Row
    BY WrittenRow
  <2> DEFINE n == Written(w, r)
  <2> HIDE DEF n
  <2>2. n \in Row => Unversioned(n).paused = n.paused /\ Unversioned(n).intent = n.intent
    BY UnversionedRow
  <2> QED BY <2>1, <2>2 DEF n
<1>3. /\ Versioned(w) => v = Service!MovedTo(u, Target(w))
      /\ w.do \in {"pause", "hold"} => v = Service!Paused(u)
      /\ w.do = "resume" => v = Service!Resumed(u)
      /\ w.do = "cancel" => v = Service!Cancelled(u)
      /\ w.do = "retry" => v = Service!RetryScheduled(u)
      /\ w.do = "intent" => v = [u EXCEPT !.intent = TRUE]
  BY WrittenUnversioned
<1> HIDE DEF u, v
<1>4. CASE Versioned(w)
  BY <1>1, <1>2, <1>3, <1>4 DEF Service!MovedTo, Versioned
<1>5. CASE w.do \in {"pause", "hold"}
  BY <1>1, <1>2, <1>3, <1>5 DEF Service!Paused
<1>6. CASE w.do = "resume"
  BY <1>1, <1>2, <1>3, <1>6 DEF Service!Resumed
<1>7. CASE w.do = "cancel"
  BY <1>1, <1>2, <1>3, <1>7 DEF Service!Cancelled
<1>8. CASE w.do = "retry"
  <2>1. v = Service!RetryScheduled(u)
    BY <1>3, <1>8
  <2> DEFINE m == u.retries + 1
  <2>2. v = [u EXCEPT !.previous = "FAILED", !.state = "RETRY_SCHEDULED", !.retries = m]
    BY <2>1 DEF Service!RetryScheduled
  <2> HIDE DEF m
  <2> QED BY <1>1, <1>2, <1>8, <2>2
<1>9. CASE w.do = "intent"
  BY <1>1, <1>2, <1>3, <1>9
<1>10. \/ Versioned(w) \/ w.do \in {"pause", "hold"}
       \/ w.do \in {"resume", "cancel", "retry", "intent"}
  BY WriteKinds DEF Versioned, Plain, Deciding
<1> QED BY <1>4, <1>5, <1>6, <1>7, <1>8, <1>9, <1>10


\* A run that has not stopped stands where the next move or decision finds it.
LEMMA StandsRunning ==
  ASSUME NEW list, NEW r, Sound(list), Head(list).do \notin Idle,
         ~ r.paused, ~ IsTerminal(r.state), list # << >>
  PROVE  Stands(list, TRUE, r)
BY DEF Stands, Idle

\* The lists that a run begins with or goes on to start with a move, or mark
\* it failed.
LEMMA RunHeads ==
  /\ \A r : RunOf(r) # << >> /\ Head(RunOf(r)).do = "move"
  /\ \A list \in Decisions : list # << >> /\ Head(list).do = "move"
  /\ LET list == <<Move("NEEDS_CLARIFICATION"), Do("pause")>>
     IN  list # << >> /\ Head(list).do = "move"
  /\ \A x : <<Do(x)>> # << >> /\ Head(<<Do(x)>>).do = x
<1>1. \A r : RunOf(r) # << >> /\ Head(RunOf(r)).do = "move"
  <2>1. /\ RunScript \in Seq(Write) /\ Len(RunScript) = 12
        /\ RunScript[1] = Move("AUTHENTICATED")
    BY RunWrites
  <2>2. /\ RunFromContext \in Seq(Write) /\ Len(RunFromContext) = 7
        /\ RunFromContext[1] = Move("CONTEXT_RETRIEVAL")
    BY ContextWrites
  <2>3. ASSUME NEW list \in Seq(Write), NEW n \in Nat, n >= 1, Len(list) = n,
               NEW s, list[1] = Move(s)
        PROVE  list # << >> /\ Head(list).do = "move"
    <3>1. list # << >> /\ Head(list) = list[1]
      BY <2>3, EmptySeq
    <3> QED BY <2>3, <3>1 DEF Move
  <2>4. 12 \in Nat /\ 12 >= 1 /\ 7 \in Nat /\ 7 >= 1
    OBVIOUS
  <2>5. RunScript # << >> /\ Head(RunScript).do = "move"
    BY <2>1, <2>3, <2>4, Zenon
  <2>6. RunFromContext # << >> /\ Head(RunFromContext).do = "move"
    BY <2>2, <2>3, <2>4, Zenon
  <2> QED BY <2>5, <2>6 DEF RunOf
<1>2. ASSUME NEW s PROVE <<Move(s)>> # << >> /\ Head(<<Move(s)>>).do = "move"
  BY DEF Move
<1>3. ASSUME NEW s, NEW x
      PROVE  <<Move(s), Do(x)>> # << >> /\ Head(<<Move(s), Do(x)>>).do = "move"
  BY DEF Move
<1>4. LET list == Moves(<<"EXECUTING", "VERIFYING", "COMPLETED">>)
      IN  list # << >> /\ Head(list).do = "move"
  <2> DEFINE states == <<"EXECUTING", "VERIFYING", "COMPLETED">>
             list == Moves(states)
  <2>1. states \in Seq(WorkflowState) /\ Len(states) = 3
    BY DEF WorkflowState
  <2> HIDE DEF states
  <2>2. /\ list \in Seq({Move(s) : s \in WorkflowState}) /\ Len(list) = 3
        /\ \A i \in 1 .. 3 : list[i] = Move(states[i])
    BY <2>1, MovesList
  <2> HIDE DEF list
  <2>3. list # << >> /\ Head(list) = list[1] /\ list[1] = Move(states[1])
    BY <2>2, EmptySeq
  <2> QED BY <2>3 DEF Move, list, states
<1>5. ASSUME NEW x PROVE <<Do(x)>> # << >> /\ Head(<<Do(x)>>).do = x
  BY DEF Do
<1> QED BY <1>1, <1>2, <1>3, <1>4, <1>5 DEF Decisions

\* What a write leaves is what the rest of the call expects.
LEMMA StandsWritten ==
  ASSUME NEW list \in Seq(Write), list # << >>, NEW run \in BOOLEAN, NEW r \in Row,
         Head(list).do \notin Deciding, Stands(list, run, r)
  PROVE  Stands(Tail(list), run, Written(Head(list), r))
<1> DEFINE w == Head(list)
           rest == Tail(list)
           new == Written(w, r)
<1>1. w \in Write /\ rest \in Seq(Write) /\ w.do \notin Deciding
  BY HeadTailProperties
<1>2. /\ new.state = StateAfter(w, r)
      /\ new.paused = IF w.do \in {"pause", "hold"} THEN TRUE
                      ELSE IF w.do = "resume" THEN FALSE ELSE r.paused
      /\ new.intent = IF w.do = "intent" THEN TRUE ELSE r.intent
  BY <1>1, WrittenRow, WrittenFlags
<1>3. Sound(list)
  BY DEF Stands
<1>4. /\ Sound(rest)
      /\ w.do \in {"pause", "hold", "cancel"} => rest = << >>
      /\ w.do = "move" /\ rest # << >> => ~ IsTerminal(w.to)
      /\ w.do = "move" /\ rest = << >> => w.to \notin RunStates
      /\ w.do \in {"intent", "understand"} => rest # << >>
      /\ rest # << >> => Head(rest).do \notin {"resume", "cancel", "retry"}
      /\ rest # << >> /\ Head(rest).do \in Idle => w.do = "move" /\ w.to \notin RunStates
      /\ Calm(list) => Calm(rest)
      /\ Calm(list) => w = Move("RECEIVED")
                         \/ w.do \in {"pause", "resume", "cancel", "retry", "run"}
  BY <1>3, SoundTail
<1>5. /\ ~ run => AtRest(r) /\ Calm(list)
      /\ run => ~ r.paused /\ ~ IsTerminal(r.state)
      /\ w.do \in Idle => AtRest(r)
  BY DEF Stands
<1>6. /\ ~ IsTerminal("FAILED") /\ ~ IsTerminal("RETRY_SCHEDULED")
      /\ \A s \in {"FAILED", "RETRY_SCHEDULED", "CANCELLED", "RECEIVED"} : s \notin RunStates
  BY DEF IsTerminal, TERMINAL_STATES, RunStates
<1>7. \/ w.do = "move" \/ w.do \in {"fail", "force"} \/ w.do = "cancel" \/ w.do = "retry"
      \/ w.do \in {"pause", "hold", "resume"} \/ w.do = "intent"
  BY <1>1, WriteKinds DEF Plain, Deciding
<1> HIDE DEF w, rest, new
<1>8. /\ w.do = "move" => new.state = w.to
      /\ w.do \in {"fail", "force"} => new.state = "FAILED"
      /\ w.do = "cancel" => new.state = "CANCELLED"
      /\ w.do = "retry" => new.state = "RETRY_SCHEDULED"
      /\ w.do \in {"pause", "hold", "resume", "intent"} => new.state = r.state
  BY <1>2 DEF StateAfter, Versioned, Target
<1>9. w.do \in {"pause", "hold", "resume"} /\ AtRest(r) => AtRest(new)
  BY <1>2, <1>8 DEF AtRest, Resumable
<1>10. new.state \notin RunStates => AtRest(new)
  BY DEF AtRest
<1>11. ~ run => AtRest(new) /\ Calm(rest)
  <2> SUFFICES ASSUME ~ run PROVE AtRest(new) /\ Calm(rest)
    OBVIOUS
  <2>1. w = Move("RECEIVED") => w.do = "move" /\ w.to = "RECEIVED"
    BY DEF Move
  <2> QED BY <1>4, <1>5, <1>6, <1>7, <1>8, <1>9, <1>10, <2>1
<1>12. rest = << >> => AtRest(new)
  BY <1>4, <1>5, <1>6, <1>7, <1>8, <1>9, <1>10 DEF Idle
<1>13. rest # << >> => (run => ~ new.paused /\ ~ IsTerminal(new.state))
  BY <1>2, <1>4, <1>5, <1>6, <1>7, <1>8
<1>14. rest # << >> /\ Head(rest).do \in Idle => AtRest(new)
  BY <1>4, <1>8, <1>10
<1>15. rest # << >> => Head(rest).do \notin {"resume", "cancel", "retry"}
  BY <1>4
<1>16. Sound(rest)
  BY <1>4
<1>17. Stands(rest, run, new)
  BY <1>11, <1>12, <1>13, <1>14, <1>15, <1>16 DEF Stands
<1> QED BY <1>17 DEF w, rest, new


\* What the serial invariant asks of a call that becomes k.
Fits(k, r) ==
  IF k = Closed THEN AtRest(r) ELSE k.copy = r /\ Stands(Left(k), k.run, r)

\* A step of the only caller that has a call keeps the invariant when its
\* call fits the row.
LEMMA SerialBecomes ==
  ASSUME Typed, NEW c \in Callers, NEW k, Becomes(c, k), OneAtATime',
         \A d \in Callers \ {c} : session[d] = Closed, Fits(k, row')
  PROVE  Serial'
<1>1. session'[c] = k /\ \A d \in Callers \ {c} : session'[d] = Closed
  BY PendingBecomes
<1>2. ((\A d \in Callers : session[d] = Closed) => AtRest(row))'
  BY <1>1 DEF Fits, AtRest, Resumable
<1>3. ASSUME NEW d \in Callers, session'[d] # Closed
      PROVE  session'[d].copy = row' /\ Stands(Left(session'[d]), session'[d].run, row')
  BY <1>1, <1>3 DEF Fits
<1>4. (\A d \in Callers : session[d] # Closed =>
         /\ session[d].copy = row
         /\ Stands(Left(session[d]), session[d].run, row))'
  BY <1>3 DEF Stands, Sound, Calm, Left, AtRest, Resumable, IsTerminal, ValidTransition
<1> QED BY <1>2, <1>4 DEF Serial

\* The caller that has a call is the only one.
LEMMA OnlyCall ==
  ASSUME Typed, Serial, NEW c \in Callers, Active(c)
  PROVE  \A d \in Callers \ {c} : session[d] = Closed
BY DEF Serial, OneAtATime, Callers, Active

\* A call that goes on, on the row as it is.
LEMMA SerialGoes ==
  ASSUME Typed, NEW c \in Callers, NEW todo, NEW run, Goes(c, todo, row, run),
         OneAtATime', \A d \in Callers \ {c} : session[d] = Closed, row' = row,
         IF todo = << >> THEN AtRest(row) ELSE Stands(todo, run, row)
  PROVE  Serial'
<1> DEFINE k == IF todo = << >> THEN Closed ELSE Ready(todo, row, run)
<1>1. Becomes(c, k)
  BY DEF Goes
<1>2. Fits(k, row')
  <2>1. CASE todo = << >>
    BY <2>1 DEF Fits
  <2>2. CASE todo # << >>
    <3>1. /\ Ready(todo, row, run).copy = row /\ Ready(todo, row, run).run = run
          /\ Left(Ready(todo, row, run)) = todo /\ Ready(todo, row, run) # Closed
      BY DEF Ready, Left, Closed
    <3>2. k = Ready(todo, row, run)
      BY <2>2
    <3> HIDE DEF k
    <3> QED BY <2>2, <3>1, <3>2 DEF Fits
  <2> QED BY <2>1, <2>2
<1> HIDE DEF k
<1> QED BY <1>1, <1>2, SerialBecomes


(* Before the first call the workflow rests. *)
LEMMA SerialInit == Init => Serial
<1> SUFFICES ASSUME Init PROVE Serial
  OBVIOUS
<1>1. row.state = "RECEIVED" /\ \A c \in Callers : session[c] = Closed
  BY DEF Init, NewRow
<1>2. AtRest(row)
  BY <1>1 DEF AtRest, RunStates
<1> QED BY <1>1, <1>2 DEF Serial, OneAtATime, Active, Callers

\* What the calls open with fits the row that they find.
LEMMA SerialOpen ==
  ASSUME Typed, Serial, OpenCall, OneAtATime'
  PROVE  Serial'
<1>1. PICK c \in Callers :
        /\ ~ Active(c) /\ UNCHANGED <<row, ledger>>
        /\ \/ c \in Runners /\ CanRun(row) /\ Goes(c, RunOf(row), row, TRUE)
           \/ /\ c \in Retriers /\ row.state = "FAILED" /\ row.retries < MaxRetries
              /\ Goes(c, RetryList(c), row, FALSE)
           \/ /\ c = Api /\ ~ IsTerminal(row.state) /\ ~ row.paused
              /\ Goes(c, <<Do("pause")>>, row, FALSE)
           \/ c = Api /\ row.paused /\ Goes(c, <<Do("resume")>>, row, FALSE)
           \/ /\ c = Api /\ ~ IsTerminal(row.state) /\ ValidTransition(row.state, "CANCELLED")
              /\ Goes(c, <<Do("cancel")>>, row, FALSE)
  BY OpenCallGoes
<1>2. ASSUME NEW todo \in Seq(Write), todo # << >>, NEW run, Goes(c, todo, row, run)
      PROVE  /\ \A d \in Callers : session[d] = Closed
             /\ AtRest(row)
  <2>1. Becomes(c, Ready(todo, row, run)) /\ Ready(todo, row, run) # Closed
    BY <1>2 DEF Goes, Ready, Closed
  <2>2. Active(c)' /\ \A d \in Callers \ {c} : (Active(d)' <=> Active(d))
    BY <2>1, PendingBecomes
  <2>3. \A d \in Callers \ {c} : ~ Active(d)
    BY <2>2 DEF OneAtATime, Callers
  <2> QED BY <1>1, <2>3 DEF Active, Serial
<1>3. ASSUME NEW todo \in Seq(Write), todo # << >>, NEW run, Goes(c, todo, row, run),
             AtRest(row) => Stands(todo, run, row)
      PROVE  Serial'
  BY <1>1, <1>2, <1>3, SerialGoes
<1>4. CASE CanRun(row) /\ Goes(c, RunOf(row), row, TRUE)
  <2>1. ~ row.paused /\ ~ IsTerminal(row.state)
    BY <1>4 DEF CanRun, Resumable, IsTerminal, TERMINAL_STATES
  <2>2. Stands(RunOf(row), TRUE, row)
    BY <2>1, StandsRunning, RunHeads, SoundLists DEF Idle
  <2>3. RunOf(row) \in Seq(Write) /\ RunOf(row) # << >>
    BY ListsOfWrites DEF Typed
  <2> QED BY <1>3, <1>4, <2>2, <2>3
<1>5. CASE /\ row.state = "FAILED" /\ row.retries < MaxRetries
           /\ Goes(c, RetryList(c), row, FALSE)
  <2>1. /\ RetryList(c) \in Seq(Write) /\ RetryList(c) # << >>
        /\ Head(RetryList(c)).do = "retry"
    <3>1. /\ RetryList(c) \in Seq(Write) /\ RetryList(c) # << >>
          /\ RetryList(c)[1] = Do("retry")
      BY RetryWrites
    <3>2. Head(RetryList(c)) = RetryList(c)[1]
      BY <3>1
    <3> QED BY <3>1, <3>2 DEF Do
  <2>2. AtRest(row) => Stands(RetryList(c), FALSE, row)
    BY <1>5, <2>1, SoundLists DEF Stands, Idle
  <2> QED BY <1>3, <1>5, <2>1, <2>2
<1>6. CASE c = Api /\ Goes(c, <<Do("pause")>>, row, FALSE)
  <2>1. Sound(<<Do("pause")>>) /\ Calm(<<Do("pause")>>)
    BY SoundLists DEF Plain
  <2>2. AtRest(row) => Stands(<<Do("pause")>>, FALSE, row)
    BY <2>1, RunHeads DEF Stands
  <2> QED BY <1>3, <1>6, <2>2, ListsOfWrites, RunHeads
<1>7. CASE c = Api /\ row.paused /\ Goes(c, <<Do("resume")>>, row, FALSE)
  <2>1. Sound(<<Do("resume")>>) /\ Calm(<<Do("resume")>>)
    BY SoundLists DEF Plain
  <2>2. AtRest(row) => Stands(<<Do("resume")>>, FALSE, row)
    BY <1>7, <2>1, RunHeads DEF Stands
  <2> QED BY <1>3, <1>7, <2>2, ListsOfWrites, RunHeads
<1>8. CASE /\ c = Api /\ ~ IsTerminal(row.state) /\ ValidTransition(row.state, "CANCELLED")
           /\ Goes(c, <<Do("cancel")>>, row, FALSE)
  <2>1. Sound(<<Do("cancel")>>) /\ Calm(<<Do("cancel")>>)
    BY SoundLists DEF Plain
  <2>2. AtRest(row) => Stands(<<Do("cancel")>>, FALSE, row)
    BY <1>8, <2>1, RunHeads DEF Stands
  <2> QED BY <1>3, <1>8, <2>2, ListsOfWrites, RunHeads
<1> QED BY <1>1, <1>4, <1>5, <1>6, <1>7, <1>8

\* The only call commits what its list says of the row that it knows.
LEMMA SerialCommit ==
  ASSUME Typed, Serial, NEW c \in Callers, Commit(c), OneAtATime'
  PROVE  /\ Serial'
         /\ session[c].copy = row /\ row' = Written(Head(session[c].todo), row)
         /\ Stands(session[c].todo, session[c].run, row)
<1> DEFINE k == session[c]
           w == Head(k.todo)
           new == Written(w, k.copy)
           n == [ step |-> "written", copy |-> new, todo |-> k.todo, run |-> k.run,
                  entry |-> Entry(w, k.copy) ]
<1>1. /\ WellFormed(k) /\ k.step # "written" /\ w \in Write /\ w.do \notin Deciding
      /\ Update(w, k.copy, new) /\ Becomes(c, n) /\ WellFormed(n)
  BY CommitBecomes
<1>2. Active(c) /\ session[c] # Closed
  BY DEF Commit, At, Active
<1>3. k.copy = row /\ Stands(k.todo, k.run, row)
  BY <1>1, <1>2 DEF Serial, Left
<1>4. row \in Row /\ new \in Row
  BY <1>1, <1>3, WrittenRow DEF Typed
<1>5. row' = new
  BY <1>1, <1>3, <1>4, UpdatedRow
<1>6. k.todo \in Seq(Write) /\ k.todo # << >> /\ k.run \in BOOLEAN
  BY <1>1, TodoWrites DEF WellFormed
<1>7. Stands(Tail(k.todo), k.run, new)
  BY <1>1, <1>3, <1>4, <1>6, StandsWritten
<1>8. Fits(n, row')
  <2>1. n.copy = new /\ n.run = k.run /\ Left(n) = Tail(k.todo)
    BY DEF Left
  <2> HIDE DEF n, new
  <2> QED BY <1>1, <1>5, <1>7, <2>1, OngoingIsOpen DEF Fits, WellFormed
<1>9. Serial'
  <2> HIDE DEF n
  <2> QED BY <1>1, <1>2, <1>8, OnlyCall, SerialBecomes
<1> QED BY <1>3, <1>5, <1>9


\* A step that only ends the call, or lets its run go on, finds the workflow
\* where it leaves it.
LEMMA SerialOnward ==
  ASSUME Typed, Serial, NEW c \in Callers, Active(c), OneAtATime', row' = row,
         WellFormed(session[c]), session[c].step = "ready", NEW todo, NEW run,
         Goes(c, todo, session[c].copy, run),
         IF todo = << >> THEN AtRest(row)
         ELSE Sound(todo) /\ run /\ Head(todo).do \notin Idle
  PROVE  (todo # << >> => ~ row.paused /\ ~ IsTerminal(row.state)) => Serial'
<1> SUFFICES ASSUME todo # << >> => ~ row.paused /\ ~ IsTerminal(row.state) PROVE Serial'
  OBVIOUS
<1>1. session[c].copy = row
  BY DEF Serial, Active
<1>2. run \in BOOLEAN
  BY DEF Goes
<1>3. IF todo = << >> THEN AtRest(row) ELSE Stands(todo, run, row)
  BY <1>2, StandsRunning
<1> QED BY <1>1, <1>3, OnlyCall, SerialGoes

\* What a call knows before it writes.
LEMMA SerialReady ==
  ASSUME Typed, Serial, NEW c \in Callers, Active(c), session[c].step # "written"
  PROVE  LET k == session[c]
             w == Head(k.todo)
         IN  /\ k.copy = row /\ Stands(k.todo, k.run, row) /\ k.todo # << >>
             /\ k.todo \in Seq(Write) /\ k.run \in BOOLEAN /\ w \in Write
             /\ Sound(k.todo)
             /\ ~ k.run => AtRest(row)
             /\ k.run => ~ row.paused /\ ~ IsTerminal(row.state)
             /\ w.do \in Idle => AtRest(row)
             /\ w.do = "resume" => row.paused
             /\ w.do = "cancel" => /\ ~ IsTerminal(row.state)
                                  /\ ValidTransition(row.state, "CANCELLED")
             /\ w.do = "retry" => row.state = "FAILED" /\ row.retries < MaxRetries
             /\ w.do \notin {"move", "pause", "resume", "cancel", "retry", "run"} => k.run
<1> DEFINE k == session[c]
<1>1. WellFormed(k) /\ k.todo # << >> /\ k # Closed
  BY DEF Typed, WellFormed, Active
<1>2. k.copy = row /\ Stands(k.todo, k.run, row)
  BY <1>1 DEF Serial, Left
<1>3. k.todo \in Seq(Write) /\ k.run \in BOOLEAN /\ Head(k.todo) \in Write
  BY <1>1, TodoWrites
<1> HIDE DEF k
<1>4. Sound(k.todo)
  BY <1>2 DEF Stands
<1>5. ~ k.run => \/ Head(k.todo) = Move("RECEIVED")
                 \/ Head(k.todo).do \in {"pause", "resume", "cancel", "retry", "run"}
  <2>1. ~ k.run => Calm(k.todo)
    BY <1>2 DEF Stands
  <2> QED BY <1>1, <1>3, <1>4, <2>1, SoundTail
<1>6. Move("RECEIVED").do = "move"
  BY DEF Move
<1> QED BY <1>1, <1>2, <1>3, <1>4, <1>5, <1>6 DEF Stands, k

\* The failure that a run is marked with.
LEMMA SerialMarked ==
  ASSUME Typed, Serial, NEW c \in Callers, Active(c), session[c].step = "ready",
         session[c].run, OneAtATime', row' = row,
         Goes(c, MarkFailed(c), session[c].copy, session[c].run)
  PROVE  Serial'
<1>1. WellFormed(session[c]) /\ session[c].copy = row
  BY SerialReady DEF Typed
<1>2. ~ row.paused /\ ~ IsTerminal(row.state)
  BY SerialReady
<1>3. CASE row.state = "FAILED"
  <2>1. MarkFailed(c) = << >> /\ AtRest(row)
    BY <1>1, <1>3 DEF MarkFailed, Copy, AtRest, RunStates
  <2> QED BY <1>1, <2>1, SerialOnward
<1>4. CASE row.state # "FAILED"
  <2>1. MarkFailed(c) = <<Do("fail")>>
    BY <1>1, <1>4 DEF MarkFailed, Copy
  <2>2. Sound(<<Do("fail")>>) /\ Head(<<Do("fail")>>).do \notin Idle /\ <<Do("fail")>> # << >>
    BY SoundLists, RunHeads DEF Plain, Idle
  <2> QED BY <1>1, <1>2, <2>1, <2>2, SerialOnward
<1> QED BY <1>3, <1>4

\* Only a pause, a move and a failure are refused: the only call finds the
\* version that it knows.
LEMMA SerialRefusal ==
  ASSUME Typed, Serial, NEW c \in Callers, Active(c), session[c].step = "ready", Refuses(c)
  PROVE  Head(session[c].todo).do \in {"move", "fail", "pause"}
<1>1. session[c].copy = row
  BY SerialReady
<1>2. ~ Permits(Head(session[c].todo), row)
  BY <1>1 DEF Refuses, NextWrite, Copy
<1> QED BY <1>2 DEF Permits

\* Every step of calls that do not overlap keeps the invariant.
LEMMA SerialStep == Typed /\ Serial /\ [Next /\ OneAtATime']_vars => Serial'
<1> SUFFICES ASSUME Typed, Serial, [Next /\ OneAtATime']_vars PROVE Serial'
  OBVIOUS
<1>1. CASE OpenCall /\ OneAtATime'
  BY <1>1, SerialOpen
<1>2. ASSUME NEW c \in Callers, Select(c), OneAtATime' PROVE Serial'
  <2> DEFINE k == session[c]
             n == [ step |-> "selected", copy |-> k.copy, todo |-> k.todo, run |-> k.run,
                    entry |-> << >> ]
  <2>1. /\ k.step = "ready" /\ Becomes(c, n) /\ WellFormed(n) /\ row' = row /\ Active(c)
    BY <1>2, SelectBecomes DEF Select, At
  <2>2. k.copy = row /\ Stands(k.todo, k.run, row)
    BY <2>1, SerialReady
  <2>3. Fits(n, row')
    <3>1. n.copy = k.copy /\ n.run = k.run /\ Left(n) = k.todo
      BY DEF Left
    <3> HIDE DEF n, k
    <3> QED BY <2>1, <2>2, <3>1, OngoingIsOpen DEF Fits, WellFormed
  <2> HIDE DEF n
  <2> QED BY <1>2, <2>1, <2>3, OnlyCall, SerialBecomes
<1>3. ASSUME NEW c \in Callers, Refuse(c), OneAtATime' PROVE Serial'
  <2> DEFINE k == session[c]
             w == Head(k.todo)
  <2>1. /\ Active(c) /\ WellFormed(k) /\ k.step = "ready" /\ row' = row /\ Refuses(c)
        /\ \/ w.do = "move" /\ k.run /\ Goes(c, MarkFailed(c), k.copy, k.run)
           \/ w.do = "fail" /\ Goes(c, <<Do("force")>>, k.copy, k.run)
           \/ ~ (w.do = "move" /\ k.run) /\ w.do # "fail" /\ Goes(c, << >>, k.copy, k.run)
    BY <1>3, RefuseGoes DEF Refuse, At
  <2>2. /\ ~ k.run => AtRest(row)
        /\ k.run => ~ row.paused /\ ~ IsTerminal(row.state)
        /\ w.do \in Idle => AtRest(row)
        /\ w.do \notin {"move", "pause", "resume", "cancel", "retry", "run"} => k.run
    BY <2>1, SerialReady
  <2>3. w.do \in {"move", "fail", "pause"}
    BY <2>1, SerialRefusal
  <2>4. CASE w.do = "move" /\ k.run /\ Goes(c, MarkFailed(c), k.copy, k.run)
    BY <1>3, <2>1, <2>4, SerialMarked
  <2>5. CASE w.do = "fail" /\ Goes(c, <<Do("force")>>, k.copy, k.run)
    <3>1. /\ Sound(<<Do("force")>>) /\ Head(<<Do("force")>>).do \notin Idle
          /\ <<Do("force")>> # << >>
      BY SoundLists, RunHeads DEF Plain, Idle
    <3>2. k.run /\ ~ row.paused /\ ~ IsTerminal(row.state)
      BY <2>2, <2>5
    <3> QED BY <1>3, <2>1, <2>5, <3>1, <3>2, SerialOnward
  <2>6. CASE ~ (w.do = "move" /\ k.run) /\ w.do # "fail" /\ Goes(c, << >>, k.copy, k.run)
    <3>1. AtRest(row)
      BY <2>1, <2>2, <2>3, <2>6, SerialReady DEF Idle
    <3> QED BY <1>3, <2>1, <2>6, <3>1, SerialOnward
  <2> QED BY <2>1, <2>4, <2>5, <2>6
<1>4. ASSUME NEW c \in Callers, Commit(c), OneAtATime' PROVE Serial'
  BY <1>4, SerialCommit
<1>5. ASSUME NEW c \in Callers, Refresh(c), OneAtATime' PROVE Serial'
  <2> DEFINE k == session[c]
  <2>1. /\ Active(c) /\ k.step = "written" /\ row' = row /\ Goes(c, Tail(k.todo), row, k.run)
    BY <1>5, RefreshGoes DEF Refresh, At
  <2>2. Stands(Tail(k.todo), k.run, row)
    BY <2>1 DEF Serial, Left, Active
  <2>3. Tail(k.todo) = << >> => AtRest(row)
    BY <2>2 DEF Stands
  <2> QED BY <1>5, <2>1, <2>2, <2>3, OnlyCall, SerialGoes
<1>6. ASSUME NEW c \in Callers, Begin(c), OneAtATime' PROVE Serial'
  <2> DEFINE k == session[c]
  <2>1. /\ Active(c) /\ WellFormed(k) /\ k.step = "ready" /\ Head(k.todo).do = "run"
        /\ row' = row
        /\ \/ CanRun(k.copy) /\ Goes(c, RunOf(k.copy), k.copy, TRUE)
           \/ Goes(c, << >>, k.copy, k.run)
    BY <1>6, BeginGoes DEF Begin, At
  <2>2. k.copy = row /\ AtRest(row)
    BY <2>1, SerialReady DEF Idle
  <2>3. CASE CanRun(k.copy) /\ Goes(c, RunOf(k.copy), k.copy, TRUE)
    <3>1. ~ row.paused /\ ~ IsTerminal(row.state)
      BY <2>2, <2>3 DEF CanRun, Resumable, IsTerminal, TERMINAL_STATES
    <3>2. Sound(RunOf(row)) /\ Head(RunOf(row)).do \notin Idle /\ RunOf(row) # << >>
      BY SoundLists, RunHeads DEF Idle
    <3> QED BY <1>6, <2>1, <2>2, <2>3, <3>1, <3>2, SerialOnward
  <2>4. CASE Goes(c, << >>, k.copy, k.run)
    BY <1>6, <2>1, <2>2, <2>4, SerialOnward
  <2> QED BY <2>1, <2>3, <2>4
<1>7. ASSUME NEW c \in Callers, Understand(c) \/ ApplyDecision(c), OneAtATime' PROVE Serial'
  <2> DEFINE k == session[c]
             w == Head(k.todo)
             rest == Tail(k.todo)
  <2>1. /\ Active(c) /\ WellFormed(k) /\ k.step = "ready" /\ row' = row
        /\ \/ /\ w.do = "understand"
              /\ \E todo \in Understandings(rest) : Goes(c, todo, k.copy, k.run)
           \/ /\ w.do = "decide"
              /\ \E todo \in Decisions : Goes(c, todo, k.copy, k.run)
    BY <1>7, DecidingGoes DEF Understand, ApplyDecision, At
  <2>2. /\ k.run /\ ~ row.paused /\ ~ IsTerminal(row.state)
        /\ k.todo # << >> /\ k.todo \in Seq(Write) /\ Sound(k.todo)
    BY <2>1, SerialReady
  <2>3. ASSUME NEW todo, Goes(c, todo, k.copy, k.run), Sound(todo), todo # << >>,
               Head(todo).do \notin Idle
        PROVE  Serial'
    BY <1>7, <2>1, <2>2, <2>3, SerialOnward
  <2>4. ASSUME w.do = "understand", NEW todo \in Understandings(rest),
               Goes(c, todo, k.copy, k.run)
        PROVE  Serial'
    <3>1. Sound(rest) /\ rest # << >> /\ Head(rest).do \notin Idle
      BY <2>2, <2>4, SoundTail
    <3>2. Sound(todo) /\ todo # << >> /\ Head(todo).do \notin Idle
      BY <2>4, <3>1, SoundLists, RunHeads DEF Understandings, Idle
    <3> QED BY <2>3, <2>4, <3>2
  <2>5. ASSUME NEW todo \in Decisions, Goes(c, todo, k.copy, k.run) PROVE Serial'
    <3>1. Sound(todo) /\ todo # << >> /\ Head(todo).do \notin Idle
      BY SoundLists, RunHeads DEF Idle
    <3> QED BY <2>3, <2>5, <3>1
  <2> QED BY <2>1, <2>4, <2>5
<1>8. ASSUME NEW c \in Callers, Raise(c), OneAtATime' PROVE Serial'
  BY <1>8, RaiseGoes, SerialMarked DEF Raise, At
<1>9. CASE UNCHANGED vars
  BY <1>9 DEF vars, Serial, OneAtATime, Active, AtRest, Resumable, Stands, Sound, Calm, Left,
              IsTerminal, ValidTransition
<1> QED BY <1>1, <1>2, <1>3, <1>4, <1>5, <1>6, <1>7, <1>8, <1>9 DEF Next, Step

\* The invariant of calls that do not overlap.
LEMMA SerialAlways == SerialSpec => []Typed /\ []Serial
<1>1. Typed /\ [Next /\ OneAtATime']_vars => Typed'
  BY TypedStep DEF AnyStep
<1> QED BY <1>1, TypedInit, SerialInit, SerialStep, PTL DEF SerialSpec

\* Calls that do not overlap never leave the workflow in the middle of a run:
\* whatever raised in it, and whichever transition was refused, a call that
\* ends has brought the workflow to a state that the next call can work on.
THEOREM SerialNotStranded == SerialSpec => []NotStranded
<1>1. Serial => NotStranded
  BY DEF Serial, NotStranded, Quiet, Active, AtRest
<1> QED BY <1>1, SerialAlways, PTL


\* A step commits a write, or leaves the row.
LEMMA RowChanges ==
  ASSUME Typed, Next
  PROVE  row' = row \/ \E c \in Callers : Commit(c)
<1>1. CASE OpenCall
  BY <1>1, OpenCallGoes
<1>2. ASSUME NEW c \in Callers, Step(c), ~ Commit(c) PROVE row' = row
  BY <1>2 DEF Step, Select, Refuse, Refresh, Begin, Understand, ApplyDecision, Raise
<1> QED BY <1>1, <1>2 DEF Next

\* What a committed write was checked for, on the row as it is.
LEMMA SerialWrite ==
  ASSUME Typed, Serial, NEW c \in Callers, Commit(c), OneAtATime'
  PROVE  LET w == Head(session[c].todo)
         IN  /\ w \in Write /\ w.do \notin Deciding /\ row' = Written(w, row)
             /\ w.do \in {"move", "fail"} => Service!CanMove(row, Target(w))
             /\ w.do \in {"pause", "hold", "cancel", "intent", "force"} =>
                  ~ IsTerminal(row.state)
             /\ w.do \in {"pause", "hold"} => ~ row.paused
             /\ w.do = "resume" => row.paused
             /\ w.do = "cancel" => ValidTransition(row.state, "CANCELLED")
             /\ w.do = "retry" => row.state = "FAILED" /\ row.retries < MaxRetries
<1> DEFINE k == session[c]
           w == Head(k.todo)
<1>1. /\ WellFormed(k) /\ k.step # "written" /\ w \in Write /\ w.do \notin Deciding
      /\ k.step = "selected" \/ (~ Versioned(w) /\ Permits(w, k.copy))
  BY CommitBecomes
<1>2. Active(c) /\ k.copy = row /\ row' = Written(w, row)
  BY SerialCommit DEF Commit, At
<1>3. ASSUME w.do \in {"move", "fail"} PROVE Service!CanMove(row, Target(w))
  <2>1. k.step = "selected" /\ w.do # "force"
    BY <1>1, <1>3 DEF Versioned
  <2>2. /\ ~ IsTerminal(row.state) /\ ~ row.paused
        /\ ValidTransition(row.state, Target(w))
    BY <1>1, <1>2, <2>1 DEF WellFormed, Passed
  <2> QED BY <2>2, ServiceChecks
<1>4. ASSUME w.do = "pause" PROVE ~ IsTerminal(row.state) /\ ~ row.paused
  <2>1. ~ Versioned(w)
    BY <1>4 DEF Versioned
  <2>2. Permits(w, row)
    BY <1>1, <1>2, <2>1 DEF WellFormed
  <2> QED BY <1>4, <2>2 DEF Permits
<1>5. /\ w.do \in {"hold", "intent", "force"} => ~ IsTerminal(row.state) /\ ~ row.paused
      /\ w.do = "resume" => row.paused
      /\ w.do = "cancel" => ~ IsTerminal(row.state) /\ ValidTransition(row.state, "CANCELLED")
      /\ w.do = "retry" => row.state = "FAILED" /\ row.retries < MaxRetries
  BY <1>1, <1>2, SerialReady
<1> QED BY <1>1, <1>2, <1>3, <1>4, <1>5

\* A workflow in a terminal state is only written by a resumption.
LEMMA SerialTerminal ==
  ASSUME Typed, Serial, [Next /\ OneAtATime']_vars, IsTerminal(row.state)
  PROVE  row'.state = row.state
<1>1. ASSUME NEW c \in Callers, Commit(c), OneAtATime' PROVE row'.state = row.state
  <2> DEFINE w == Head(session[c].todo)
  <2>1. /\ w \in Write /\ w.do \notin Deciding /\ row' = Written(w, row)
        /\ w.do \in {"move", "fail"} => Service!CanMove(row, Target(w))
        /\ w.do \in {"pause", "hold", "cancel", "intent", "force"} => ~ IsTerminal(row.state)
        /\ w.do = "retry" => row.state = "FAILED"
    BY <1>1, SerialWrite
  <2> HIDE DEF w
  <2>2. ~ IsTerminal("FAILED")
    BY DEF IsTerminal, TERMINAL_STATES
  <2>3. w.do = "resume"
    BY <2>1, <2>2, ServiceChecks, WriteKinds DEF Plain, Deciding
  <2> QED BY <2>1, <2>3, WrittenRow DEF StateAfter, Versioned, Typed
<1> QED BY <1>1, RowChanges DEF vars

\* Calls that do not overlap never take a workflow out of a terminal state,
\* although resume_workflow and the failure that _mark_failed forces look at
\* no state and cancel_workflow and retry_workflow look at it when the call
\* begins only.
THEOREM SerialTerminalIsFinal == SerialSpec => TerminalIsFinal
<1>1. Typed /\ Serial /\ [Next /\ OneAtATime']_vars
        => [IsTerminal(row.state) => row'.state = row.state]_vars
  BY SerialTerminal
<1> QED BY <1>1, SerialAlways, PTL DEF SerialSpec, TerminalIsFinal


\* What a commit leaves to record, and a step that goes on.
LEMMA ToldKept ==
  ASSUME Typed, NEW c \in Callers, NEW k, Becomes(c, k), ledger' = ledger,
         Pending(c) = << >>, k # Closed => k.entry = << >>
  PROVE  Told' = Told
<1>1. Pending(c)' = Pending(c) /\ \A d \in Callers \ {c} : Pending(d)' = Pending(d)
  BY PendingBecomes
<1>2. Pending(Api)' = Pending(Api) /\ Pending(Scheduler)' = Pending(Scheduler)
  BY <1>1 DEF Callers
<1> QED BY <1>2 DEF Told

\* The only call's entry is the end of what the ledger will show.
LEMMA ToldOfOne ==
  ASSUME Typed, NEW c \in Callers, \A d \in Callers \ {c} : Pending(d) = << >>
  PROVE  Told = ledger \o Pending(c) /\ Told \in Seq(Transition)
<1>1. ledger \in Seq(Transition) /\ Pending(c) \in Seq(Transition)
  BY PendingList DEF Typed
<1>2. CASE c = Api
  <2>1. Pending(Scheduler) = << >>
    BY <1>2, CallersAssumption DEF Callers
  <2> DEFINE p == Pending(Api)
  <2>2. (ledger \o p) \o << >> = ledger \o p /\ ledger \o p \in Seq(Transition)
    <3> HIDE DEF p
    <3>1. p \in Seq(Transition)
      BY <1>1, <1>2 DEF p
    <3> QED BY <1>1, <3>1
  <2> QED BY <1>2, <2>1, <2>2 DEF Told
<1>3. CASE c = Scheduler
  <2>1. Pending(Api) = << >>
    BY <1>3, CallersAssumption DEF Callers
  <2> DEFINE p == Pending(Scheduler)
  <2>2. (ledger \o << >>) \o p = ledger \o p /\ ledger \o p \in Seq(Transition)
    <3> HIDE DEF p
    <3>1. p \in Seq(Transition)
      BY <1>1, <1>3 DEF p
    <3> QED BY <1>1, <3>1
  <2> QED BY <1>3, <2>1, <2>2 DEF Told
<1> QED BY <1>2, <1>3 DEF Callers

\* The same of the next state.
LEMMA ToldOfOneNext ==
  ASSUME Typed', NEW c \in Callers, \A d \in Callers \ {c} : Pending(d)' = << >>
  PROVE  Told' = ledger' \o Pending(c)'
<1> DEFINE l == ledger'
           a == Pending(Api)'
           b == Pending(Scheduler)'
<1>1. l \in Seq(Transition) /\ a \in Seq(Transition) /\ b \in Seq(Transition)
  BY PendingListNext DEF Typed, Callers
<1>2. Told' = l \o a \o b
  BY DEF Told
<1>3. CASE c = Api
  <2>1. b = << >>
    BY <1>3, CallersAssumption DEF Callers
  <2> HIDE DEF l, a, b
  <2>2. Told' = l \o a
    BY <1>1, <1>2, <2>1
  <2> QED BY <1>3, <2>2 DEF l, a
<1>4. CASE c = Scheduler
  <2>1. a = << >>
    BY <1>4, CallersAssumption DEF Callers
  <2> HIDE DEF l, a, b
  <2>2. Told' = l \o b
    BY <1>1, <1>2, <2>1
  <2> QED BY <1>4, <2>2 DEF l, b
<1> QED BY <1>3, <1>4 DEF Callers


\* A commit of the only call adds its entry.
LEMMA ToldCommit ==
  ASSUME Typed, Typed', Serial, NEW c \in Callers, Commit(c)
  PROVE  LET e == Entry(Head(session[c].todo), session[c].copy)
         IN  Told' = Told \o e /\ Told \in Seq(Transition)
<1> DEFINE k == session[c]
           w == Head(k.todo)
           e == Entry(w, k.copy)
           n == [ step |-> "written", copy |-> Written(w, k.copy), todo |-> k.todo,
                  run |-> k.run, entry |-> e ]
<1>1. /\ WellFormed(n) /\ Becomes(c, n) /\ ledger' = ledger /\ k.step # "written" /\ Active(c)
  BY CommitBecomes DEF Commit, At
<1>2. \A d \in Callers \ {c} : session[d] = Closed
  BY <1>1, OnlyCall
<1>3. \A d \in Callers \ {c} : Pending(d) = << >>
  BY <1>2 DEF Pending, Active
<1>4. Pending(c) = << >>
  BY <1>1, NothingPending
<1>5. Told = ledger \o Pending(c) /\ Told \in Seq(Transition) /\ ledger \in Seq(Transition)
  BY <1>3, ToldOfOne DEF Typed
<1>6. n # Closed /\ n.entry = e
  <2>1. n \in Ongoing
    BY <1>1 DEF WellFormed
  <2> QED BY <2>1, OngoingIsOpen
<1> HIDE DEF n
<1>7. Pending(c)' = e /\ \A d \in Callers \ {c} : Pending(d)' = << >>
  BY <1>1, <1>3, <1>6, PendingBecomes
<1>8. Told' = ledger' \o e
  BY <1>7, ToldOfOneNext
<1> HIDE DEF e
<1>9. Told = ledger
  BY <1>4, <1>5
<1> QED BY <1>1, <1>5, <1>8, <1>9 DEF e

\* Recording the entry changes nothing of what the ledger will show.
LEMMA ToldRefresh ==
  ASSUME Typed, Typed', Serial, NEW c \in Callers, Refresh(c)
  PROVE  Told' = Told
<1> DEFINE k == session[c]
           n == IF Tail(k.todo) = << >> THEN Closed ELSE Ready(Tail(k.todo), row, k.run)
<1>1. /\ ledger' = ledger \o k.entry /\ Becomes(c, n) /\ Active(c)
  BY RefreshGoes DEF Refresh, At, Goes
<1>2. n # Closed => n.entry = << >>
  BY DEF Ready
<1> HIDE DEF n
<1>3. \A d \in Callers \ {c} : Pending(d) = << >>
  <2>1. \A d \in Callers \ {c} : session[d] = Closed
    BY <1>1, OnlyCall
  <2> QED BY <2>1 DEF Pending, Active
<1>4. Told = ledger \o Pending(c) /\ Pending(c) = k.entry
  BY <1>1, <1>3, ToldOfOne DEF Pending
<1>5. Pending(c)' = << >> /\ \A d \in Callers \ {c} : Pending(d)' = << >>
  BY <1>1, <1>2, <1>3, PendingBecomes
<1>6. Told' = ledger' \o << >> /\ ledger' \in Seq(Transition)
  BY <1>5, ToldOfOneNext DEF Typed
<1> QED BY <1>1, <1>4, <1>6

\* What is written and recorded at once is an operation of the service.
LEMMA ServiceOperations ==
  ASSUME NEW u, u = Unversioned(row), NEW v, v = Unversioned(row)', NEW told, Told' = told
  PROVE  /\ \A to \in WorkflowState :
              /\ Service!CanMove(u, to) /\ v = Service!MovedTo(u, to)
              /\ told = Told \o <<Service!Edge(u.state, to)>>
              => Service!TransitionWorkflow("w", to)
         /\ v = [u EXCEPT !.intent = TRUE] /\ told = Told => Service!SetIntent("w")
         /\ ~ IsTerminal(u.state) /\ ~ u.paused /\ v = Service!Paused(u) /\ told = Told
              => Service!PauseWorkflow("w")
         /\ u.paused /\ v = Service!Resumed(u) /\ told = Told
              => Service!ResumeWorkflow("w")
         /\ /\ ~ IsTerminal(u.state) /\ ValidTransition(u.state, "CANCELLED")
            /\ v = Service!Cancelled(u)
            /\ told = Told \o <<Service!Edge(u.state, "CANCELLED")>>
            => Service!CancelWorkflow("w")
<1> DEFINE before == [w \in {"w"} |-> Unversioned(row)]
           ledgers == [w \in {"w"} |-> Told]
<1>1. before["w"] = u /\ ledgers["w"] = Told
  OBVIOUS
<1>2. \A x : v = x => before' = [before EXCEPT !["w"] = x]
  OBVIOUS
<1>3. /\ \A list : told = Told \o list =>
           ledgers' = [ledgers EXCEPT !["w"] = ledgers["w"] \o list]
      /\ told = Told => ledgers' = ledgers
  OBVIOUS
<1>4. ASSUME NEW to \in WorkflowState, Service!CanMove(u, to), v = Service!MovedTo(u, to),
             told = Told \o <<Service!Edge(u.state, to)>>
      PROVE  Service!TransitionWorkflow("w", to)
  BY <1>1, <1>2, <1>3, <1>4 DEF Service!TransitionWorkflow, Service!WriteMove
<1>5. ASSUME v = [u EXCEPT !.intent = TRUE], told = Told PROVE Service!SetIntent("w")
  BY <1>1, <1>2, <1>3, <1>5 DEF Service!SetIntent, Service!WriteRow
<1>6. ASSUME ~ IsTerminal(u.state), ~ u.paused, v = Service!Paused(u), told = Told
      PROVE  Service!PauseWorkflow("w")
  BY <1>1, <1>2, <1>3, <1>6, ServiceChecks DEF Service!PauseWorkflow, Service!WriteRow
<1>7. ASSUME u.paused, v = Service!Resumed(u), told = Told PROVE Service!ResumeWorkflow("w")
  BY <1>1, <1>2, <1>3, <1>7 DEF Service!ResumeWorkflow, Service!WriteRow
<1>8. ASSUME ~ IsTerminal(u.state), ValidTransition(u.state, "CANCELLED"),
             v = Service!Cancelled(u), told = Told \o <<Service!Edge(u.state, "CANCELLED")>>
      PROVE  Service!CancelWorkflow("w")
  BY <1>1, <1>2, <1>3, <1>8, ServiceChecks DEF Service!CancelWorkflow, Service!WriteMove
<1> QED BY <1>4, <1>5, <1>6, <1>7, <1>8


\* Each commit of the only call is one operation of the service.
LEMMA SerialOperation ==
  ASSUME Typed, Typed', Serial, NEW c \in Callers, Commit(c), OneAtATime'
  PROVE  Service!WorkflowStep("w") \/ Rescheduled \/ ForcedFailure
<1> DEFINE w == Head(session[c].todo)
           u == Unversioned(row)
           v == Unversioned(row)'
           told == Told'
<1>1. /\ w \in Write /\ w.do \notin Deciding /\ row' = Written(w, row)
      /\ w.do \in {"move", "fail"} => Service!CanMove(row, Target(w))
      /\ w.do \in {"pause", "hold", "cancel", "intent", "force"} => ~ IsTerminal(row.state)
      /\ w.do \in {"pause", "hold"} => ~ row.paused
      /\ w.do = "resume" => row.paused
      /\ w.do = "cancel" => ValidTransition(row.state, "CANCELLED")
      /\ w.do = "retry" => row.state = "FAILED" /\ row.retries < MaxRetries
  BY SerialWrite
<1>2. row \in Row
  BY DEF Typed
<1>3. u.state = row.state /\ u.paused = row.paused /\ u.retries = row.retries
  BY <1>2, UnversionedRow
<1>4. v = Unversioned(Written(w, row))
  BY <1>1 DEF Unversioned
<1>5. /\ Versioned(w) => v = Service!MovedTo(u, Target(w))
      /\ w.do \in {"pause", "hold"} => v = Service!Paused(u)
      /\ w.do = "resume" => v = Service!Resumed(u)
      /\ w.do = "cancel" => v = Service!Cancelled(u)
      /\ w.do = "retry" => v = Service!RetryScheduled(u)
      /\ w.do = "intent" => v = [u EXCEPT !.intent = TRUE]
  BY <1>1, <1>2, <1>4, WrittenUnversioned
<1>6. told = Told \o Entry(w, row) /\ Told \in Seq(Transition)
  <2>1. session[c].copy = row
    BY SerialCommit
  <2> QED BY <2>1, ToldCommit
<1>7. Told \o << >> = Told
  BY <1>6
<1>8. w.do \notin {"move", "fail", "cancel", "retry"} => told = Told
  <2>1. w.do \notin {"move", "fail", "cancel", "retry"} => Entry(w, row) = << >>
    BY DEF Entry
  <2> QED BY <1>6, <1>7, <2>1
<1>9. /\ \A to \in WorkflowState :
           /\ Service!CanMove(u, to) /\ v = Service!MovedTo(u, to)
           /\ told = Told \o <<Service!Edge(u.state, to)>>
           => Service!TransitionWorkflow("w", to)
      /\ v = [u EXCEPT !.intent = TRUE] /\ told = Told => Service!SetIntent("w")
      /\ ~ IsTerminal(u.state) /\ ~ u.paused /\ v = Service!Paused(u) /\ told = Told
           => Service!PauseWorkflow("w")
      /\ u.paused /\ v = Service!Resumed(u) /\ told = Told
           => Service!ResumeWorkflow("w")
      /\ /\ ~ IsTerminal(u.state) /\ ValidTransition(u.state, "CANCELLED")
         /\ v = Service!Cancelled(u)
         /\ told = Told \o <<Service!Edge(u.state, "CANCELLED")>>
         => Service!CancelWorkflow("w")
  BY ServiceOperations
<1>10. CASE w.do \in {"move", "fail"}
  <2>1. Target(w) \in WorkflowState
    BY <1>1, <1>10, WriteKinds DEF Target, Goals, WorkflowState, Plain
  <2>2. Service!CanMove(u, Target(w))
    <3>1. /\ ~ IsTerminal(row.state) /\ ~ row.paused
          /\ ValidTransition(row.state, Target(w))
      BY <1>1, <1>10, ServiceChecks
    <3> QED BY <1>3, <3>1, ServiceChecks
  <2>3. Entry(w, row) = <<Service!Edge(u.state, Target(w))>>
    BY <1>3, <1>10 DEF Entry
  <2>4. v = Service!MovedTo(u, Target(w))
    BY <1>5, <1>10 DEF Versioned
  <2>5. Service!TransitionWorkflow("w", Target(w))
    <3> HIDE DEF u, v, told
    <3> QED BY <1>6, <1>9, <2>1, <2>2, <2>3, <2>4
  <2> QED BY <2>1, <2>5 DEF Service!WorkflowStep
<1>11. CASE w.do = "force"
  <2>1. v = Service!MovedTo(u, "FAILED")
    BY <1>5, <1>11 DEF Versioned, Target
  <2>2. told = Told
    BY <1>8, <1>11
  <2> QED BY <2>1, <2>2 DEF ForcedFailure
<1>12. CASE w.do = "retry"
  <2>1. told = Append(Told, Service!Edge("FAILED", "RETRY_SCHEDULED"))
    <3> DEFINE e == Service!Edge("FAILED", "RETRY_SCHEDULED")
    <3>1. Entry(w, row) = <<e>>
      BY <1>12 DEF Entry
    <3>2. e \in Transition
      BY DEF Service!Edge, Transition, WorkflowState
    <3> HIDE DEF e, told
    <3>3. told = Told \o <<e>>
      BY <1>6, <3>1
    <3>4. ASSUME NEW s \in Seq(Transition) PROVE s \o <<e>> = Append(s, e)
      BY <3>2
    <3>5. told = Append(Told, e)
      BY <1>6, <3>3, <3>4
    <3> QED BY <3>5 DEF e
  <2>2. v = Service!RetryScheduled(u) /\ row.state = "FAILED" /\ row.retries < MaxRetries
    BY <1>1, <1>5, <1>12
  <2> QED BY <2>1, <2>2 DEF Rescheduled
<1>13. CASE w.do \in {"pause", "hold"}
  <2>1. Service!PauseWorkflow("w")
    <3>1. told = Told
      BY <1>8, <1>13
    <3> HIDE DEF u, v, told
    <3> QED BY <1>1, <1>3, <1>5, <1>9, <1>13, <3>1
  <2> QED BY <2>1 DEF Service!WorkflowStep
<1>14. CASE w.do = "resume"
  <2>1. Service!ResumeWorkflow("w")
    <3>1. told = Told
      BY <1>8, <1>14
    <3> HIDE DEF u, v, told
    <3> QED BY <1>1, <1>3, <1>5, <1>9, <1>14, <3>1
  <2> QED BY <2>1 DEF Service!WorkflowStep
<1>15. CASE w.do = "intent"
  <2>1. Service!SetIntent("w")
    <3>1. told = Told
      BY <1>8, <1>15
    <3> HIDE DEF u, v, told
    <3> QED BY <1>1, <1>5, <1>9, <1>15, <3>1
  <2> QED BY <2>1 DEF Service!WorkflowStep
<1>16. CASE w.do = "cancel"
  <2>1. Entry(w, row) = <<Service!Edge(u.state, "CANCELLED")>>
    BY <1>3, <1>16 DEF Entry
  <2>2. Service!CancelWorkflow("w")
    <3> HIDE DEF u, v, told
    <3> QED BY <1>1, <1>3, <1>5, <1>6, <1>9, <1>16, <2>1
  <2> QED BY <2>2 DEF Service!WorkflowStep
<1>17. \/ w.do \in {"move", "fail"} \/ w.do = "force" \/ w.do = "retry"
       \/ w.do \in {"pause", "hold"} \/ w.do = "resume" \/ w.do = "intent" \/ w.do = "cancel"
  BY <1>1, WriteKinds DEF Plain, Deciding
<1> QED BY <1>10, <1>11, <1>12, <1>13, <1>14, <1>15, <1>16, <1>17

\* Every other step leaves the row, and what the ledger will show.
LEMMA SerialKept ==
  ASSUME Typed, Typed', Serial, [Next /\ OneAtATime']_vars, \A c \in Callers : ~ Commit(c)
  PROVE  Unversioned(row)' = Unversioned(row) /\ Told' = Told
<1>1. row' = row
  BY RowChanges DEF vars
<1>2. ASSUME NEW c \in Callers, NEW todo, NEW copy, NEW run, Goes(c, todo, copy, run),
             ~ Active(c) \/ session[c].step # "written", ledger' = ledger
      PROVE  Told' = Told
  <2> DEFINE k == IF todo = << >> THEN Closed ELSE Ready(todo, copy, run)
  <2>1. Becomes(c, k)
    BY <1>2 DEF Goes
  <2>2. k # Closed => k.entry = << >>
    BY DEF Ready
  <2> HIDE DEF k
  <2> QED BY <1>2, <2>1, <2>2, NothingPending, ToldKept
<1>3. CASE OpenCall
  BY <1>2, <1>3, OpenCallGoes
<1>4. ASSUME NEW c \in Callers, Select(c) PROVE Told' = Told
  <2> DEFINE k == session[c]
             n == [ step |-> "selected", copy |-> k.copy, todo |-> k.todo, run |-> k.run,
                    entry |-> << >> ]
  <2>1. k.step = "ready" /\ Becomes(c, n) /\ ledger' = ledger /\ n.entry = << >>
    BY <1>4, SelectBecomes
  <2> HIDE DEF n
  <2> QED BY <2>1, NothingPending, ToldKept
<1>5. ASSUME NEW c \in Callers, Refuse(c) PROVE Told' = Told
  BY <1>2, <1>5, RefuseGoes
<1>6. ASSUME NEW c \in Callers, Refresh(c) PROVE Told' = Told
  BY <1>6, ToldRefresh
<1>7. ASSUME NEW c \in Callers, Begin(c) PROVE Told' = Told
  BY <1>2, <1>7, BeginGoes
<1>8. ASSUME NEW c \in Callers, Understand(c) \/ ApplyDecision(c) PROVE Told' = Told
  BY <1>2, <1>8, DecidingGoes
<1>9. ASSUME NEW c \in Callers, Raise(c) PROVE Told' = Told
  BY <1>2, <1>9, RaiseGoes
<1>10. CASE UNCHANGED vars
  BY <1>10 DEF vars, Told, Pending, Active
<1>11. Unversioned(row)' = Unversioned(row)
  BY <1>1 DEF Unversioned
<1> QED BY <1>3, <1>4, <1>5, <1>6, <1>7, <1>8, <1>9, <1>10, <1>11 DEF Next, Step

\* Calls that do not overlap are atomic, although each is a sequence of
\* selects, commits and refreshes on a copy of the row: each commit of theirs
\* is an operation of WorkflowService on the row as it is and on its ledger,
\* the first half of a retry, or a failure forced without an edge.
THEOREM SerialCommitsAreOperations == SerialSpec => CommitsAreOperations
<1>1. Typed /\ [Next /\ OneAtATime']_vars => Typed'
  BY TypedStep DEF AnyStep
<1>2. Typed /\ Typed' /\ Serial /\ [Next /\ OneAtATime']_vars
        => [Service!WorkflowStep("w") \/ Rescheduled \/ ForcedFailure]_<<Unversioned(row), Told>>
  <2> SUFFICES ASSUME Typed, Typed', Serial, [Next /\ OneAtATime']_vars
               PROVE  [Service!WorkflowStep("w") \/ Rescheduled \/ ForcedFailure]_<<Unversioned(row), Told>>
    OBVIOUS
  <2>1. CASE \E c \in Callers : Commit(c) /\ OneAtATime'
    BY <2>1, SerialOperation
  <2>2. CASE \A c \in Callers : ~ Commit(c)
    BY <2>2, SerialKept
  <2>3. CASE UNCHANGED vars
    BY <2>3 DEF vars, Unversioned, Told, Pending, Active
  <2> QED BY <2>1, <2>2, <2>3
<1> QED BY <1>1, <1>2, SerialAlways, PTL DEF SerialSpec, CommitsAreOperations
===============================================================================
