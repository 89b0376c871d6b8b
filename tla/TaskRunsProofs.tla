--------------------------- MODULE TaskRunsProofs ---------------------------
(***************************************************************************)
(* What holds of scheduled tasks and their runs for any number of tasks,   *)
(* runs, retries and workflows: the types, that a run is in the hands of   *)
(* one worker, the budget of retries, that a finished run is final, what a *)
(* run that succeeded has done, and that a task is dispatched as often as  *)
(* its time comes.                                                         *)
(*                                                                         *)
(* ControlInv relates a run to the worker that attempts it and is          *)
(* inductive by itself; ResultsInv and FiresInv build on it.               *)
(***************************************************************************)
EXTENDS TaskRuns, SequenceTheorems, FiniteSetTheorems, TLAPS

ControlTypes ==
  /\ tasks \in [Tasks -> TaskRow]
  /\ runs \in [Runs -> RunRow]
  /\ workers \in [Workers -> Worker]
  /\ queue \in [runs : SUBSET Runs, tasks : SUBSET Tasks, open : BOOLEAN,
             loaded : BOOLEAN]
  /\ attempts \in [Runs -> Nat]
  /\ fires \in [Tasks -> Nat]
  /\ lost \subseteq Runs
  /\ interrupts \in Nat

Attempting == {"begin", "create", "items"}

\* The status of the run that a worker holds tells how far the worker is.
StatusHeld(k) ==
  IF k.step # "begin" THEN "RUNNING" ELSE IF k.fresh THEN "PENDING" ELSE "RETRY_SCHEDULED"

WorkerFits(p) ==
  LET k == workers[p]
  IN  /\ k.run # Nil <=> k.step \in Attempting
      /\ k.run # Nil =>
           /\ k.task = runs[k.run].task /\ runs[k.run].status = StatusHeld(k)
           /\ k.fresh \/ p = "dispatcher"
      /\ k.step = "moveNext" => k.task \in Tasks

\* Two workers hold two runs.
Apart ==
  \A p, q \in Workers : p # q /\ workers[p].run # Nil => workers[p].run # workers[q].run

\* How often a run was attempted follows from its status and its retries.
RunFits(r) ==
  LET row == runs[r]
      max == MaxRetries[row.task]
  IN  /\ row.status # "none" => row.task \in Tasks /\ row.retries <= max
      /\ row.status \in {"none", "PENDING"} => row.retries = 0 /\ attempts[r] = 0
      /\ row.status = "RETRY_SCHEDULED" => attempts[r] = row.retries
      /\ row.status \in {"RUNNING", "SUCCESS", "FAILED"} => attempts[r] = row.retries + 1
      /\ row.status = "FAILED" => row.retries = max
      /\ row.status # "RETRY_SCHEDULED" => row.retryAt = "none"

\* A run is left alone by its worker only when that is interrupted.
Attended(r) ==
  runs[r].status \in {"PENDING", "RUNNING"} /\ r \notin lost =>
    \E p \in Workers : Holds(p, r)

\* What the dispatcher has read as due for a retry still is.
QueueFits ==
  \A r \in queue.runs :
    runs[r].status = "RETRY_SCHEDULED" /\ \A p \in Workers : ~ Holds(p, r)

ControlInv ==
  /\ ControlTypes
  /\ \A p \in Workers : WorkerFits(p)
  /\ Apart
  /\ \A r \in Runs : RunFits(r) /\ Attended(r)
  /\ QueueFits

-----------------------------------------------------------------------------
(***************************************************************************)
(* The results of a run and its workflows.                                 *)
(***************************************************************************)

\* The outcomes in the hands of a worker, if there are any, are those of the
\* workflows ws of its run, in order; and as long as none failed, all so far are
\* successes of attempt n, each of which made the session forget the row.
ItemsFit(k, row, ws, n) ==
  /\ k.step = "begin" => k.items = << >> /\ k.item = 0 /\ ~ k.failed /\ ~ k.wrote
  /\ k.step = "begin" /\ k.fresh => row.results = Nil /\ ws = << >>
  /\ k.step = "create" =>
       /\ row.results = Nil /\ Len(k.items) = Len(ws)
       /\ k.item = 0 /\ ~ k.failed /\ ~ k.wrote
  /\ k.step = "items" =>
       /\ k.item <= Len(k.items)
       /\ Len(k.items) > 0 => Len(k.items) = Len(ws)
       /\ Len(k.items) = 0 => row.results \in {Nil, << >>}
       /\ ~ k.failed /\ k.item > 0 => k.wrote
       /\ ~ k.failed => \A i \in 1 .. k.item : k.items[i] /\ ws[i].doneAt = n

\* Results that are stored are those of all workflows of the run.
ResultsFit(row, ws, n) ==
  /\ row.status = "none" => row.results = Nil /\ ws = << >>
  /\ row.results \in {Nil, << >>} \/ Len(row.results) = Len(ws)
  /\ row.status = "SUCCESS" /\ row.results # << >> =>
       /\ Len(ws) = Len(row.results)
       /\ \A i \in 1 .. Len(ws) : row.results[i] /\ ws[i].doneAt = n

WorkerItemsFit(p) ==
  LET k == workers[p]
  IN  k.run # Nil => ItemsFit(k, runs[k.run], workflows[k.run], attempts[k.run])

ResultsInv ==
  /\ workflows \in [Runs -> Seq(Workflow)]
  /\ \A p \in Workers : WorkerItemsFit(p)
  /\ \A r \in Runs : ResultsFit(runs[r], workflows[r], attempts[r])

-----------------------------------------------------------------------------
(***************************************************************************)
(* The dispatches of a task.                                               *)
(***************************************************************************)
Dispatched(t) == {r \in Runs : runs[r].task = t /\ runs[r].by = "dispatcher"}

\* The dispatcher has created the run of the task, and not yet moved
\* next_run_at.
InHand(t) ==
  LET k == workers["dispatcher"]
  IN  k.task = t /\ (k.step = "moveNext" \/ (k.run # Nil /\ k.fresh))

\* The task is, or was when the dispatcher looked, due and has no run for it.
Owed(t) == ~ InHand(t) /\ (t \in queue.tasks \/ tasks[t].next = "due")

FiresFit(t) ==
  /\ IsFiniteSet(Dispatched(t))
  /\ Cardinality(Dispatched(t)) + (IF Owed(t) THEN 1 ELSE 0) <= fires[t] + interrupts
  /\ InHand(t) => t \notin queue.tasks

FiresInv ==
  /\ queue.open => queue.tasks = {}
  /\ \A t \in Tasks : FiresFit(t)

-----------------------------------------------------------------------------
(***************************************************************************)
(* The control invariant: what one worker does to one run.                 *)
(***************************************************************************)

\* What a run, its attempts and its worker are after a step of that worker fit
\* together.
Fit(p, r, next, row, n) ==
  /\ next \in Worker /\ row \in RunRow /\ n \in Nat
  /\ next.run \in {r, Nil}
  /\ next.run # Nil <=> next.step \in Attempting
  /\ next.run # Nil =>
       /\ next.task = row.task /\ row.status = StatusHeld(next)
       /\ next.fresh \/ p = "dispatcher"
  /\ next.step = "moveNext" => next.task \in Tasks
  /\ row.status # "none" => row.task \in Tasks /\ row.retries <= MaxRetries[row.task]
  /\ row.status \in {"none", "PENDING"} => row.retries = 0 /\ n = 0
  /\ row.status = "RETRY_SCHEDULED" => n = row.retries
  /\ row.status \in {"RUNNING", "SUCCESS", "FAILED"} => n = row.retries + 1
  /\ row.status = "FAILED" => row.retries = MaxRetries[row.task]
  /\ row.status # "RETRY_SCHEDULED" => row.retryAt = "none"
  /\ row.status \in {"PENDING", "RUNNING"} => next.run = r

\* A step of a worker that has run r, or no run and takes r, which nobody else
\* has.
Handles(p, r, next, row, n) ==
  /\ Fit(p, r, next, row, n)
  /\ workers[p].run \in {r, Nil}
  /\ \A q \in Workers : q # p => workers[q].run # r
  /\ workers' = [workers EXCEPT ![p] = next]
  /\ runs' = [runs EXCEPT ![r] = row]
  /\ attempts' = [attempts EXCEPT ![r] = n]
  /\ queue' \in [runs : SUBSET Runs, tasks : SUBSET Tasks, open : BOOLEAN,
                 loaded : BOOLEAN]
  /\ queue'.runs \subseteq queue.runs \ {r}
  /\ UNCHANGED <<tasks, fires, lost, interrupts>>

\* It keeps the control invariant.
LEMMA HandlesKeeps ==
  ASSUME ControlInv, NEW p \in Workers, NEW r \in Runs, NEW next, NEW row, NEW n,
         Handles(p, r, next, row, n)
  PROVE  ControlInv'
<1> USE DEF Handles
<1> r # Nil
  BY NilAssumption
<1>1. ControlTypes'
  BY DEF ControlInv, ControlTypes, Fit
<1>2. /\ workers'[p] = next /\ runs'[r] = row /\ attempts'[r] = n
      /\ \A q \in Workers : q # p => workers'[q] = workers[q]
      /\ \A s \in Runs : s # r => runs'[s] = runs[s] /\ attempts'[s] = attempts[s]
      /\ \A q \in Workers : workers[q].run \in Runs \cup {Nil}
  BY DEF ControlInv, ControlTypes, Worker
<1>3. ASSUME NEW q \in Workers
      PROVE  WorkerFits(q)'
  <2>1. CASE q = p
    BY <2>1, <1>2 DEF WorkerFits, Fit
  <2>2. CASE q # p
    BY <2>2, <1>2 DEF WorkerFits, ControlInv
  <2> QED BY <2>1, <2>2
<1>4. Apart'
  BY <1>2 DEF Apart, ControlInv, Fit
<1>5. ASSUME NEW s \in Runs
      PROVE  RunFits(s)' /\ Attended(s)'
  <2>1. CASE s = r
    <3>1. RunFits(s)'
      BY <2>1, <1>2 DEF RunFits, Fit
    <3>2. runs'[s].status \in {"PENDING", "RUNNING"} => Holds(p, s)'
      BY <2>1, <1>2 DEF Holds, Fit
    <3>3. Attended(s)'
      BY <3>2 DEF Attended
    <3> QED
      BY <3>1, <3>3
  <2>2. CASE s # r
    <3>1. RunFits(s)'
      BY <2>2, <1>2 DEF RunFits, ControlInv
    <3>2. \A q \in Workers : Holds(q, s) => Holds(q, s)'
      BY <2>2, <1>2, NilAssumption DEF Holds
    <3> QED
      BY <2>2, <1>2, <3>1, <3>2 DEF Attended, ControlInv
  <2> QED BY <2>1, <2>2
<1>6. QueueFits'
  <2> SUFFICES ASSUME NEW s \in queue'.runs
               PROVE  runs'[s].status = "RETRY_SCHEDULED"
                      /\ \A q \in Workers : workers'[q].run # s
    BY DEF QueueFits, Holds
  <2>1. s \in queue.runs /\ s # r /\ s \in Runs
    OBVIOUS
  <2>2. s # Nil
    BY <2>1, NilAssumption
  <2> QED
    BY <2>1, <2>2, <1>2 DEF QueueFits, Holds, ControlInv, Fit
<1> QED
  BY <1>1, <1>3, <1>4, <1>5, <1>6 DEF ControlInv

\* What is known of a worker that attempts a run.
LEMMA Attempted ==
  ASSUME ControlInv, NEW p \in Workers, workers[p].step \in Attempting
  PROVE  LET k == workers[p]
             r == k.run
         IN  /\ k \in Worker /\ r \in Runs /\ r # Nil /\ r \notin queue.runs
             /\ runs[r] \in RunRow /\ runs[r].task = k.task /\ k.task \in Tasks
             /\ runs[r].status = StatusHeld(k) /\ RunFits(r)
             /\ k.fresh \/ p = "dispatcher"
             /\ \A q \in Workers : q # p => workers[q].run # r
<1> DEFINE k == workers[p]
           r == k.run
<1>1. k \in Worker /\ r # Nil
  BY DEF ControlInv, ControlTypes, WorkerFits
<1>2. r \in Runs
  BY <1>1 DEF Worker
<1>3. /\ runs[r].task = k.task /\ runs[r].status = StatusHeld(k)
      /\ k.fresh \/ p = "dispatcher"
  BY <1>1 DEF ControlInv, WorkerFits
<1>4. runs[r] \in RunRow /\ RunFits(r)
  BY <1>2 DEF ControlInv, ControlTypes
<1>5. k.task \in Tasks
  BY <1>3, <1>4 DEF RunFits, StatusHeld
<1>6. r \notin queue.runs
  BY DEF ControlInv, QueueFits, Holds
<1>7. \A q \in Workers : q # p => workers[q].run # r
  BY <1>1 DEF ControlInv, Apart
<1> QED
  BY <1>1, <1>2, <1>3, <1>4, <1>5, <1>6, <1>7

\* An attempt that goes on, with its run as it is.
LEMMA GoesOnKeeps ==
  ASSUME ControlInv, NEW p \in Workers, workers[p].step \in {"create", "items"},
         NEW next \in Worker, next.step \in {"create", "items"},
         next.run = workers[p].run, next.task = workers[p].task,
         next.fresh = workers[p].fresh,
         Now(p, next), UNCHANGED <<tasks, runs, queue, history>>
  PROVE  ControlInv'
<1> DEFINE r == workers[p].run
<1>1. /\ r \in Runs /\ r # Nil /\ r \notin queue.runs /\ runs[r] \in RunRow
      /\ runs[r].task = next.task /\ next.task \in Tasks /\ runs[r].status = "RUNNING"
      /\ RunFits(r) /\ (next.fresh \/ p = "dispatcher")
      /\ \A q \in Workers : q # p => workers[q].run # r
  BY Attempted DEF Attempting, StatusHeld
<1>2. attempts[r] \in Nat
  BY <1>1 DEF ControlInv, ControlTypes
<1>3. Fit(p, r, next, runs[r], attempts[r])
  BY <1>1, <1>2 DEF Fit, RunFits, StatusHeld, Attempting
<1>4. /\ runs' = [runs EXCEPT ![r] = runs[r]]
      /\ attempts' = [attempts EXCEPT ![r] = attempts[r]]
  BY <1>1 DEF history, ControlInv, ControlTypes
<1>5. /\ queue' \in [runs : SUBSET Runs, tasks : SUBSET Tasks, open : BOOLEAN,
                     loaded : BOOLEAN]
      /\ queue'.runs \subseteq queue.runs \ {r}
  BY <1>1 DEF ControlInv, ControlTypes
<1>6. Handles(p, r, next, runs[r], attempts[r])
  BY <1>1, <1>3, <1>4, <1>5 DEF Handles, Now, history
<1> QED
  BY <1>1, <1>6, HandlesKeeps

\* The end of an attempt: its run succeeded, failed, or waits for a retry.
Ends(row, next) ==
  /\ next \in RunRow /\ next.task = row.task /\ next.by = row.by
  /\ \/ /\ next.status = "RETRY_SCHEDULED"
        /\ next.retries = row.retries + 1 /\ next.retries <= MaxRetries[row.task]
     \/ /\ next.status \in {"SUCCESS", "FAILED"}
        /\ next.retries = row.retries /\ next.retryAt = row.retryAt
        /\ next.status = "FAILED" => row.retries = MaxRetries[row.task]

\* _schedule_retry_or_fail is one, and keeps the results.
LEMMA RetryOrFailEnds ==
  ASSUME NEW row \in RunRow, row.task \in Tasks, row.retries <= MaxRetries[row.task]
  PROVE  /\ Ends(row, ScheduleRetryOrFail(row))
         /\ ScheduleRetryOrFail(row).results = row.results
         /\ ScheduleRetryOrFail(row).status # "SUCCESS"
<1>1. MaxRetries[row.task] \in 0 .. 20 /\ row.retries \in 0 .. 20
  BY MaxRetriesAssumption DEF RunRow
<1>2. CASE row.retries < MaxRetries[row.task]
  <2> DEFINE n == row.retries + 1
  <2>1. n \in 0 .. 20 /\ n <= MaxRetries[row.task]
    BY <1>1, <1>2
  <2>2. ScheduleRetryOrFail(row) =
          [row EXCEPT !.retries = n, !.status = "RETRY_SCHEDULED", !.retryAt = "later"]
    BY <1>2 DEF ScheduleRetryOrFail
  <2> QED
    BY <2>1, <2>2 DEF Ends, RunRow, Status, Moment
<1>3. CASE ~ row.retries < MaxRetries[row.task]
  <2>1. row.retries = MaxRetries[row.task]
    BY <1>1, <1>3
  <2> QED
    BY <1>3, <2>1 DEF ScheduleRetryOrFail, Ends, RunRow, Status
<1> QED
  BY <1>2, <1>3

\* What is in the hands of a worker that ended its attempt.
LEMMA LeftHands ==
  ASSUME ControlInv, NEW p \in Workers, workers[p].step \in Attempting, Leave(p)
  PROVE  \E next \in Worker :
           /\ workers' = [workers EXCEPT ![p] = next]
           /\ next.run = Nil
           /\ IF p = "dispatcher" /\ workers[p].fresh
              THEN next.step = "moveNext" /\ next.task = workers[p].task
              ELSE next.step = "idle"
<1>1. workers[p].task \in Tasks
  BY Attempted
<1>2. Free \in Worker
  BY EmptySeq DEF Free, Worker, Step
<1>3. [Free EXCEPT !.step = "moveNext", !.task = workers[p].task] \in Worker
  BY <1>1, <1>2 DEF Worker, Step
<1> QED
  BY <1>2, <1>3 DEF Leave, Now, Free

-----------------------------------------------------------------------------
(***************************************************************************)
(* The control invariant: the actions.                                     *)
(***************************************************************************)

\* The dispatcher drops from its queue, or leaves it as it is.
QueueShrinks ==
  /\ queue' \in [runs : SUBSET Runs, tasks : SUBSET Tasks, open : BOOLEAN,
                 loaded : BOOLEAN]
  /\ queue'.runs \subseteq queue.runs

\* A new run is taken in hand by the worker that created it.
LEMMA CreateRunKeeps ==
  ASSUME ControlInv, NEW p \in Workers, NEW t \in Tasks,
         workers[p].step = "idle", CreateRun(p, t), QueueShrinks
  PROVE  ControlInv'
<1>1. PICK r \in Runs :
        /\ runs[r].status = "none"
        /\ runs' = [runs EXCEPT ![r] =
             [NoRun EXCEPT !.task = t, !.status = "PENDING", !.by = p]]
        /\ Now(p, [Free EXCEPT !.step = "begin", !.task = t, !.run = r, !.fresh = TRUE])
        /\ UNCHANGED <<tasks, workflows, history>>
  BY DEF CreateRun
<1> DEFINE row == [NoRun EXCEPT !.task = t, !.status = "PENDING", !.by = p]
           next == [Free EXCEPT !.step = "begin", !.task = t, !.run = r, !.fresh = TRUE]
<1>2. MaxRetries[t] \in 0 .. 20
  BY MaxRetriesAssumption
<1>3. row \in RunRow /\ row.task = t /\ row.status = "PENDING" /\ row.retries = 0
      /\ row.retryAt = "none"
  <2>1. NoRun \in RunRow
    BY DEF RunRow, NoRun, Status, Moment
  <2>2. "PENDING" \in Status
    BY DEF Status
  <2>3. NoRun.retries = 0 /\ NoRun.retryAt = "none"
    BY DEF NoRun
  <2> QED
    BY <2>1, <2>2, <2>3 DEF RunRow
<1>4. next \in Worker /\ next.step = "begin" /\ next.task = t /\ next.run = r /\ next.fresh
  BY EmptySeq DEF Worker, Free, Step
<1>5. workers[p].run = Nil /\ r # Nil
  BY NilAssumption DEF ControlInv, WorkerFits, Attempting
<1>6. /\ r \notin queue.runs
      /\ \A q \in Workers : workers[q].run # r
  <2>1. r \notin queue.runs
    BY <1>1 DEF ControlInv, QueueFits
  <2>2. ASSUME NEW q \in Workers, workers[q].run = r
        PROVE  FALSE
    BY <2>2, <1>1, <1>5 DEF ControlInv, WorkerFits, StatusHeld
  <2> QED BY <2>1, <2>2
<1>7. attempts[r] = 0
  BY <1>1 DEF ControlInv, RunFits
<1> HIDE DEF row, next
<1>8. Fit(p, r, next, row, attempts[r])
  BY <1>2, <1>3, <1>4, <1>5, <1>7 DEF Fit, StatusHeld, Attempting
<1>9. attempts' = [attempts EXCEPT ![r] = attempts[r]]
  BY <1>1 DEF history, ControlInv, ControlTypes
<1>10. workers' = [workers EXCEPT ![p] = next] /\ runs' = [runs EXCEPT ![r] = row]
  BY <1>1 DEF Now, row, next
<1>11. Handles(p, r, next, row, attempts[r])
  BY <1>1, <1>5, <1>6, <1>8, <1>9, <1>10 DEF Handles, QueueShrinks, history
<1> QED
  BY <1>11, HandlesKeeps

\* The first commit of an attempt counts it.
LEMMA BeginKeeps ==
  ASSUME ControlInv, NEW p \in Workers, Begin(p)
  PROVE  ControlInv'
<1> DEFINE k == workers[p]
           r == k.run
           row == [runs[r] EXCEPT !.status = "RUNNING", !.retryAt = "none"]
<1>1. k.step = "begin"
  BY DEF Begin, Doing
<1>2. /\ k \in Worker /\ r \in Runs /\ r # Nil /\ r \notin queue.runs
      /\ runs[r] \in RunRow /\ runs[r].task = k.task /\ k.task \in Tasks
      /\ runs[r].status = StatusHeld(k) /\ RunFits(r)
      /\ k.fresh \/ p = "dispatcher"
      /\ \A q \in Workers : q # p => workers[q].run # r
  BY <1>1, Attempted DEF Attempting
<1>3. PICK next \in Worker :
        /\ workers' = [workers EXCEPT ![p] = next]
        /\ next.step \in {"create", "items"}
        /\ next.run = r /\ next.task = k.task /\ next.fresh = k.fresh
  <2>1. CASE k.fresh
    <3>1. PICK n \in 0 .. MaxTargets[k.task] : Now(p, [k EXCEPT !.step = "create", !.targets = n])
      BY <2>1 DEF Begin
    <3>2. n \in Nat
      BY <1>2, MaxTargetsAssumption
    <3>3. [k EXCEPT !.step = "create", !.targets = n] \in Worker
      BY <1>2, <3>2 DEF Worker, Step
    <3> QED
      BY <1>2, <3>1, <3>3 DEF Now, Worker
  <2>2. CASE ~ k.fresh
    <3> DEFINE found == IF runs[r].results = Nil THEN << >> ELSE runs[r].results
    <3>1. Now(p, [k EXCEPT !.step = "items", !.items = found])
      BY <2>2 DEF Begin
    <3>2. found \in Seq(BOOLEAN)
      BY <1>2, EmptySeq DEF RunRow
    <3> HIDE DEF found
    <3>3. [k EXCEPT !.step = "items", !.items = found] \in Worker
      BY <1>2, <3>2 DEF Worker, Step
    <3> QED
      BY <1>2, <3>1, <3>3 DEF Now, Worker
  <2> QED BY <2>1, <2>2
<1>4. /\ runs' = [runs EXCEPT ![r] = row]
      /\ attempts' = [attempts EXCEPT ![r] = attempts[r] + 1]
      /\ UNCHANGED <<tasks, queue, fires, lost, interrupts>>
  BY <1>2 DEF Begin, ControlInv, ControlTypes, RunRow
<1>5. /\ row \in RunRow /\ row.status = "RUNNING" /\ row.retryAt = "none"
      /\ row.task = k.task /\ row.retries = runs[r].retries
  BY <1>2 DEF RunRow, Status, Moment
<1>6. /\ attempts[r] \in Nat /\ attempts[r] = runs[r].retries
      /\ runs[r].retries <= MaxRetries[k.task]
  BY <1>1, <1>2 DEF RunFits, StatusHeld, ControlInv, ControlTypes
<1>7. Fit(p, r, next, row, attempts[r] + 1)
  <2> HIDE DEF row
  <2> QED BY <1>2, <1>3, <1>5, <1>6 DEF Fit, StatusHeld, Attempting
<1>8. /\ queue' \in [runs : SUBSET Runs, tasks : SUBSET Tasks, open : BOOLEAN,
                     loaded : BOOLEAN]
      /\ queue'.runs \subseteq queue.runs \ {r}
  BY <1>2, <1>4 DEF ControlInv, ControlTypes
<1>9. Handles(p, r, next, row, attempts[r] + 1)
  BY <1>2, <1>3, <1>4, <1>7, <1>8 DEF Handles
<1> QED
  BY <1>2, <1>9, HandlesKeeps

\* An attempt that is over.
LEMMA EndKeeps ==
  ASSUME ControlInv, NEW p \in Workers, workers[p].step \in {"create", "items"},
         NEW row, Ends(runs[workers[p].run], row),
         runs' = [runs EXCEPT ![workers[p].run] = row],
         Leave(p), UNCHANGED <<tasks, queue, history>>
  PROVE  ControlInv'
<1> DEFINE k == workers[p]
           r == k.run
<1>1. /\ r \in Runs /\ r # Nil /\ r \notin queue.runs
      /\ runs[r] \in RunRow /\ runs[r].task = k.task /\ k.task \in Tasks
      /\ runs[r].status = "RUNNING" /\ RunFits(r)
      /\ \A q \in Workers : q # p => workers[q].run # r
  BY Attempted DEF Attempting, StatusHeld
<1>2. PICK next \in Worker :
        /\ workers' = [workers EXCEPT ![p] = next]
        /\ next.run = Nil /\ next.step \notin Attempting
        /\ next.step = "moveNext" => next.task \in Tasks
  <2>1. k.step \in Attempting
    BY DEF Attempting
  <2>2. PICK next \in Worker :
          /\ workers' = [workers EXCEPT ![p] = next]
          /\ next.run = Nil
          /\ next.step = "idle" \/ (next.step = "moveNext" /\ next.task = k.task)
    BY <2>1, LeftHands
  <2> QED
    BY <1>1, <2>2 DEF Attempting
<1>3. /\ attempts[r] \in Nat /\ attempts[r] = runs[r].retries + 1
      /\ runs[r].retries <= MaxRetries[k.task] /\ runs[r].retryAt = "none"
      /\ runs[r].retries \in Nat
  <2> HIDE DEF r
  <2>1. attempts[r] \in Nat
    BY <1>1 DEF ControlInv, ControlTypes
  <2>2. runs[r].retries \in Nat
    BY <1>1 DEF RunRow
  <2> QED
    BY <1>1, <2>1, <2>2 DEF RunFits
<1>4. Fit(p, r, next, row, attempts[r])
  BY <1>1, <1>2, <1>3 DEF Fit, Ends
<1>5. /\ attempts' = [attempts EXCEPT ![r] = attempts[r]]
      /\ UNCHANGED <<tasks, queue, fires, lost, interrupts>>
  BY <1>1 DEF history, ControlInv, ControlTypes
<1>6. /\ queue' \in [runs : SUBSET Runs, tasks : SUBSET Tasks, open : BOOLEAN,
                     loaded : BOOLEAN]
      /\ queue'.runs \subseteq queue.runs \ {r}
  BY <1>1, <1>5 DEF ControlInv, ControlTypes
<1>7. Handles(p, r, next, row, attempts[r])
  BY <1>1, <1>2, <1>4, <1>5, <1>6 DEF Handles
<1> QED
  BY <1>1, <1>7, HandlesKeeps

\* What an attempt has in hand after a workflow.
Goes(k, next, success, wrote) ==
  /\ next \in Worker /\ next.step = k.step /\ next.run = k.run
  /\ next.task = k.task /\ next.fresh = k.fresh
  /\ next.item = k.item + 1
  /\ next.items = [k.items EXCEPT ![k.item + 1] = success]
  /\ next.failed = (k.failed \/ ~ success)
  /\ next.wrote = (k.wrote \/ wrote)

\* Outcome gives it that.
LEMMA OutcomeInHand ==
  ASSUME NEW k \in Worker, k.item < Len(k.items), NEW success \in BOOLEAN, NEW wrote \in BOOLEAN
  PROVE  Goes(k, Outcome(k, success, wrote), success, wrote)
<1> DEFINE items == [k.items EXCEPT ![k.item + 1] = success]
           item == k.item + 1
           failed == k.failed \/ ~ success
           written == k.wrote \/ wrote
<1>1. /\ k.item \in Nat /\ k.items \in Seq(BOOLEAN)
      /\ k.failed \in BOOLEAN /\ k.wrote \in BOOLEAN
  BY DEF Worker
<1>2. Len(k.items) \in Nat
  BY <1>1, LenProperties
<1>3. item \in 1 .. Len(k.items) /\ item \in Nat
  BY <1>1, <1>2
<1>4. items \in Seq(BOOLEAN)
  BY <1>1, <1>3, ExceptSeq
<1>5. Outcome(k, success, wrote) =
        [k EXCEPT !.item = item, !.items = items, !.failed = failed, !.wrote = written]
  BY <1>1 DEF Outcome, Worker
<1>6. failed \in BOOLEAN /\ written \in BOOLEAN
  BY <1>1
<1> HIDE DEF items, item, failed, written
<1>7. LET next == Outcome(k, success, wrote)
      IN  /\ next \in Worker /\ next.step = k.step /\ next.run = k.run
          /\ next.task = k.task /\ next.fresh = k.fresh
          /\ next.item = item /\ next.items = items
          /\ next.failed = failed /\ next.wrote = written
  BY <1>3, <1>4, <1>5, <1>6 DEF Worker
<1> QED
  BY <1>7 DEF Goes, items, item, failed, written

\* The loop over the workflows leaves the run alone.
LEMMA ItemKeeps ==
  ASSUME ControlInv, NEW p \in Workers, AtItem(p),
         NEW success \in BOOLEAN, NEW wrote \in BOOLEAN,
         Now(p, Outcome(workers[p], success, wrote)), UNCHANGED <<tasks, runs, queue, history>>
  PROVE  ControlInv'
<1> DEFINE next == Outcome(workers[p], success, wrote)
<1>1. workers[p] \in Worker
  BY DEF ControlInv, ControlTypes
<1>2. /\ workers[p].step = "items" /\ workers[p].item < Len(workers[p].items)
  BY DEF AtItem, Doing
<1>3. /\ next \in Worker /\ next.step = "items" /\ next.run = workers[p].run
      /\ next.task = workers[p].task /\ next.fresh = workers[p].fresh
  <2>1. Goes(workers[p], next, success, wrote)
    BY <1>1, <1>2, OutcomeInHand
  <2> QED
    BY <1>2, <2>1 DEF Goes
<1> HIDE DEF next
<1>4. Now(p, next)
  BY DEF next
<1> QED
  BY <1>2, <1>3, <1>4, GoesOnKeeps

\* An exception.
LEMMA RaiseKeeps ==
  ASSUME ControlInv, NEW p \in Workers, workers[p].step \in {"create", "items"}, Raise(p)
  PROVE  ControlInv'
<1> DEFINE r == workers[p].run
<1>1. /\ runs[r] \in RunRow /\ runs[r].task \in Tasks /\ RunFits(r) /\ r \in Runs
      /\ runs[r].status = "RUNNING"
  BY Attempted DEF Attempting, StatusHeld
<1>2. runs[r].retries <= MaxRetries[runs[r].task]
  BY <1>1 DEF RunFits
<1>3. Ends(runs[r], ScheduleRetryOrFail(runs[r]))
  BY <1>1, <1>2, RetryOrFailEnds
<1>4. /\ runs' = [runs EXCEPT ![r] = ScheduleRetryOrFail(runs[r])]
      /\ Leave(p) /\ UNCHANGED <<tasks, queue, history>>
  BY <1>1 DEF Raise, ControlInv, ControlTypes
<1> QED
  BY <1>3, <1>4, EndKeeps

\* The row with the results of the attempt.
LEMMA StoredRow ==
  ASSUME NEW row \in RunRow, NEW k \in Worker
  PROVE  LET s == Stored(k, row)
         IN  /\ s \in RunRow /\ s.task = row.task /\ s.by = row.by /\ s.status = row.status
             /\ s.retries = row.retries /\ s.retryAt = row.retryAt
             /\ s.results = IF k.wrote \/ row.results = Nil THEN k.items ELSE row.results
<1>1. k.items \in Seq(BOOLEAN)
  BY DEF Worker
<1> QED
  BY <1>1 DEF Stored, RunRow

\* The row of a run at the end of an attempt.
Closed(p) ==
  LET row == Stored(workers[p], runs[workers[p].run])
  IN  IF workers[p].failed THEN ScheduleRetryOrFail(row) ELSE [row EXCEPT !.status = "SUCCESS"]

\* It is the end of an attempt, and a success if no workflow failed.
LEMMA ClosedEnds ==
  ASSUME ControlInv, NEW p \in Workers, workers[p].step = "items"
  PROVE  /\ Ends(runs[workers[p].run], Closed(p))
         /\ Closed(p).results = Stored(workers[p], runs[workers[p].run]).results
         /\ Closed(p).status = "SUCCESS" <=> ~ workers[p].failed
<1> DEFINE k == workers[p]
           r == k.run
           row == Stored(k, runs[r])
<1>1. /\ runs[r] \in RunRow /\ runs[r].task \in Tasks /\ RunFits(r) /\ k \in Worker
      /\ runs[r].status = "RUNNING"
  BY Attempted DEF Attempting, StatusHeld
<1>2. /\ row \in RunRow /\ row.task = runs[r].task /\ row.by = runs[r].by
      /\ row.retries = runs[r].retries /\ row.retryAt = runs[r].retryAt
  BY <1>1, StoredRow
<1>3. row.retries <= MaxRetries[row.task] /\ row.task \in Tasks
  BY <1>1, <1>2 DEF RunFits
<1> HIDE DEF row
<1>4. CASE k.failed
  <2>1. /\ Ends(row, ScheduleRetryOrFail(row))
        /\ ScheduleRetryOrFail(row).results = row.results
        /\ ScheduleRetryOrFail(row).status # "SUCCESS"
    BY <1>2, <1>3, RetryOrFailEnds
  <2>2. Closed(p) = ScheduleRetryOrFail(row)
    BY <1>4 DEF Closed, row
  <2> QED
    BY <1>2, <1>4, <2>1, <2>2 DEF Ends, row
<1>5. CASE ~ k.failed
  <2>1. Closed(p) = [row EXCEPT !.status = "SUCCESS"]
    BY <1>5 DEF Closed, row
  <2>2. /\ Closed(p) \in RunRow /\ Closed(p).status = "SUCCESS"
        /\ Closed(p).results = row.results /\ Closed(p).task = row.task
        /\ Closed(p).by = row.by /\ Closed(p).retries = row.retries
        /\ Closed(p).retryAt = row.retryAt
    BY <1>2, <2>1 DEF RunRow, Status
  <2> QED
    BY <1>2, <1>5, <2>2 DEF Ends, row
<1> QED
  BY <1>4, <1>5

\* Every step of an attempt keeps the control invariant.
LEMMA AttemptKeepsControl ==
  ASSUME ControlInv, NEW p \in Workers, AttemptStep(p)
  PROVE  ControlInv'
<1> DEFINE k == workers[p]
<1>1. CASE Begin(p)
  BY <1>1, BeginKeeps
<1>2. CASE CreateWorkflow(p)
  <2> DEFINE next == [k EXCEPT !.items = Append(@, FALSE),
                               !.step = IF Len(k.items) + 1 = k.targets THEN "items" ELSE @]
  <2>1. k.step = "create" /\ k \in Worker
    BY <1>2 DEF CreateWorkflow, Doing, ControlInv, ControlTypes
  <2>2. Append(k.items, FALSE) \in Seq(BOOLEAN)
    BY <2>1, AppendProperties DEF Worker
  <2>3. /\ next \in Worker /\ next.step \in {"create", "items"} /\ next.run = k.run
        /\ next.task = k.task /\ next.fresh = k.fresh
    BY <2>1, <2>2 DEF Worker, Step
  <2>4. Now(p, next) /\ UNCHANGED <<tasks, runs, queue, history>>
    BY <1>2 DEF CreateWorkflow
  <2> HIDE DEF next
  <2> QED
    BY <2>1, <2>3, <2>4, GoesOnKeeps
<1>3. CASE NoTargets(p)
  BY <1>3, RaiseKeeps DEF NoTargets, Doing
<1>4. CASE Close(p)
  <2>1. k.step = "items" /\ k.run \in Runs
    BY <1>4, Attempted DEF Close, Doing, Attempting
  <2>2. /\ runs' = [runs EXCEPT ![k.run] = Closed(p)]
        /\ Leave(p) /\ UNCHANGED <<tasks, queue, history>>
    BY <1>4 DEF Close, Closed
  <2> QED
    BY <2>1, <2>2, ClosedEnds, EndKeeps
<1>5. CASE TimesOut(p) \/ Refused(p)
  BY <1>5, ItemKeeps DEF TimesOut, Refused
<1>6. CASE RunWorkflow(p)
  <2>1. PICK success \in BOOLEAN : Now(p, Outcome(k, success, TRUE))
    BY <1>6 DEF RunWorkflow
  <2> QED
    BY <1>6, <2>1, ItemKeeps DEF RunWorkflow
<1>7. CASE WorkflowRaises(p)
  BY <1>7, RaiseKeeps DEF WorkflowRaises, AtItem, Doing
<1> QED
  BY <1>1, <1>2, <1>3, <1>4, <1>5, <1>6, <1>7 DEF AttemptStep

\* A step between two attempts: the worker has no run, before and after.
LEMMA BetweenKeeps ==
  ASSUME ControlInv, NEW p \in Workers, workers[p].run = Nil,
         NEW next \in Worker, Now(p, next), next.run = Nil, next.step \notin Attempting,
         next.step = "moveNext" => next.task \in Tasks,
         tasks' \in [Tasks -> TaskRow], QueueShrinks, UNCHANGED <<runs, history>>
  PROVE  ControlInv'
<1>1. ControlTypes'
  BY DEF ControlInv, ControlTypes, Now, QueueShrinks, history
<1>2. /\ workers'[p] = next
      /\ \A q \in Workers : q # p => workers'[q] = workers[q]
      /\ runs' = runs /\ attempts' = attempts /\ lost' = lost
  BY DEF ControlInv, ControlTypes, Now, history
<1>3. ASSUME NEW q \in Workers
      PROVE  WorkerFits(q)'
  BY <1>2 DEF WorkerFits, ControlInv
<1>4. Apart'
  BY <1>2 DEF Apart, ControlInv
<1>5. ASSUME NEW s \in Runs
      PROVE  /\ \A q \in Workers : Holds(q, s)' <=> Holds(q, s)
             /\ RunFits(s)' /\ Attended(s)'
  <2>1. \A q \in Workers : Holds(q, s)' <=> Holds(q, s)
    BY <1>2, NilAssumption DEF Holds
  <2>2. RunFits(s)'
    BY <1>2 DEF RunFits, ControlInv
  <2>3. Attended(s)'
    BY <1>2, <2>1 DEF Attended, ControlInv
  <2> QED BY <2>1, <2>2, <2>3
<1>6. QueueFits'
  BY <1>2, <1>5 DEF QueueFits, ControlInv, QueueShrinks
<1> QED
  BY <1>1, <1>3, <1>4, <1>5, <1>6 DEF ControlInv

\* A run that is taken up again is left in the queue of nobody.
LEMMA RetryRunKeeps ==
  ASSUME ControlInv, RetryRun
  PROVE  ControlInv'
<1> DEFINE p == "dispatcher"
<1>1. PICK r \in queue.runs :
        /\ Now(p, [Free EXCEPT !.step = "begin", !.task = runs[r].task, !.run = r])
        /\ queue' = [queue EXCEPT !.runs = @ \ {r}]
        /\ UNCHANGED <<tasks, runs, workflows, history>>
        /\ workers[p].step = "idle"
  BY DEF RetryRun, Foremost, Doing
<1> DEFINE next == [Free EXCEPT !.step = "begin", !.task = runs[r].task, !.run = r]
<1>2. /\ r \in Runs /\ r # Nil /\ p \in Workers /\ runs[r] \in RunRow
      /\ runs[r].status = "RETRY_SCHEDULED" /\ RunFits(r) /\ attempts[r] \in Nat
      /\ \A q \in Workers : workers[q].run # r
  BY NilAssumption DEF ControlInv, ControlTypes, QueueFits, Workers, Holds
<1>3. runs[r].task \in Tasks
  BY <1>2 DEF RunFits
<1>4. next \in Worker /\ next.step = "begin" /\ next.task = runs[r].task /\ next.run = r
      /\ ~ next.fresh
  BY <1>2, <1>3, EmptySeq DEF Worker, Free, Step
<1> HIDE DEF next
<1>5. Fit(p, r, next, runs[r], attempts[r])
  BY <1>2, <1>4 DEF Fit, RunFits, StatusHeld, Attempting
<1>6. workers[p].run = Nil
  BY <1>1, <1>2 DEF ControlInv, WorkerFits, Attempting
<1>7. /\ runs' = [runs EXCEPT ![r] = runs[r]]
      /\ attempts' = [attempts EXCEPT ![r] = attempts[r]]
      /\ workers' = [workers EXCEPT ![p] = next]
  BY <1>1, <1>2 DEF history, ControlInv, ControlTypes, Now, next
<1>8. /\ queue' \in [runs : SUBSET Runs, tasks : SUBSET Tasks, open : BOOLEAN,
                     loaded : BOOLEAN]
      /\ queue'.runs \subseteq queue.runs \ {r}
  BY <1>1 DEF ControlInv, ControlTypes
<1>9. Handles(p, r, next, runs[r], attempts[r])
  BY <1>1, <1>2, <1>5, <1>6, <1>7, <1>8 DEF Handles, history
<1> QED
  BY <1>2, <1>9, HandlesKeeps

\* What the dispatcher reads as due for a retry is in nobody's hands.
LEMMA DispatchKeeps ==
  ASSUME ControlInv, Dispatch
  PROVE  ControlInv'
<1>1. ASSUME NEW r \in RetryDue
      PROVE  r \in Runs /\ runs[r].status = "RETRY_SCHEDULED"
             /\ \A q \in Workers : ~ Holds(q, r)
  <2>1. r \in Runs /\ r # Nil /\ runs[r].status = "RETRY_SCHEDULED"
    BY NilAssumption DEF RetryDue
  <2>2. ASSUME NEW q \in Workers, Holds(q, r)
        PROVE  FALSE
    <3>1. WorkerFits(q) /\ workers[q].run = r
      BY <2>2 DEF ControlInv, Holds
    <3>2. q = "dispatcher" /\ workers[q].step \in Attempting
      BY <2>1, <3>1 DEF WorkerFits, StatusHeld
    <3> QED
      BY <3>2 DEF Dispatch, Doing, Attempting
  <2> QED BY <2>1, <2>2
<1>2. /\ queue' = [queue EXCEPT !.runs = RetryDue, !.open = TRUE]
      /\ UNCHANGED <<tasks, runs, workers, attempts, fires, lost, interrupts>>
  BY DEF Dispatch, history
<1>3. ControlTypes' /\ queue'.runs = RetryDue
  BY <1>1, <1>2 DEF ControlInv, ControlTypes
<1>4. \A q \in Workers, s \in Runs : Holds(q, s)' <=> Holds(q, s)
  BY <1>2 DEF Holds
<1>5. \A q \in Workers : WorkerFits(q)'
  BY <1>2 DEF ControlInv, WorkerFits
<1>6. Apart'
  BY <1>2 DEF ControlInv, Apart
<1>7. \A s \in Runs : RunFits(s)' /\ Attended(s)'
  BY <1>2, <1>4 DEF ControlInv, RunFits, Attended
<1>8. QueueFits'
  BY <1>1, <1>2, <1>3, <1>4 DEF QueueFits
<1> QED
  BY <1>3, <1>5, <1>6, <1>7, <1>8 DEF ControlInv

\* A step that leaves the runs and the workers alone.
LEMMA ApartFromRuns ==
  ASSUME ControlInv, tasks' \in [Tasks -> TaskRow], QueueShrinks,
         fires' \in [Tasks -> Nat], UNCHANGED <<runs, workers, attempts, lost, interrupts>>
  PROVE  ControlInv'
<1>1. ControlTypes'
  BY DEF ControlInv, ControlTypes, QueueShrinks
<1>2. \A q \in Workers, s \in Runs : Holds(q, s)' <=> Holds(q, s)
  BY DEF Holds
<1>3. \A q \in Workers : WorkerFits(q)'
  BY DEF ControlInv, WorkerFits
<1>4. Apart'
  BY DEF ControlInv, Apart
<1>5. \A s \in Runs : RunFits(s)' /\ Attended(s)'
  BY <1>2 DEF ControlInv, RunFits, Attended
<1>6. QueueFits'
  BY <1>1, <1>2 DEF ControlInv, QueueFits, QueueShrinks, ControlTypes
<1> QED
  BY <1>1, <1>3, <1>4, <1>5, <1>6 DEF ControlInv

\* The time of a retry comes for a run that waits for it.
LEMMA RetryFallsKeeps ==
  ASSUME ControlInv, NEW r \in Runs, RetryFalls(r)
  PROVE  ControlInv'
<1> DEFINE row == [runs[r] EXCEPT !.retryAt = "due"]
<1>1. /\ runs[r] \in RunRow /\ RunFits(r) /\ runs[r].retryAt = "later"
      /\ runs' = [runs EXCEPT ![r] = row]
      /\ UNCHANGED <<tasks, workers, queue, attempts, fires, lost, interrupts>>
  BY DEF RetryFalls, ControlInv, ControlTypes, history
<1>2. runs[r].status = "RETRY_SCHEDULED"
  BY <1>1 DEF RunFits
<1>3. /\ row \in RunRow /\ row.status = runs[r].status /\ row.task = runs[r].task
      /\ row.retries = runs[r].retries
  BY <1>1 DEF RunRow, Moment
<1> HIDE DEF row
<1>4. ControlTypes'
  BY <1>1, <1>3 DEF ControlInv, ControlTypes
<1>5. /\ runs'[r] = row /\ \A s \in Runs : s # r => runs'[s] = runs[s]
      /\ \A s \in Runs : runs'[s].status = runs[s].status /\ runs'[s].task = runs[s].task
      /\ \A q \in Workers : workers[q].run \in Runs \cup {Nil}
      /\ \A q \in Workers, s \in Runs : Holds(q, s)' <=> Holds(q, s)
  BY <1>1, <1>3 DEF ControlInv, ControlTypes, Worker, Holds
<1>6. \A q \in Workers : WorkerFits(q)'
  BY <1>1, <1>5 DEF ControlInv, WorkerFits
<1>7. Apart'
  BY <1>1 DEF ControlInv, Apart
<1>8. ASSUME NEW s \in Runs
      PROVE  RunFits(s)' /\ Attended(s)'
  <2>1. Attended(s)'
    BY <1>1, <1>5 DEF ControlInv, Attended
  <2>2. RunFits(r)'
    BY <1>1, <1>2, <1>3, <1>5 DEF RunFits
  <2>3. CASE s # r
    BY <1>1, <1>5, <2>1, <2>3 DEF ControlInv, RunFits
  <2> QED BY <2>1, <2>2, <2>3
<1>9. QueueFits'
  BY <1>1, <1>5 DEF ControlInv, ControlTypes, QueueFits
<1> QED
  BY <1>4, <1>6, <1>7, <1>8, <1>9 DEF ControlInv

\* A run that loses its worker is counted as lost.
LEMMA InterruptKeeps ==
  ASSUME ControlInv, NEW p \in Workers, Interrupt(p)
  PROVE  ControlInv'
<1> DEFINE k == workers[p]
<1>1. Free \in Worker /\ Free.run = Nil /\ Free.step = "idle"
  BY EmptySeq DEF Free, Worker, Step
<1>2. /\ workers' = [workers EXCEPT ![p] = Free]
      /\ queue' = (IF p = "dispatcher" THEN NoQueue ELSE queue)
      /\ lost' = (IF k.run # Nil THEN lost \cup {k.run} ELSE lost)
      /\ interrupts' = interrupts + 1
      /\ UNCHANGED <<tasks, runs, attempts, fires>>
  BY DEF Interrupt, Now
<1>3. k.run \in Runs \cup {Nil}
  BY DEF ControlInv, ControlTypes, Worker
<1>4. /\ queue' \in [runs : SUBSET Runs, tasks : SUBSET Tasks, open : BOOLEAN,
                     loaded : BOOLEAN]
      /\ queue'.runs \subseteq queue.runs
  BY <1>2 DEF ControlInv, ControlTypes, NoQueue
<1>5. ControlTypes'
  BY <1>1, <1>2, <1>3, <1>4 DEF ControlInv, ControlTypes
<1>6. /\ workers'[p] = Free
      /\ \A q \in Workers : q # p => workers'[q] = workers[q]
  BY <1>2 DEF ControlInv, ControlTypes
<1>7. ASSUME NEW q \in Workers
      PROVE  WorkerFits(q)'
  <2>1. CASE q = p
    BY <2>1, <1>1, <1>6 DEF WorkerFits, Attempting
  <2>2. CASE q # p
    BY <2>2, <1>2, <1>6 DEF WorkerFits, ControlInv
  <2> QED BY <2>1, <2>2
<1>8. Apart'
  BY <1>1, <1>6 DEF Apart, ControlInv
<1>9. ASSUME NEW s \in Runs
      PROVE  /\ \A q \in Workers : Holds(q, s)' => Holds(q, s)
             /\ RunFits(s)' /\ Attended(s)'
  <2>1. \A q \in Workers : Holds(q, s)' => Holds(q, s)
    BY <1>1, <1>6, NilAssumption DEF Holds
  <2>2. RunFits(s)'
    BY <1>2 DEF RunFits, ControlInv
  <2>3. ASSUME runs[s].status \in {"PENDING", "RUNNING"}, s \notin lost'
        PROVE  \E q \in Workers : Holds(q, s)'
    <3>1. s # Nil /\ s \notin lost
      BY <1>2, <2>3, NilAssumption
    <3>2. PICK q \in Workers : Holds(q, s)
      BY <2>3, <3>1 DEF ControlInv, Attended
    <3>3. q # p
      BY <1>2, <2>3, <3>1, <3>2 DEF Holds
    <3> QED
      BY <1>6, <3>2, <3>3 DEF Holds
  <2>4. Attended(s)'
    BY <1>2, <2>3 DEF Attended
  <2> QED BY <2>1, <2>2, <2>4
<1>10. QueueFits'
  BY <1>2, <1>4, <1>9 DEF QueueFits, ControlInv
<1> QED
  BY <1>5, <1>7, <1>8, <1>9, <1>10 DEF ControlInv

\* What the dispatcher does keeps the control invariant.
LEMMA DispatcherKeepsControl ==
  ASSUME ControlInv, DispatcherStep
  PROVE  ControlInv'
<1> DEFINE p == "dispatcher"
<1>1. p \in Workers /\ workers[p].step \notin Attempting => workers[p].run = Nil
  BY DEF Workers, ControlInv, WorkerFits
<1>2. CASE AttemptStep(p)
  BY <1>2, AttemptKeepsControl DEF Workers
<1>3. CASE Dispatch
  BY <1>3, DispatchKeeps
<1>4. CASE RetryRun
  BY <1>4, RetryRunKeeps
<1>5. CASE ReadDue
  <2>1. queue' = [queue EXCEPT !.tasks = Due, !.open = FALSE, !.loaded = Due # {}]
    BY <1>5 DEF ReadDue
  <2>2. Due \subseteq Tasks
    BY ScheduledAssumption DEF Due
  <2>3. QueueShrinks
    BY <2>1, <2>2 DEF QueueShrinks, ControlInv, ControlTypes
  <2> QED
    BY <1>5, <2>3, ApartFromRuns DEF ReadDue, history, ControlInv, ControlTypes
<1>6. CASE ExecuteTask
  <2>1. PICK t \in Foremost(queue.tasks, [t \in Tasks |-> t]) :
          /\ queue' = [queue EXCEPT !.tasks = @ \ {t}, !.loaded = FALSE]
          /\ \/ CreateRun(p, t)
             \/ /\ Now(p, [Free EXCEPT !.step = "moveNext", !.task = t])
                /\ UNCHANGED <<tasks, runs, workflows, history>>
    BY <1>6 DEF ExecuteTask
  <2>2. t \in Tasks
    BY <2>1 DEF Foremost, ControlInv, ControlTypes
  <2>3. QueueShrinks
    BY <2>1 DEF QueueShrinks, ControlInv, ControlTypes
  <2>4. workers[p].step = "idle" /\ p \in Workers
    BY <1>6 DEF ExecuteTask, Doing, Workers
  <2>5. CASE CreateRun(p, t)
    BY <2>2, <2>3, <2>4, <2>5, CreateRunKeeps
  <2>6. CASE /\ Now(p, [Free EXCEPT !.step = "moveNext", !.task = t])
             /\ UNCHANGED <<tasks, runs, workflows, history>>
    <3> DEFINE next == [Free EXCEPT !.step = "moveNext", !.task = t]
    <3>1. next \in Worker /\ next.run = Nil /\ next.step = "moveNext" /\ next.task = t
      BY <2>2, EmptySeq DEF Worker, Free, Step
    <3> HIDE DEF next
    <3>2. Now(p, next)
      BY <2>6 DEF next
    <3>3. next.step \notin Attempting /\ workers[p].run = Nil
      BY <1>1, <2>4, <3>1 DEF Attempting
    <3>4. tasks' \in [Tasks -> TaskRow]
      BY <2>6 DEF ControlInv, ControlTypes
    <3> QED
      BY <2>2, <2>3, <2>4, <2>6, <3>1, <3>2, <3>3, <3>4, BetweenKeeps
  <2> QED BY <2>1, <2>5, <2>6
<1>7. CASE UpdateNextRun
  <2>1. Free \in Worker /\ Free.run = Nil /\ Free.step = "idle"
    BY EmptySeq DEF Free, Worker, Step
  <2>2. workers[p].run = Nil /\ p \in Workers
    BY <1>1, <1>7 DEF UpdateNextRun, Doing, Attempting, Workers
  <2>3. tasks' \in [Tasks -> TaskRow]
    BY <1>7 DEF UpdateNextRun, NextFire, ControlInv, ControlTypes, TaskRow, Moment
  <2>4. QueueShrinks /\ Now(p, Free) /\ UNCHANGED <<runs, history>>
    BY <1>7 DEF UpdateNextRun, QueueShrinks, ControlInv, ControlTypes
  <2>5. Free.step \notin Attempting /\ Free.step # "moveNext"
    BY <2>1 DEF Attempting
  <2> QED
    BY <2>1, <2>2, <2>3, <2>4, <2>5, BetweenKeeps
<1> QED
  BY <1>2, <1>3, <1>4, <1>5, <1>6, <1>7 DEF DispatcherStep

\* Every step does.
LEMMA NextKeepsControl ==
  ASSUME ControlInv, [TaskNext]_taskVars
  PROVE  ControlInv'
<1> USE DEF ControlInv, ControlTypes
<1>1. QueueShrinks \/ queue' # queue
  BY DEF QueueShrinks
<1>2. CASE AttemptStep("api")
  BY <1>2, AttemptKeepsControl DEF Workers
<1>3. CASE DispatcherStep
  BY <1>3, DispatcherKeepsControl
<1>4. ASSUME NEW t \in Tasks, RunTask(t)
      PROVE  ControlInv'
  BY <1>1, <1>4, CreateRunKeeps DEF RunTask, Doing, Workers
<1>5. ASSUME NEW t \in Tasks, TaskFalls(t)
      PROVE  ControlInv'
  <2>1. tasks' \in [Tasks -> TaskRow] /\ fires' \in [Tasks -> Nat]
    BY <1>5 DEF TaskFalls, TaskRow, Moment
  <2> QED
    BY <1>1, <1>5, <2>1, ApartFromRuns DEF TaskFalls
<1>6. ASSUME NEW t \in Tasks, NEW e \in BOOLEAN, SetEnabled(t, e)
      PROVE  ControlInv'
  <2>1. tasks' \in [Tasks -> TaskRow]
    BY <1>6 DEF SetEnabled, NewTask, NextFire, TaskRow, Moment
  <2> QED
    BY <1>1, <1>6, <2>1, ApartFromRuns DEF SetEnabled, history
<1>7. ASSUME NEW r \in Runs, RetryFalls(r)
      PROVE  ControlInv'
  BY <1>7, RetryFallsKeeps
<1>8. ASSUME NEW r \in Runs, NEW i \in 1 .. Len(workflows[r]), OthersMove(r, i)
      PROVE  ControlInv'
  BY <1>1, <1>8, ApartFromRuns DEF OthersMove, history
<1>9. ASSUME NEW p \in Workers, Interrupt(p)
      PROVE  ControlInv'
  BY <1>9, InterruptKeeps
<1>10. CASE UNCHANGED taskVars
  BY <1>1, <1>10, ApartFromRuns DEF taskVars, history
<1> QED
  BY <1>2, <1>3, <1>4, <1>5, <1>6, <1>7, <1>8, <1>9, <1>10 DEF TaskNext

\* The service begins with no run.
LEMMA InitControl ==
  ASSUME TaskInit
  PROVE  ControlInv
<1>1. \A t \in Tasks, e \in BOOLEAN : NewTask(t, e) \in TaskRow
  BY DEF NewTask, NextFire, TaskRow, Moment
<1>2. Free \in Worker /\ Free.run = Nil /\ Free.step = "idle"
  BY EmptySeq DEF Free, Worker, Step
<1>3. NoRun \in RunRow /\ NoRun.status = "none" /\ NoRun.retries = 0
      /\ NoRun.retryAt = "none"
  BY DEF NoRun, RunRow, Status, Moment
<1>4. NoQueue \in [runs : SUBSET Runs, tasks : SUBSET Tasks, open : BOOLEAN,
                   loaded : BOOLEAN]
      /\ NoQueue.runs = {}
  BY DEF NoQueue
<1>5. ControlTypes
  BY <1>1, <1>2, <1>3, <1>4 DEF TaskInit, ControlTypes
<1>6. \A p \in Workers : WorkerFits(p)
  BY <1>2 DEF TaskInit, WorkerFits, Attempting
<1>7. Apart
  BY <1>2 DEF TaskInit, Apart
<1>8. \A r \in Runs : RunFits(r) /\ Attended(r)
  BY <1>3 DEF TaskInit, RunFits, Attended
<1>9. QueueFits
  BY <1>4 DEF TaskInit, QueueFits
<1> QED
  BY <1>5, <1>6, <1>7, <1>8, <1>9 DEF ControlInv

-----------------------------------------------------------------------------
(***************************************************************************)
(* The results: what a worker does to its run.                             *)
(***************************************************************************)

\* A step of worker p that has to do with run r, and with no other.
Concerns(p, r, next, row, n, ws) ==
  /\ workers' = [workers EXCEPT ![p] = next]
  /\ runs' = [runs EXCEPT ![r] = row]
  /\ attempts' = [attempts EXCEPT ![r] = n]
  /\ workflows' = [workflows EXCEPT ![r] = ws]
  /\ ws \in Seq(Workflow)
  /\ next.run \in {r, Nil}
  /\ \A q \in Workers : q # p => workers[q].run # r
  /\ next.run = r => ItemsFit(next, row, ws, n)
  /\ ResultsFit(row, ws, n)

\* It keeps the invariant of the results.
LEMMA ConcernsKeeps ==
  ASSUME ControlInv, ResultsInv, NEW p \in Workers, NEW r \in Runs,
         NEW next, NEW row, NEW n, NEW ws, Concerns(p, r, next, row, n, ws)
  PROVE  ResultsInv'
<1>1. /\ workers'[p] = next /\ runs'[r] = row /\ attempts'[r] = n /\ workflows'[r] = ws
      /\ \A q \in Workers : q # p => workers'[q] = workers[q]
      /\ \A s \in Runs : s # r => /\ runs'[s] = runs[s] /\ attempts'[s] = attempts[s]
                                  /\ workflows'[s] = workflows[s]
      /\ \A q \in Workers : workers[q].run \in Runs \cup {Nil}
  BY DEF Concerns, ControlInv, ControlTypes, Worker, ResultsInv
<1>2. workflows' \in [Runs -> Seq(Workflow)]
  BY DEF Concerns, ResultsInv
<1>3. ASSUME NEW q \in Workers
      PROVE  WorkerItemsFit(q)'
  <2>1. CASE q = p
    BY <2>1, <1>1 DEF WorkerItemsFit, Concerns
  <2>2. CASE q # p
    <3>1. workers'[q] = workers[q] /\ workers[q].run # r
      BY <2>2, <1>1 DEF Concerns
    <3>2. workers[q].run # Nil =>
            /\ runs'[workers[q].run] = runs[workers[q].run]
            /\ attempts'[workers[q].run] = attempts[workers[q].run]
            /\ workflows'[workers[q].run] = workflows[workers[q].run]
      BY <3>1, <1>1
    <3>3. WorkerItemsFit(q)
      BY DEF ResultsInv
    <3> QED
      BY <3>1, <3>2, <3>3 DEF WorkerItemsFit
  <2> QED BY <2>1, <2>2
<1>4. ASSUME NEW s \in Runs
      PROVE  ResultsFit(runs'[s], workflows'[s], attempts'[s])
  <2>1. CASE s = r
    BY <2>1, <1>1 DEF Concerns
  <2>2. CASE s # r
    BY <2>2, <1>1 DEF ResultsInv
  <2> QED BY <2>1, <2>2
<1> QED
  BY <1>2, <1>3, <1>4 DEF ResultsInv

\* The workflows stay as many, and were done when they were done.
SameDone(old, new) ==
  /\ new \in Seq(Workflow) /\ Len(new) = Len(old)
  /\ \A i \in 1 .. Len(old) : new[i].doneAt = old[i].doneAt

SameEnd(row, also) == also.status = row.status /\ also.results = row.results

\* Then what fitted them does still.
LEMMA SameDoneFits ==
  ASSUME NEW old \in Seq(Workflow), NEW new, SameDone(old, new), NEW n,
         NEW row, NEW also, SameEnd(row, also)
  PROVE  /\ ResultsFit(row, old, n) => ResultsFit(also, new, n)
         /\ \A k \in Worker : ItemsFit(k, row, old, n) => ItemsFit(k, also, new, n)
<1>1. /\ old = << >> => new = << >>
      /\ Len(new) = Len(old) /\ Len(old) \in Nat
      /\ \A i \in 1 .. Len(old) : new[i].doneAt = old[i].doneAt
  BY EmptySeq, LenProperties DEF SameDone
<1>2. ResultsFit(row, old, n) => ResultsFit(also, new, n)
  BY <1>1 DEF ResultsFit, SameEnd
<1>3. ASSUME NEW k \in Worker, ItemsFit(k, row, old, n)
      PROVE  ItemsFit(k, also, new, n)
  <2>1. k.item \in Nat /\ k.items \in Seq(BOOLEAN) /\ Len(k.items) \in Nat
    BY LenProperties DEF Worker
  <2>2. k.step = "items" => \A i \in 1 .. k.item : i \in 1 .. Len(old)
    BY <1>1, <1>3, <2>1 DEF ItemsFit
  <2> QED
    BY <1>1, <1>3, <2>1, <2>2 DEF ItemsFit, SameEnd
<1> QED BY <1>2, <1>3

\* A step that leaves the results and the attempts alone, and gives nobody
\* anything in hand.
LEMMA SameDoneKeeps ==
  ASSUME ControlInv, ResultsInv,
         \A q \in Workers : workers'[q] = workers[q] \/ workers'[q].run = Nil,
         \A s \in Runs : SameEnd(runs[s], runs'[s]),
         \A s \in Runs : SameDone(workflows[s], workflows'[s]),
         workflows' \in [Runs -> Seq(Workflow)], attempts' = attempts
  PROVE  ResultsInv'
<1>1. ASSUME NEW s \in Runs
      PROVE  /\ ResultsFit(runs[s], workflows[s], attempts[s]) =>
                  ResultsFit(runs'[s], workflows'[s], attempts[s])
             /\ \A k \in Worker : ItemsFit(k, runs[s], workflows[s], attempts[s]) =>
                                  ItemsFit(k, runs'[s], workflows'[s], attempts[s])
  <2>1. workflows[s] \in Seq(Workflow)
    BY DEF ResultsInv
  <2>2. SameDone(workflows[s], workflows'[s]) /\ SameEnd(runs[s], runs'[s])
    OBVIOUS
  <2> QED
    BY <2>1, <2>2, SameDoneFits
<1>2. ASSUME NEW q \in Workers
      PROVE  WorkerItemsFit(q)'
  <2>1. CASE workers'[q].run = Nil
    BY <2>1 DEF WorkerItemsFit
  <2>2. CASE workers'[q] = workers[q] /\ workers[q].run # Nil
    <3> DEFINE k == workers[q]
               r == k.run
    <3>1. r \in Runs /\ k \in Worker
      BY <2>2 DEF ControlInv, ControlTypes, Worker
    <3>2. ItemsFit(k, runs[r], workflows[r], attempts[r])
      BY <2>2 DEF ResultsInv, WorkerItemsFit
    <3>3. ItemsFit(k, runs'[r], workflows'[r], attempts[r])
      BY <1>1, <3>1, <3>2
    <3> QED
      BY <2>2, <3>3 DEF WorkerItemsFit
  <2> QED BY <2>1, <2>2
<1>3. \A s \in Runs : ResultsFit(runs'[s], workflows'[s], attempts'[s])
  BY <1>1 DEF ResultsInv
<1> QED
  BY <1>2, <1>3 DEF ResultsInv

\* What is known of the outcomes in the hands of a worker that attempts a run.
LEMMA InHandsFits ==
  ASSUME ControlInv, ResultsInv, NEW p \in Workers, workers[p].step \in Attempting
  PROVE  LET k == workers[p]
             r == k.run
         IN  /\ ItemsFit(k, runs[r], workflows[r], attempts[r])
             /\ ResultsFit(runs[r], workflows[r], attempts[r])
             /\ workflows[r] \in Seq(Workflow) /\ Len(workflows[r]) \in Nat
             /\ k.item \in Nat /\ k.items \in Seq(BOOLEAN) /\ Len(k.items) \in Nat
<1> DEFINE k == workers[p]
           r == k.run
<1>1. k \in Worker /\ r \in Runs /\ r # Nil
  BY Attempted
<1>2. ItemsFit(k, runs[r], workflows[r], attempts[r])
  BY <1>1 DEF ResultsInv, WorkerItemsFit
<1>3. ResultsFit(runs[r], workflows[r], attempts[r]) /\ workflows[r] \in Seq(Workflow)
  BY <1>1 DEF ResultsInv
<1>4. k.item \in Nat /\ k.items \in Seq(BOOLEAN)
  BY <1>1 DEF Worker
<1>5. Len(k.items) \in Nat /\ Len(workflows[r]) \in Nat
  BY <1>3, <1>4, LenProperties
<1> QED
  BY <1>2, <1>3, <1>4, <1>5

\* A new run has no workflows and no results yet.
LEMMA CreateRunResults ==
  ASSUME ControlInv, ResultsInv, NEW p \in Workers, NEW t \in Tasks, CreateRun(p, t)
  PROVE  ResultsInv'
<1>1. PICK r \in Runs :
        /\ runs[r].status = "none"
        /\ runs' = [runs EXCEPT ![r] =
             [NoRun EXCEPT !.task = t, !.status = "PENDING", !.by = p]]
        /\ Now(p, [Free EXCEPT !.step = "begin", !.task = t, !.run = r, !.fresh = TRUE])
        /\ UNCHANGED <<tasks, workflows, history>>
  BY DEF CreateRun
<1> DEFINE row == [NoRun EXCEPT !.task = t, !.status = "PENDING", !.by = p]
           next == [Free EXCEPT !.step = "begin", !.task = t, !.run = r, !.fresh = TRUE]
<1>2. row.status = "PENDING" /\ row.results = Nil
  BY DEF NoRun
<1>3. next.run = r /\ next.step = "begin" /\ next.items = << >> /\ next.item = 0
      /\ ~ next.failed /\ ~ next.wrote
  BY DEF Free
<1>4. ASSUME NEW q \in Workers, workers[q].run = r
      PROVE  FALSE
  BY <1>4, <1>1, NilAssumption DEF ControlInv, WorkerFits, StatusHeld
<1>5. workflows[r] = << >> /\ workflows[r] \in Seq(Workflow)
  BY <1>1 DEF ResultsInv, ResultsFit
<1>6. workers' = [workers EXCEPT ![p] = next] /\ runs' = [runs EXCEPT ![r] = row]
  BY <1>1 DEF Now
<1>7. /\ attempts' = [attempts EXCEPT ![r] = attempts[r]]
      /\ workflows' = [workflows EXCEPT ![r] = workflows[r]]
  BY <1>1 DEF history, ControlInv, ControlTypes, ResultsInv
<1> HIDE DEF row, next
<1>8. ItemsFit(next, row, workflows[r], attempts[r])
  BY <1>2, <1>3, <1>5 DEF ItemsFit
<1>9. ResultsFit(row, workflows[r], attempts[r])
  BY <1>2 DEF ResultsFit
<1>10. Concerns(p, r, next, row, attempts[r], workflows[r])
  BY <1>3, <1>4, <1>5, <1>6, <1>7, <1>8, <1>9 DEF Concerns
<1> QED
  BY <1>10, ConcernsKeeps

\* The outcomes of a first attempt are empty; those of a retry are the results
\* that were stored.
LEMMA BeginResults ==
  ASSUME ControlInv, ResultsInv, NEW p \in Workers, Begin(p)
  PROVE  ResultsInv'
<1> DEFINE k == workers[p]
           r == k.run
           ws == workflows[r]
           n == attempts[r] + 1
           row == [runs[r] EXCEPT !.status = "RUNNING", !.retryAt = "none"]
<1>1. k.step = "begin"
  BY DEF Begin, Doing
<1>2. /\ k \in Worker /\ r \in Runs /\ runs[r] \in RunRow
      /\ \A q \in Workers : q # p => workers[q].run # r
  BY <1>1, Attempted DEF Attempting
<1>3. /\ ItemsFit(k, runs[r], ws, attempts[r]) /\ ResultsFit(runs[r], ws, attempts[r])
      /\ ws \in Seq(Workflow) /\ Len(ws) \in Nat
  BY <1>1, InHandsFits DEF Attempting
<1>4. k.items = << >> /\ k.item = 0 /\ ~ k.failed /\ ~ k.wrote
      /\ (k.fresh => runs[r].results = Nil /\ ws = << >>)
  BY <1>1, <1>3 DEF ItemsFit
<1>5. /\ runs' = [runs EXCEPT ![r] = row]
      /\ attempts' = [attempts EXCEPT ![r] = n]
      /\ workflows' = [workflows EXCEPT ![r] = ws]
  BY <1>2 DEF Begin, ControlInv, ControlTypes, RunRow, ResultsInv
<1>6. row.status = "RUNNING" /\ row.results = runs[r].results
  BY <1>2 DEF RunRow
<1> HIDE DEF row
<1>7. PICK next : /\ workers' = [workers EXCEPT ![p] = next]
                  /\ next.run = r /\ ItemsFit(next, row, ws, n)
  <2>1. CASE k.fresh
    <3>1. PICK m \in 0 .. MaxTargets[k.task] : Now(p, [k EXCEPT !.step = "create", !.targets = m])
      BY <2>1 DEF Begin
    <3> DEFINE next == [k EXCEPT !.step = "create", !.targets = m]
    <3>2. /\ next.step = "create" /\ next.run = r /\ next.items = << >> /\ next.item = 0
          /\ ~ next.failed /\ ~ next.wrote
      BY <1>2, <1>4 DEF Worker
    <3>3. Now(p, next)
      BY <3>1
    <3> HIDE DEF next
    <3>4. ItemsFit(next, row, ws, n)
      BY <1>4, <1>6, <2>1, <3>2 DEF ItemsFit
    <3> QED
      BY <3>2, <3>3, <3>4 DEF Now
  <2>2. CASE ~ k.fresh
    <3> DEFINE found == IF runs[r].results = Nil THEN << >> ELSE runs[r].results
               next == [k EXCEPT !.step = "items", !.items = found]
    <3>1. Now(p, next)
      BY <2>2 DEF Begin
    <3>2. found \in Seq(BOOLEAN)
      BY <1>2, EmptySeq DEF RunRow
    <3>3. Len(found) \in Nat /\ (Len(found) = 0 => runs[r].results \in {Nil, << >>})
      BY <3>2, LenProperties, EmptySeq
    <3>4. Len(found) > 0 => Len(found) = Len(ws)
      BY <1>3, EmptySeq DEF ResultsFit
    <3> HIDE DEF found
    <3>5. /\ next.step = "items" /\ next.run = r /\ next.items = found /\ next.item = 0
          /\ ~ next.failed
      BY <1>2, <1>4 DEF Worker
    <3> HIDE DEF next
    <3>6. ItemsFit(next, row, ws, n)
      BY <1>6, <3>3, <3>4, <3>5 DEF ItemsFit
    <3> QED
      BY <3>1, <3>5, <3>6 DEF Now
  <2> QED BY <2>1, <2>2
<1>8. ResultsFit(row, ws, n)
  BY <1>3, <1>6 DEF ResultsFit
<1>9. Concerns(p, r, next, row, n, ws)
  BY <1>2, <1>3, <1>5, <1>7, <1>8 DEF Concerns
<1> QED
  BY <1>2, <1>9, ConcernsKeeps

\* A workflow that is created comes with an outcome.
LEMMA CreateWorkflowResults ==
  ASSUME ControlInv, ResultsInv, NEW p \in Workers, CreateWorkflow(p)
  PROVE  ResultsInv'
<1> DEFINE k == workers[p]
           r == k.run
           ws == workflows[r]
           w == [state |-> "ready", retries |-> 0, doneAt |-> 0]
           grown == Append(ws, w)
           items == Append(k.items, FALSE)
           next == [k EXCEPT !.items = Append(@, FALSE),
                             !.step = IF Len(k.items) + 1 = k.targets THEN "items" ELSE @]
<1>1. k.step = "create"
  BY DEF CreateWorkflow, Doing
<1>2. /\ k \in Worker /\ r \in Runs /\ runs[r] \in RunRow
      /\ \A q \in Workers : q # p => workers[q].run # r
      /\ runs[r].status = "RUNNING"
  BY <1>1, Attempted DEF Attempting, StatusHeld
<1>3. /\ ItemsFit(k, runs[r], ws, attempts[r])
      /\ ws \in Seq(Workflow) /\ Len(ws) \in Nat
      /\ k.items \in Seq(BOOLEAN) /\ Len(k.items) \in Nat
  BY <1>1, InHandsFits DEF Attempting
<1>4. runs[r].results = Nil /\ Len(k.items) = Len(ws) /\ k.item = 0 /\ ~ k.failed /\ ~ k.wrote
  BY <1>1, <1>3 DEF ItemsFit
<1>5. w \in Workflow
  BY DEF Workflow
<1>6. /\ grown \in Seq(Workflow) /\ Len(grown) = Len(ws) + 1
      /\ items \in Seq(BOOLEAN) /\ Len(items) = Len(k.items) + 1
  BY <1>3, <1>5, AppendProperties
<1>7. /\ next.step \in {"create", "items"} /\ next.run = r
      /\ next.items = items /\ next.item = 0
      /\ ~ next.failed /\ ~ next.wrote
  BY <1>1, <1>2, <1>4 DEF Worker
<1>8. /\ workers' = [workers EXCEPT ![p] = next]
      /\ workflows' = [workflows EXCEPT ![r] = grown]
      /\ runs' = [runs EXCEPT ![r] = runs[r]]
      /\ attempts' = [attempts EXCEPT ![r] = attempts[r]]
  BY <1>2 DEF CreateWorkflow, Now, history, ControlInv, ControlTypes, ResultsInv
<1> HIDE DEF next, w, grown, items, ws
<1>9. ItemsFit(next, runs[r], grown, attempts[r])
  BY <1>3, <1>4, <1>6, <1>7 DEF ItemsFit
<1>10. ResultsFit(runs[r], grown, attempts[r])
  BY <1>2, <1>4 DEF ResultsFit
<1>11. Concerns(p, r, next, runs[r], attempts[r], grown)
  BY <1>2, <1>6, <1>7, <1>8, <1>9, <1>10 DEF Concerns
<1> QED
  BY <1>2, <1>11, ConcernsKeeps

\* The worker leaves a run whose results fit.
LEMMA EndResults ==
  ASSUME ControlInv, ResultsInv, NEW p \in Workers, workers[p].step \in {"create", "items"},
         NEW row, NEW ws \in Seq(Workflow),
         ResultsFit(row, ws, attempts[workers[p].run]),
         runs' = [runs EXCEPT ![workers[p].run] = row],
         workflows' = [workflows EXCEPT ![workers[p].run] = ws],
         Leave(p), UNCHANGED attempts
  PROVE  ResultsInv'
<1> DEFINE r == workers[p].run
<1>1. workers[p].step \in Attempting
  BY DEF Attempting
<1>2. r \in Runs /\ r # Nil /\ \A q \in Workers : q # p => workers[q].run # r
  BY <1>1, Attempted
<1>3. PICK next : workers' = [workers EXCEPT ![p] = next] /\ next.run = Nil
  BY <1>1, LeftHands
<1>4. attempts' = [attempts EXCEPT ![r] = attempts[r]]
  BY <1>2 DEF ControlInv, ControlTypes
<1>5. Concerns(p, r, next, row, attempts[r], ws)
  BY <1>2, <1>3, <1>4 DEF Concerns
<1> QED
  BY <1>2, <1>5, ConcernsKeeps

\* Workflow i of ws was moved, in attempt n if it is done now.
Moved(old, new, i, state, n) ==
  /\ new \in Seq(Workflow) /\ Len(new) = Len(old)
  /\ \A j \in 1 .. Len(old) :
       new[j].doneAt = IF j = i /\ state = "done" THEN n ELSE old[j].doneAt

\* MoveWorkflow moves the workflow the worker is at, and no other.
LEMMA MoveMoves ==
  ASSUME ControlInv, ResultsInv, NEW p \in Workers, AtItem(p),
         NEW state \in {"ready", "FAILED", "done", "stuck"}, NEW retries \in Nat,
         MoveWorkflow(p, state, retries)
  PROVE  LET k == workers[p]
         IN  \E ws : /\ workflows' = [workflows EXCEPT ![k.run] = ws]
                     /\ Moved(workflows[k.run], ws, k.item + 1, state, attempts[k.run])
<1> DEFINE k == workers[p]
           r == k.run
           old == workflows[r]
           i == k.item + 1
           w == [ state |-> state, retries |-> retries,
                  doneAt |-> IF state = "done" THEN attempts[r] ELSE old[i].doneAt ]
           ws == [old EXCEPT ![i] = w]
<1>1. k.step = "items" /\ k.item < Len(k.items)
  BY DEF AtItem, Doing
<1>2. /\ ItemsFit(k, runs[r], old, attempts[r]) /\ old \in Seq(Workflow)
      /\ Len(old) \in Nat /\ k.item \in Nat /\ Len(k.items) \in Nat
  BY <1>1, InHandsFits DEF Attempting
<1>3. r \in Runs /\ attempts[r] \in Nat
  BY <1>1, Attempted DEF Attempting, ControlInv, ControlTypes
<1>4. i \in 1 .. Len(old)
  BY <1>1, <1>2 DEF ItemsFit
<1>5. old[i] \in Workflow
  BY <1>2, <1>4, ElementOfSeq
<1>6. w \in Workflow
  BY <1>3, <1>5 DEF Workflow
<1>7. workflows' = [workflows EXCEPT ![r] = ws]
  BY <1>2, <1>3, <1>4 DEF MoveWorkflow, ResultsInv
<1>8. w.doneAt = IF state = "done" THEN attempts[r] ELSE old[i].doneAt
  OBVIOUS
<1> HIDE DEF w
<1>9. /\ ws \in Seq(Workflow) /\ Len(ws) = Len(old)
      /\ \A j \in 1 .. Len(old) : ws[j] = IF j = i THEN w ELSE old[j]
  BY <1>2, <1>4, <1>6, ExceptSeq, LenProperties
<1>10. Moved(old, ws, i, state, attempts[r])
  <2> HIDE DEF ws, old, i, r
  <2> QED BY <1>8, <1>9 DEF Moved
<1> QED
  BY <1>7, <1>10

\* The retries of the workflow stay a number.
LEMMA HereRetries ==
  ASSUME ControlInv, ResultsInv, NEW p \in Workers, AtItem(p)
  PROVE  RetriesAfter(Here(p)) \in Nat
<1> DEFINE k == workers[p]
           old == workflows[k.run]
<1>1. k.step = "items" /\ k.item < Len(k.items)
  BY DEF AtItem, Doing
<1>2. /\ ItemsFit(k, runs[k.run], old, attempts[k.run]) /\ old \in Seq(Workflow)
      /\ Len(old) \in Nat /\ k.item \in Nat /\ Len(k.items) \in Nat
  BY <1>1, InHandsFits DEF Attempting
<1>3. k.item + 1 \in 1 .. Len(old)
  BY <1>1, <1>2 DEF ItemsFit
<1>4. Here(p) \in Workflow
  BY <1>2, <1>3, ElementOfSeq DEF Here
<1> QED
  BY <1>4 DEF RetriesAfter, Workflow

\* An exception stores nothing.
LEMMA RaiseResults ==
  ASSUME ControlInv, ResultsInv, NEW p \in Workers, workers[p].step \in {"create", "items"},
         Raise(p), NEW ws \in Seq(Workflow), Len(ws) = Len(workflows[workers[p].run]),
         workflows' = [workflows EXCEPT ![workers[p].run] = ws]
  PROVE  ResultsInv'
<1> DEFINE r == workers[p].run
           row == ScheduleRetryOrFail(runs[r])
<1>1. /\ runs[r] \in RunRow /\ runs[r].task \in Tasks /\ RunFits(r) /\ r \in Runs
      /\ runs[r].status = "RUNNING"
  BY Attempted DEF Attempting, StatusHeld
<1>2. runs[r].retries <= MaxRetries[runs[r].task]
  BY <1>1 DEF RunFits
<1>3. row.results = runs[r].results /\ row.status \notin {"SUCCESS", "none"}
  BY <1>1, <1>2, RetryOrFailEnds DEF Ends
<1>4. ResultsFit(runs[r], workflows[r], attempts[r])
  BY <1>1 DEF ResultsInv
<1>5. runs' = [runs EXCEPT ![r] = row] /\ Leave(p) /\ UNCHANGED attempts
  BY <1>1 DEF Raise, ControlInv, ControlTypes, history
<1> HIDE DEF row
<1>6. ResultsFit(row, ws, attempts[r])
  BY <1>3, <1>4 DEF ResultsFit
<1> QED
  BY <1>5, <1>6, EndResults

\* The results at the end are the outcomes, or the same as before.
LEMMA CloseResults ==
  ASSUME ControlInv, ResultsInv, NEW p \in Workers, Close(p)
  PROVE  ResultsInv'
<1> DEFINE k == workers[p]
           r == k.run
           ws == workflows[r]
           n == attempts[r]
           row == Closed(p)
<1>1. k.step = "items" /\ k.item = Len(k.items) /\ k.step \in Attempting
  BY DEF Close, Doing, Attempting
<1>2. k \in Worker /\ r \in Runs /\ runs[r] \in RunRow
  BY <1>1, Attempted
<1>3. /\ ItemsFit(k, runs[r], ws, n) /\ ResultsFit(runs[r], ws, n)
      /\ ws \in Seq(Workflow) /\ Len(ws) \in Nat
      /\ k.items \in Seq(BOOLEAN) /\ Len(k.items) \in Nat /\ k.item \in Nat
  BY <1>1, InHandsFits
<1>4. /\ row.results = IF k.wrote \/ runs[r].results = Nil THEN k.items ELSE runs[r].results
      /\ row.status = "SUCCESS" <=> ~ k.failed
      /\ row.status # "none"
  BY <1>1, <1>2, ClosedEnds, StoredRow DEF Ends
<1>5. /\ runs' = [runs EXCEPT ![r] = row]
      /\ workflows' = [workflows EXCEPT ![r] = ws]
      /\ Leave(p) /\ UNCHANGED attempts
  BY <1>2, <1>3 DEF Close, Closed, history, ResultsInv
<1> HIDE DEF row
<1>6. Len(k.items) = 0 => k.items = << >>
  BY <1>3, EmptySeq
<1>7. row.results \in {Nil, << >>} \/ Len(row.results) = Len(ws)
  BY <1>1, <1>3, <1>4, <1>6 DEF ItemsFit, ResultsFit
<1>8. ASSUME row.status = "SUCCESS", row.results # << >>
      PROVE  /\ Len(ws) = Len(row.results)
             /\ \A i \in 1 .. Len(ws) : row.results[i] /\ ws[i].doneAt = n
  <2>1. ~ k.failed
    BY <1>4, <1>8
  <2>2. Len(k.items) > 0
    BY <1>1, <1>3, <1>4, <1>6, <1>8 DEF ItemsFit
  <2>3. k.wrote /\ row.results = k.items /\ Len(k.items) = Len(ws)
    BY <1>1, <1>3, <1>4, <2>1, <2>2 DEF ItemsFit
  <2> QED
    BY <1>1, <1>3, <2>1, <2>3 DEF ItemsFit
<1>9. ResultsFit(row, ws, n)
  BY <1>4, <1>7, <1>8 DEF ResultsFit
<1> QED
  BY <1>1, <1>3, <1>5, <1>9, EndResults

\* An outcome that is a success is that of a workflow that was done just now.
LEMMA ItemResults ==
  ASSUME ControlInv, ResultsInv, NEW p \in Workers, AtItem(p),
         NEW success \in BOOLEAN, NEW wrote \in BOOLEAN, NEW state, NEW ws,
         Moved(workflows[workers[p].run], ws, workers[p].item + 1, state,
               attempts[workers[p].run]),
         success => state = "done" /\ wrote,
         Now(p, Outcome(workers[p], success, wrote)),
         workflows' = [workflows EXCEPT ![workers[p].run] = ws],
         UNCHANGED <<runs, attempts>>
  PROVE  ResultsInv'
<1> DEFINE k == workers[p]
           r == k.run
           old == workflows[r]
           n == attempts[r]
           next == Outcome(k, success, wrote)
<1>1. k.step = "items" /\ k.item < Len(k.items) /\ k.step \in Attempting
  BY DEF AtItem, Doing, Attempting
<1>2. /\ k \in Worker /\ r \in Runs /\ runs[r].status = "RUNNING"
      /\ \A q \in Workers : q # p => workers[q].run # r
  BY <1>1, Attempted DEF StatusHeld
<1>3. /\ ItemsFit(k, runs[r], old, n) /\ ResultsFit(runs[r], old, n)
      /\ old \in Seq(Workflow) /\ Len(old) \in Nat
      /\ k.items \in Seq(BOOLEAN) /\ Len(k.items) \in Nat /\ k.item \in Nat
  BY <1>1, InHandsFits
<1>4. Goes(k, next, success, wrote)
  BY <1>1, <1>2, OutcomeInHand
<1>5. /\ workers' = [workers EXCEPT ![p] = next]
      /\ runs' = [runs EXCEPT ![r] = runs[r]]
      /\ attempts' = [attempts EXCEPT ![r] = n]
  BY <1>2 DEF Now, ControlInv, ControlTypes
<1> HIDE DEF next
<1>6. /\ Len(k.items) = Len(old) /\ k.item + 1 \in 1 .. Len(k.items)
      /\ Len(ws) = Len(old) /\ ws \in Seq(Workflow)
  BY <1>1, <1>3 DEF ItemsFit, Moved
<1>7. /\ next.items \in Seq(BOOLEAN) /\ Len(next.items) = Len(k.items)
      /\ \A i \in 1 .. Len(k.items) :
           next.items[i] = IF i = k.item + 1 THEN success ELSE k.items[i]
  BY <1>3, <1>4, <1>6, ExceptSeq, LenProperties DEF Goes
<1>8. next.step = "items" /\ next.run = r /\ next.item = k.item + 1
      /\ (~ next.failed => ~ k.failed /\ success) /\ (success => next.wrote)
  BY <1>1, <1>2, <1>4 DEF Goes, Worker
<1>9. ASSUME ~ next.failed, NEW i \in 1 .. next.item
      PROVE  next.items[i] /\ ws[i].doneAt = n
  <2>1. ~ k.failed /\ success /\ state = "done"
    BY <1>8, <1>9
  <2>2. i \in 1 .. Len(old)
    BY <1>3, <1>6, <1>8
  <2>3. CASE i = k.item + 1
    BY <2>1, <2>2, <2>3, <1>6, <1>7 DEF Moved
  <2>4. CASE i # k.item + 1
    <3>1. i \in 1 .. k.item
      BY <1>3, <1>8, <2>4
    <3>2. k.items[i] /\ old[i].doneAt = n
      BY <1>1, <1>3, <2>1, <3>1 DEF ItemsFit
    <3> QED
      BY <2>2, <2>4, <3>2, <1>6, <1>7 DEF Moved
  <2> QED BY <2>3, <2>4
<1>10. ItemsFit(next, runs[r], ws, n)
  BY <1>1, <1>3, <1>6, <1>7, <1>8, <1>9 DEF ItemsFit
<1>11. ResultsFit(runs[r], ws, n)
  BY <1>2, <1>3, <1>6 DEF ResultsFit
<1>12. Concerns(p, r, next, runs[r], n, ws)
  BY <1>2, <1>5, <1>6, <1>8, <1>10, <1>11 DEF Concerns
<1> QED
  BY <1>2, <1>12, ConcernsKeeps

\* Every step of an attempt keeps the results in order.
LEMMA AttemptKeepsResults ==
  ASSUME ControlInv, ResultsInv, NEW p \in Workers, AttemptStep(p)
  PROVE  ResultsInv'
<1> DEFINE k == workers[p]
           r == k.run
<1>1. ASSUME k.step \in {"create", "items"}, workflows' = workflows
      PROVE  /\ workflows[r] \in Seq(Workflow)
             /\ workflows' = [workflows EXCEPT ![r] = workflows[r]]
             /\ \A state, i : state # "done" =>
                  Moved(workflows[r], workflows[r], i, state, attempts[r])
  <2>1. r \in Runs /\ workflows[r] \in Seq(Workflow)
    BY <1>1, Attempted DEF Attempting, ResultsInv
  <2> QED
    BY <1>1, <2>1 DEF ResultsInv, Moved
<1>2. ASSUME AtItem(p) PROVE k.step = "items"
  BY <1>2 DEF AtItem, Doing
<1>3. CASE Begin(p)
  BY <1>3, BeginResults
<1>4. CASE CreateWorkflow(p)
  BY <1>4, CreateWorkflowResults
<1>5. CASE NoTargets(p)
  BY <1>1, <1>5, RaiseResults DEF NoTargets, Doing
<1>6. CASE Close(p)
  BY <1>6, CloseResults
<1>7. CASE TimesOut(p) \/ Refused(p)
  <2>1. /\ AtItem(p) /\ Now(p, Outcome(k, FALSE, FALSE))
        /\ UNCHANGED <<workflows, runs, attempts>>
    BY <1>7 DEF TimesOut, Refused, history
  <2>2. /\ workflows' = [workflows EXCEPT ![r] = workflows[r]]
        /\ Moved(workflows[r], workflows[r], k.item + 1, "stuck", attempts[r])
    BY <1>1, <1>2, <2>1
  <2> QED
    BY <2>1, <2>2, ItemResults
<1>8. CASE RunWorkflow(p)
  <2>1. /\ AtItem(p) /\ UNCHANGED <<runs, attempts>> /\ RetriesAfter(Here(p)) \in Nat
    BY <1>8, HereRetries DEF RunWorkflow, history
  <2>2. PICK state \in {"done", "FAILED"}, success \in BOOLEAN :
          /\ MoveWorkflow(p, state, RetriesAfter(Here(p)))
          /\ Now(p, Outcome(k, success, TRUE))
          /\ success => state = "done"
    BY <1>8 DEF RunWorkflow
  <2>3. PICK ws : /\ workflows' = [workflows EXCEPT ![r] = ws]
                  /\ Moved(workflows[r], ws, k.item + 1, state, attempts[r])
    BY <2>1, <2>2, MoveMoves
  <2> QED
    BY <2>1, <2>2, <2>3, ItemResults
<1>9. CASE WorkflowRaises(p)
  <2>1. /\ AtItem(p) /\ RetriesAfter(Here(p)) \in Nat /\ Raise(p)
        /\ MoveWorkflow(p, "stuck", RetriesAfter(Here(p)))
    BY <1>9, HereRetries DEF WorkflowRaises
  <2>2. PICK ws : /\ workflows' = [workflows EXCEPT ![r] = ws]
                  /\ Moved(workflows[r], ws, k.item + 1, "stuck", attempts[r])
    BY <2>1, MoveMoves
  <2>3. ws \in Seq(Workflow) /\ Len(ws) = Len(workflows[r])
    BY <2>2 DEF Moved
  <2> QED
    BY <1>2, <2>1, <2>2, <2>3, RaiseResults
<1> QED
  BY <1>3, <1>4, <1>5, <1>6, <1>7, <1>8, <1>9 DEF AttemptStep

\* A run that is taken up again comes without outcomes.
LEMMA RetryRunResults ==
  ASSUME ControlInv, ResultsInv, RetryRun
  PROVE  ResultsInv'
<1> DEFINE p == "dispatcher"
<1>1. PICK r \in queue.runs :
        /\ Now(p, [Free EXCEPT !.step = "begin", !.task = runs[r].task, !.run = r])
        /\ UNCHANGED <<tasks, runs, workflows, history>>
  BY DEF RetryRun, Foremost
<1> DEFINE next == [Free EXCEPT !.step = "begin", !.task = runs[r].task, !.run = r]
<1>2. /\ r \in Runs /\ p \in Workers /\ \A q \in Workers : workers[q].run # r
  BY DEF ControlInv, ControlTypes, QueueFits, Workers, Holds
<1>3. /\ next.step = "begin" /\ next.run = r /\ ~ next.fresh /\ next.items = << >>
      /\ next.item = 0 /\ ~ next.failed /\ ~ next.wrote
  BY DEF Free
<1>4. /\ workers' = [workers EXCEPT ![p] = next]
      /\ runs' = [runs EXCEPT ![r] = runs[r]]
      /\ attempts' = [attempts EXCEPT ![r] = attempts[r]]
      /\ workflows' = [workflows EXCEPT ![r] = workflows[r]]
      /\ workflows[r] \in Seq(Workflow)
  BY <1>1, <1>2 DEF Now, history, ControlInv, ControlTypes, ResultsInv
<1> HIDE DEF next
<1>5. ItemsFit(next, runs[r], workflows[r], attempts[r])
  BY <1>3 DEF ItemsFit
<1>6. ResultsFit(runs[r], workflows[r], attempts[r])
  BY <1>2 DEF ResultsInv
<1>7. Concerns(p, r, next, runs[r], attempts[r], workflows[r])
  BY <1>2, <1>3, <1>4, <1>5, <1>6 DEF Concerns
<1> QED
  BY <1>2, <1>7, ConcernsKeeps

\* A step that moves no workflow and gives nobody anything in hand.
LEMMA NoMoveKeeps ==
  ASSUME ControlInv, ResultsInv,
         \A q \in Workers : workers'[q] = workers[q] \/ workers'[q].run = Nil,
         \A s \in Runs : SameEnd(runs[s], runs'[s]),
         UNCHANGED <<workflows, attempts>>
  PROVE  ResultsInv'
<1>1. \A s \in Runs : SameDone(workflows[s], workflows'[s])
  BY DEF SameDone, ResultsInv
<1>2. workflows' \in [Runs -> Seq(Workflow)]
  BY DEF ResultsInv
<1> QED
  BY <1>1, <1>2, SameDoneKeeps

\* Somebody else's move leaves it as it was when a workflow was done.
LEMMA OthersMoveResults ==
  ASSUME ControlInv, ResultsInv, NEW r \in Runs, NEW i \in 1 .. Len(workflows[r]),
         OthersMove(r, i)
  PROVE  ResultsInv'
<1> DEFINE old == workflows[r]
<1>1. old \in Seq(Workflow) /\ Len(old) \in Nat
  BY LenProperties DEF ResultsInv
<1>2. old[i] \in Workflow
  BY <1>1, ElementOfSeq
<1>3. PICK w \in Workflow : /\ workflows' = [workflows EXCEPT ![r] = [old EXCEPT ![i] = w]]
                            /\ w.doneAt = old[i].doneAt
  <2>1. [old[i] EXCEPT !.state = "ready"] \in Workflow
        /\ [old[i] EXCEPT !.state = "ready"].doneAt = old[i].doneAt
    BY <1>2 DEF Workflow
  <2>2. [old[i] EXCEPT !.state = "done"] \in Workflow
        /\ [old[i] EXCEPT !.state = "done"].doneAt = old[i].doneAt
    BY <1>2 DEF Workflow
  <2>3. [old[i] EXCEPT !.state = "ready", !.retries = @ + 1] \in Workflow
        /\ [old[i] EXCEPT !.state = "ready", !.retries = @ + 1].doneAt = old[i].doneAt
    <3> DEFINE n == old[i].retries + 1
    <3>1. n \in Nat
      BY <1>2 DEF Workflow
    <3> HIDE DEF n
    <3>2. /\ [old[i] EXCEPT !.state = "ready", !.retries = n] \in Workflow
          /\ [old[i] EXCEPT !.state = "ready", !.retries = n].doneAt = old[i].doneAt
      BY <1>2, <3>1 DEF Workflow
    <3> QED
      BY <3>2 DEF n
  <2>4. \/ workflows' = [workflows EXCEPT ![r] =
                          [old EXCEPT ![i] = [old[i] EXCEPT !.state = "ready"]]]
        \/ workflows' = [workflows EXCEPT ![r] =
                          [old EXCEPT ![i] = [old[i] EXCEPT !.state = "done"]]]
        \/ workflows' = [workflows EXCEPT ![r] =
                          [old EXCEPT ![i] = [old[i] EXCEPT !.state = "ready", !.retries = @ + 1]]]
    BY <1>1, <1>2 DEF OthersMove, ResultsInv
  <2> QED BY <2>1, <2>2, <2>3, <2>4
<1> DEFINE ws == [old EXCEPT ![i] = w]
<1>4. ws \in Seq(Workflow) /\ Len(ws) = Len(old)
      /\ \A j \in 1 .. Len(old) : ws[j] = IF j = i THEN w ELSE old[j]
  BY <1>1, <1>3, ExceptSeq, LenProperties
<1>5. SameDone(old, ws)
  <2> HIDE DEF ws, old
  <2> QED BY <1>3, <1>4 DEF SameDone
<1>6. /\ workflows' \in [Runs -> Seq(Workflow)]
      /\ \A s \in Runs : workflows'[s] = IF s = r THEN ws ELSE workflows[s]
  BY <1>3, <1>4 DEF ResultsInv
<1>7. \A s \in Runs : SameDone(workflows[s], workflows[s])
  BY DEF SameDone, ResultsInv
<1>8. \A s \in Runs : SameDone(workflows[s], workflows'[s])
  BY <1>5, <1>6, <1>7
<1>9. \A s \in Runs : SameEnd(runs[s], runs'[s])
  BY DEF OthersMove, SameEnd
<1> QED
  BY <1>6, <1>8, <1>9, SameDoneKeeps DEF OthersMove, history

\* And so does an interruption.
LEMMA InterruptResults ==
  ASSUME ControlInv, ResultsInv, NEW p \in Workers, Interrupt(p)
  PROVE  ResultsInv'
<1> DEFINE k == workers[p]
           r == k.run
<1>1. /\ workers' = [workers EXCEPT ![p] = Free] /\ UNCHANGED <<runs, attempts>>
      /\ Free.run = Nil
  BY DEF Interrupt, Now, Free
<1>2. \A q \in Workers : workers'[q] = workers[q] \/ workers'[q].run = Nil
  BY <1>1 DEF ControlInv, ControlTypes
<1>3. \A s \in Runs : SameEnd(runs[s], runs'[s])
  BY <1>1 DEF SameEnd
<1>4. CASE UNCHANGED workflows
  BY <1>1, <1>2, <1>3, <1>4, NoMoveKeeps
<1>5. CASE AtItem(p) /\ MoveWorkflow(p, "stuck", RetriesAfter(Here(p)))
  <2>1. PICK ws : /\ workflows' = [workflows EXCEPT ![r] = ws]
                  /\ Moved(workflows[r], ws, k.item + 1, "stuck", attempts[r])
    BY <1>5, HereRetries, MoveMoves
  <2>2. SameDone(workflows[r], ws)
    BY <2>1 DEF Moved, SameDone
  <2>3. r \in Runs
    BY <1>5, Attempted DEF AtItem, Doing, Attempting
  <2>4. /\ workflows' \in [Runs -> Seq(Workflow)]
        /\ \A s \in Runs : workflows'[s] = IF s = r THEN ws ELSE workflows[s]
    BY <2>1, <2>2, <2>3 DEF SameDone, ResultsInv
  <2>5. \A s \in Runs : SameDone(workflows[s], workflows[s])
    BY DEF SameDone, ResultsInv
  <2>6. \A s \in Runs : SameDone(workflows[s], workflows'[s])
    BY <2>2, <2>4, <2>5
  <2> QED
    BY <1>1, <1>2, <1>3, <2>4, <2>6, SameDoneKeeps
<1> QED
  BY <1>4, <1>5 DEF Interrupt

\* Every step keeps the results in order.
LEMMA NextKeepsResults ==
  ASSUME ControlInv, ResultsInv, [TaskNext]_taskVars
  PROVE  ResultsInv'
<1>1. ASSUME NEW p \in Workers, NEW next, Now(p, next), next.run = Nil
      PROVE  \A q \in Workers : workers'[q] = workers[q] \/ workers'[q].run = Nil
  BY <1>1 DEF Now, ControlInv, ControlTypes
<1>2. ASSUME runs' = runs
      PROVE  \A s \in Runs : SameEnd(runs[s], runs'[s])
  BY <1>2 DEF SameEnd
<1>3. CASE AttemptStep("api")
  BY <1>3, AttemptKeepsResults DEF Workers
<1>4. CASE DispatcherStep
  <2>1. CASE AttemptStep("dispatcher")
    BY <2>1, AttemptKeepsResults DEF Workers
  <2>2. CASE Dispatch \/ ReadDue
    BY <1>2, <2>2, NoMoveKeeps DEF Dispatch, ReadDue, history
  <2>3. CASE RetryRun
    BY <2>3, RetryRunResults
  <2>4. CASE ExecuteTask
    <3>1. PICK t \in queue.tasks :
            \/ CreateRun("dispatcher", t)
            \/ /\ Now("dispatcher", [Free EXCEPT !.step = "moveNext", !.task = t])
               /\ UNCHANGED <<tasks, runs, workflows, history>>
      BY <2>4 DEF ExecuteTask, Foremost
    <3>2. t \in Tasks
      BY DEF ControlInv, ControlTypes
    <3>3. [Free EXCEPT !.step = "moveNext", !.task = t].run = Nil
      BY DEF Free
    <3>4. CASE CreateRun("dispatcher", t)
      BY <3>2, <3>4, CreateRunResults DEF Workers
    <3>5. CASE /\ Now("dispatcher", [Free EXCEPT !.step = "moveNext", !.task = t])
               /\ UNCHANGED <<tasks, runs, workflows, history>>
      BY <1>1, <1>2, <3>3, <3>5, NoMoveKeeps DEF Workers, history
    <3> QED BY <3>1, <3>4, <3>5
  <2>5. CASE UpdateNextRun
    BY <1>1, <1>2, <2>5, NoMoveKeeps DEF UpdateNextRun, Workers, history, Free
  <2> QED
    BY <1>4, <2>1, <2>2, <2>3, <2>4, <2>5 DEF DispatcherStep
<1>5. ASSUME NEW t \in Tasks, RunTask(t)
      PROVE  ResultsInv'
  BY <1>5, CreateRunResults DEF RunTask, Workers
<1>6. ASSUME NEW t \in Tasks, NEW e \in BOOLEAN, TaskFalls(t) \/ SetEnabled(t, e)
      PROVE  ResultsInv'
  BY <1>2, <1>6, NoMoveKeeps DEF TaskFalls, SetEnabled, history
<1>7. ASSUME NEW r \in Runs, RetryFalls(r)
      PROVE  ResultsInv'
  <2>1. \A s \in Runs : SameEnd(runs[s], runs'[s])
    BY <1>7 DEF RetryFalls, SameEnd, ControlInv, ControlTypes, RunRow
  <2> QED
    BY <1>7, <2>1, NoMoveKeeps DEF RetryFalls, history
<1>8. ASSUME NEW r \in Runs, NEW i \in 1 .. Len(workflows[r]), OthersMove(r, i)
      PROVE  ResultsInv'
  BY <1>8, OthersMoveResults
<1>9. ASSUME NEW p \in Workers, Interrupt(p)
      PROVE  ResultsInv'
  BY <1>9, InterruptResults
<1>10. CASE UNCHANGED taskVars
  BY <1>2, <1>10, NoMoveKeeps DEF taskVars, history
<1> QED
  BY <1>3, <1>4, <1>5, <1>6, <1>7, <1>8, <1>9, <1>10 DEF TaskNext

\* No run, no results.
LEMMA InitResults ==
  ASSUME TaskInit
  PROVE  ResultsInv
<1>1. workflows \in [Runs -> Seq(Workflow)]
  BY EmptySeq DEF TaskInit
<1>2. \A p \in Workers : WorkerItemsFit(p)
  BY DEF TaskInit, WorkerItemsFit, Free
<1>3. \A r \in Runs : ResultsFit(runs[r], workflows[r], attempts[r])
  BY DEF TaskInit, ResultsFit, NoRun
<1> QED
  BY <1>1, <1>2, <1>3 DEF ResultsInv

-----------------------------------------------------------------------------
(***************************************************************************)
(* The dispatches.                                                         *)
(***************************************************************************)

\* What a step must keep in step for a task: it is dispatched, owed, in hand or
\* queued no more than before, or the clock or an interruption accounts for it.
LEMMA FiresKeep ==
  ASSUME ControlInv, ControlInv', NEW t \in Tasks, FiresFit(t),
         Dispatched(t)' \subseteq Dispatched(t),
         Owed(t)' => Owed(t) \/ fires'[t] + interrupts' > fires[t] + interrupts,
         fires'[t] + interrupts' >= fires[t] + interrupts,
         InHand(t)' => t \notin queue'.tasks
  PROVE  FiresFit(t)'
<1>1. /\ fires[t] \in Nat /\ interrupts \in Nat /\ fires'[t] \in Nat /\ interrupts' \in Nat
  BY DEF ControlInv, ControlTypes
<1>2. IsFiniteSet(Dispatched(t)) /\ Cardinality(Dispatched(t)) \in Nat
  BY FS_CardinalityType DEF FiresFit
<1> DEFINE c == Cardinality(Dispatched(t))
           d == Cardinality(Dispatched(t)')
           f == fires[t] + interrupts
           g == fires'[t] + interrupts'
<1>3. c \in Nat /\ f \in Nat /\ g \in Nat /\ g >= f /\ c + (IF Owed(t) THEN 1 ELSE 0) <= f
  BY <1>1, <1>2 DEF FiresFit
<1>4. Owed(t)' => Owed(t) \/ g > f
  OBVIOUS
<1>5. d <= c /\ d \in Nat /\ IsFiniteSet(Dispatched(t)')
  BY <1>2, FS_Subset, FS_CardinalityType
<1> HIDE DEF c, d, f
<1>6. d + (IF Owed(t)' THEN 1 ELSE 0) <= g
  <2> HIDE DEF g
  <2>1. CASE Owed(t)'
    <3>1. CASE Owed(t)
      BY <1>3, <1>5, <2>1, <3>1
    <3>2. CASE ~ Owed(t)
      BY <1>3, <1>4, <1>5, <2>1, <3>2
    <3> QED BY <3>1, <3>2
  <2>2. CASE ~ Owed(t)'
    <3>1. c <= f
      <4>1. CASE Owed(t)
        BY <1>3, <4>1
      <4>2. CASE ~ Owed(t)
        BY <1>3, <4>2
      <4> QED BY <4>1, <4>2
    <3> QED
      BY <1>3, <1>5, <2>2, <3>1
  <2> QED BY <2>1, <2>2
<1> QED
  BY <1>5, <1>6 DEF FiresFit, d

\* The dispatcher creates the run of a task that is owed one, which is then in
\* its hands.
LEMMA ExecutedOnce ==
  ASSUME ControlInv, ControlInv', NEW t \in Tasks, FiresFit(t), t \in queue.tasks,
         t \notin queue'.tasks, workers["dispatcher"].step = "idle",
         CreateRun("dispatcher", t)
  PROVE  FiresFit(t)'
<1>1. PICK r \in Runs :
        /\ runs[r].status = "none"
        /\ runs' = [runs EXCEPT ![r] =
             [NoRun EXCEPT !.task = t, !.status = "PENDING", !.by = "dispatcher"]]
        /\ Now("dispatcher",
               [Free EXCEPT !.step = "begin", !.task = t, !.run = r, !.fresh = TRUE])
        /\ UNCHANGED <<tasks, workflows, history>>
  BY DEF CreateRun
<1>2. r # Nil /\ t # Nil
  BY NilAssumption
<1>3. Dispatched(t)' \subseteq Dispatched(t) \cup {r}
  BY <1>1 DEF Dispatched, ControlInv, ControlTypes
<1>4. /\ IsFiniteSet(Dispatched(t)')
      /\ Cardinality(Dispatched(t)') <= Cardinality(Dispatched(t)) + 1
      /\ Cardinality(Dispatched(t)') \in Nat /\ Cardinality(Dispatched(t)) \in Nat
  <2>1. IsFiniteSet(Dispatched(t)) /\ Cardinality(Dispatched(t)) \in Nat
    BY FS_CardinalityType DEF FiresFit
  <2>2. /\ IsFiniteSet(Dispatched(t) \cup {r})
        /\ Cardinality(Dispatched(t) \cup {r}) <= Cardinality(Dispatched(t)) + 1
        /\ Cardinality(Dispatched(t) \cup {r}) \in Nat
    <3> DEFINE D == Dispatched(t)
    <3> HIDE DEF D
    <3>1. IsFiniteSet(D) /\ Cardinality(D) \in Nat
      BY <2>1 DEF D
    <3>2. /\ IsFiniteSet(D \cup {r})
          /\ Cardinality(D \cup {r}) = IF r \in D THEN Cardinality(D) ELSE Cardinality(D) + 1
      BY <3>1, FS_AddElement
    <3> QED
      BY <3>1, <3>2 DEF D
  <2>3. /\ IsFiniteSet(Dispatched(t)')
        /\ Cardinality(Dispatched(t)') <= Cardinality(Dispatched(t) \cup {r})
    BY <1>3, <2>2, FS_Subset
  <2>4. Cardinality(Dispatched(t)') \in Nat
    BY <2>3, FS_CardinalityType
  <2> QED BY <2>1, <2>2, <2>3, <2>4
<1>5. ~ InHand(t)
  <2>1. workers["dispatcher"].run = Nil
    BY DEF ControlInv, WorkerFits, Attempting, Workers
  <2> QED
    BY <2>1 DEF InHand
<1>6. Owed(t)
  BY <1>5 DEF Owed
<1>7. workers'["dispatcher"] =
        [Free EXCEPT !.step = "begin", !.task = t, !.run = r, !.fresh = TRUE]
  BY <1>1 DEF Now, ControlInv, ControlTypes, Workers
<1>8. InHand(t)'
  BY <1>2, <1>7 DEF InHand, Free
<1>9. ~ Owed(t)'
  BY <1>8 DEF Owed
<1>10. fires'[t] + interrupts' = fires[t] + interrupts
       /\ fires[t] + interrupts \in Nat
  BY <1>1 DEF history, ControlInv, ControlTypes
<1>11. Cardinality(Dispatched(t)) + 1 <= fires[t] + interrupts
  BY <1>6 DEF FiresFit
<1>12. Cardinality(Dispatched(t)') <= fires'[t] + interrupts'
  BY <1>4, <1>10, <1>11
<1> QED
  BY <1>4, <1>9, <1>10, <1>12 DEF FiresFit

\* What the steps of an attempt have in common: the runs keep their tasks, and
\* the worker what it has in hand, until it leaves.
LEMMA AttemptShape ==
  ASSUME ControlInv, NEW p \in Workers, AttemptStep(p)
  PROVE  /\ UNCHANGED <<tasks, queue, fires, interrupts>>
         /\ \A r \in Runs : runs'[r].task = runs[r].task /\ runs'[r].by = runs[r].by
         /\ \E next : /\ workers' = [workers EXCEPT ![p] = next]
                      /\ \/ /\ next.step \in Attempting /\ next.run = workers[p].run
                            /\ next.task = workers[p].task
                            /\ next.fresh = workers[p].fresh
                         \/ /\ next.run = Nil
                            /\ IF p = "dispatcher" /\ workers[p].fresh
                               THEN next.step = "moveNext" /\ next.task = workers[p].task
                               ELSE next.step = "idle"
<1> DEFINE k == workers[p]
           r == k.run
<1>1. k.step \in Attempting
  BY DEF AttemptStep, Begin, CreateWorkflow, NoTargets, Close, TimesOut, Refused,
         RunWorkflow, WorkflowRaises, AtItem, Doing, Attempting
<1>2. /\ k \in Worker /\ r \in Runs /\ runs[r] \in RunRow /\ runs[r].task \in Tasks
      /\ RunFits(r) /\ runs[r].status = StatusHeld(k)
  BY <1>1, Attempted
<1>3. runs[r].retries <= MaxRetries[runs[r].task]
  BY <1>2 DEF RunFits, StatusHeld
<1>4. CASE Begin(p)
  <2>1. \/ \E m : Now(p, [k EXCEPT !.step = "create", !.targets = m])
        \/ \E found : Now(p, [k EXCEPT !.step = "items", !.items = found])
    BY <1>4 DEF Begin
  <2>2. PICK next : /\ workers' = [workers EXCEPT ![p] = next]
                    /\ next.step \in Attempting /\ next.run = r
                    /\ next.task = k.task /\ next.fresh = k.fresh
    <3>1. ASSUME NEW m, Now(p, [k EXCEPT !.step = "create", !.targets = m])
          PROVE  \E next : /\ workers' = [workers EXCEPT ![p] = next]
                           /\ next.step \in Attempting /\ next.run = r
                           /\ next.task = k.task /\ next.fresh = k.fresh
      <4> DEFINE next == [k EXCEPT !.step = "create", !.targets = m]
      <4>1. /\ next.step \in Attempting /\ next.run = r
            /\ next.task = k.task /\ next.fresh = k.fresh
        BY <1>2 DEF Worker, Attempting
      <4>2. workers' = [workers EXCEPT ![p] = next]
        BY <3>1 DEF Now
      <4> HIDE DEF next
      <4> QED BY <4>1, <4>2
    <3>2. ASSUME NEW found, Now(p, [k EXCEPT !.step = "items", !.items = found])
          PROVE  \E next : /\ workers' = [workers EXCEPT ![p] = next]
                           /\ next.step \in Attempting /\ next.run = r
                           /\ next.task = k.task /\ next.fresh = k.fresh
      <4> DEFINE next == [k EXCEPT !.step = "items", !.items = found]
      <4>1. /\ next.step \in Attempting /\ next.run = r
            /\ next.task = k.task /\ next.fresh = k.fresh
        BY <1>2 DEF Worker, Attempting
      <4>2. workers' = [workers EXCEPT ![p] = next]
        BY <3>2 DEF Now
      <4> HIDE DEF next
      <4> QED BY <4>1, <4>2
    <3> QED BY <2>1, <3>1, <3>2
  <2>3. /\ UNCHANGED <<tasks, queue, fires, interrupts>>
        /\ \A s \in Runs : runs'[s].task = runs[s].task /\ runs'[s].by = runs[s].by
    BY <1>4 DEF Begin, ControlInv, ControlTypes, RunRow
  <2> QED BY <2>2, <2>3
<1>5. ASSUME NEW row, Ends(runs[r], row), runs' = [runs EXCEPT ![r] = row]
      PROVE  \A s \in Runs : runs'[s].task = runs[s].task /\ runs'[s].by = runs[s].by
  BY <1>2, <1>5 DEF Ends, ControlInv, ControlTypes
<1>6. ASSUME Raise(p)
      PROVE  \A s \in Runs : runs'[s].task = runs[s].task /\ runs'[s].by = runs[s].by
  <2>1. Ends(runs[r], ScheduleRetryOrFail(runs[r]))
    BY <1>2, <1>3, RetryOrFailEnds
  <2>2. runs' = [runs EXCEPT ![r] = ScheduleRetryOrFail(runs[r])]
    BY <1>2, <1>6 DEF Raise, ControlInv, ControlTypes
  <2> QED BY <1>5, <2>1, <2>2
<1>7. CASE NoTargets(p) \/ WorkflowRaises(p)
  BY <1>1, <1>6, <1>7, LeftHands DEF NoTargets, WorkflowRaises, Raise, history
<1>8. CASE Close(p)
  <2>1. k.step = "items"
    BY <1>8 DEF Close, Doing
  <2>2. runs' = [runs EXCEPT ![r] = Closed(p)] /\ Ends(runs[r], Closed(p))
    BY <1>8, <2>1, ClosedEnds DEF Close, Closed
  <2> QED
    BY <1>1, <1>5, <1>8, <2>2, LeftHands DEF Close, history
<1>9. CASE CreateWorkflow(p)
  <2> DEFINE next == [k EXCEPT !.items = Append(@, FALSE),
                               !.step = IF Len(k.items) + 1 = k.targets THEN "items" ELSE @]
  <2>1. /\ next.step \in Attempting /\ next.run = r /\ next.task = k.task
        /\ next.fresh = k.fresh
    BY <1>1, <1>2 DEF Worker, Attempting
  <2>2. workers' = [workers EXCEPT ![p] = next] /\ UNCHANGED <<tasks, runs, queue, history>>
    BY <1>9 DEF CreateWorkflow, Now
  <2> HIDE DEF next
  <2> QED
    BY <2>1, <2>2 DEF history
<1>10. CASE TimesOut(p) \/ Refused(p) \/ RunWorkflow(p)
  <2>1. PICK success \in BOOLEAN, wrote \in BOOLEAN : Now(p, Outcome(k, success, wrote))
    BY <1>10 DEF TimesOut, Refused, RunWorkflow
  <2> DEFINE next == Outcome(k, success, wrote)
  <2>2. k.item < Len(k.items)
    BY <1>10 DEF TimesOut, Refused, RunWorkflow, AtItem
  <2>3. Goes(k, next, success, wrote)
    BY <1>2, <2>2, OutcomeInHand
  <2>4. workers' = [workers EXCEPT ![p] = next] /\ UNCHANGED <<tasks, runs, queue, history>>
    BY <1>10, <2>1 DEF TimesOut, Refused, RunWorkflow, Now
  <2> HIDE DEF next
  <2> QED
    BY <1>1, <2>3, <2>4 DEF Goes, history
<1> QED
  BY <1>4, <1>7, <1>8, <1>9, <1>10 DEF AttemptStep

\* The steps of an attempt neither dispatch nor leave off.
LEMMA AttemptKeepsFires ==
  ASSUME ControlInv, ControlInv', FiresInv, NEW p \in Workers, AttemptStep(p)
  PROVE  FiresInv'
<1> DEFINE d == "dispatcher"
<1>1. /\ UNCHANGED <<tasks, queue, fires, interrupts>>
      /\ \A r \in Runs : runs'[r].task = runs[r].task /\ runs'[r].by = runs[r].by
  BY AttemptShape
<1>2. PICK next : /\ workers' = [workers EXCEPT ![p] = next]
                  /\ \/ /\ next.step \in Attempting /\ next.run = workers[p].run
                        /\ next.task = workers[p].task /\ next.fresh = workers[p].fresh
                     \/ /\ next.run = Nil
                        /\ IF p = "dispatcher" /\ workers[p].fresh
                           THEN next.step = "moveNext" /\ next.task = workers[p].task
                           ELSE next.step = "idle"
  BY AttemptShape
<1>3. workers[p].step \in Attempting /\ workers[p].run # Nil
  <2>1. workers[p].step \in Attempting
    BY DEF AttemptStep, Begin, CreateWorkflow, NoTargets, Close, TimesOut, Refused,
           RunWorkflow, WorkflowRaises, AtItem, Doing, Attempting
  <2> QED BY <2>1, Attempted
<1>4. ASSUME NEW t \in Tasks
      PROVE  FiresFit(t)'
  <2>1. InHand(t)' <=> InHand(t)
    <3>1. CASE p # d
      BY <1>2, <3>1 DEF InHand, ControlInv, ControlTypes, Workers
    <3>2. CASE p = d
      <4>1. workers'[d] = next
        BY <1>2, <3>2 DEF ControlInv, ControlTypes
      <4> QED
        BY <1>2, <1>3, <3>2, <4>1 DEF InHand, Attempting
    <3> QED BY <3>1, <3>2
  <2>2. Owed(t)' => Owed(t)
    BY <1>1, <2>1 DEF Owed
  <2>3. Dispatched(t)' \subseteq Dispatched(t)
    BY <1>1 DEF Dispatched
  <2>4. FiresFit(t) /\ fires'[t] + interrupts' >= fires[t] + interrupts
    BY <1>1 DEF FiresInv, ControlInv, ControlTypes
  <2>5. InHand(t)' => t \notin queue'.tasks
    BY <1>1, <2>1, <2>4 DEF FiresFit
  <2> QED
    BY <2>2, <2>3, <2>4, <2>5, FiresKeep
<1> QED
  BY <1>1, <1>4 DEF FiresInv

\* A step that leaves the runs and the dispatcher alone, and owes nothing new
\* that was not counted.
LEMMA QuietKeepsFires ==
  ASSUME ControlInv, ControlInv', FiresInv,
         workers'["dispatcher"] = workers["dispatcher"],
         \A t \in Tasks : Dispatched(t)' \subseteq Dispatched(t),
         \A t \in Tasks : tasks'[t].next = "due" =>
           tasks[t].next = "due" \/ fires'[t] + interrupts' > fires[t] + interrupts,
         \A t \in Tasks : fires'[t] + interrupts' >= fires[t] + interrupts,
         queue'.tasks = queue.tasks, queue'.open => queue.open \/ queue.tasks = {}
  PROVE  FiresInv'
<1>1. ASSUME NEW t \in Tasks
      PROVE  FiresFit(t)'
  <2>1. InHand(t)' <=> InHand(t)
    BY DEF InHand
  <2>2. FiresFit(t)
    BY DEF FiresInv
  <2>3. Owed(t)' => Owed(t) \/ fires'[t] + interrupts' > fires[t] + interrupts
    BY <2>1 DEF Owed
  <2>4. InHand(t)' => t \notin queue'.tasks
    BY <2>1, <2>2 DEF FiresFit
  <2> QED
    BY <2>2, <2>3, <2>4, FiresKeep
<1> QED
  BY <1>1 DEF FiresInv

\* A run that is created by the other worker does not count.
LEMMA RunTaskKeepsFires ==
  ASSUME ControlInv, ControlInv', FiresInv, NEW t \in Tasks, RunTask(t)
  PROVE  FiresInv'
<1>1. PICK r \in Runs :
        /\ runs' = [runs EXCEPT ![r] =
             [NoRun EXCEPT !.task = t, !.status = "PENDING", !.by = "api"]]
        /\ Now("api", [Free EXCEPT !.step = "begin", !.task = t, !.run = r, !.fresh = TRUE])
        /\ UNCHANGED <<tasks, workflows, history, queue>>
  BY DEF RunTask, CreateRun
<1>2. workers'["dispatcher"] = workers["dispatcher"]
  BY <1>1 DEF Now, ControlInv, ControlTypes
<1>3. runs'[r].by = "api" /\ \A s \in Runs : s # r => runs'[s] = runs[s]
  BY <1>1 DEF NoRun, ControlInv, ControlTypes
<1>4. \A u \in Tasks : Dispatched(u)' \subseteq Dispatched(u)
  BY <1>3 DEF Dispatched
<1>5. \A u \in Tasks : fires'[u] + interrupts' >= fires[u] + interrupts
  BY <1>1 DEF history, ControlInv, ControlTypes
<1> QED
  BY <1>1, <1>2, <1>4, <1>5, QuietKeepsFires

\* A worker without a run, at rest, has no task in hand.
LEMMA IdleHands ==
  ASSUME ControlInv, NEW t \in Tasks, workers["dispatcher"].step = "idle"
  PROVE  ~ InHand(t)
<1>1. workers["dispatcher"].run = Nil
  BY DEF ControlInv, WorkerFits, Attempting, Workers
<1> QED
  BY <1>1 DEF InHand

\* The dispatcher executes the first of the tasks that were due: that task is no
\* longer owed a run, and the others are as before.
LEMMA ExecuteTaskFires ==
  ASSUME ControlInv, ControlInv', FiresInv, ExecuteTask
  PROVE  FiresInv'
<1> DEFINE d == "dispatcher"
           moved(t) == [Free EXCEPT !.step = "moveNext", !.task = t]
<1>1. PICK u \in queue.tasks :
        /\ queue' = [queue EXCEPT !.tasks = @ \ {u}, !.loaded = FALSE]
        /\ \/ CreateRun(d, u)
           \/ Now(d, moved(u)) /\ UNCHANGED <<tasks, runs, workflows, history>>
  BY DEF ExecuteTask, Foremost
<1>2. /\ workers[d].step = "idle" /\ u \in Tasks /\ d \in Workers
      /\ queue'.tasks = queue.tasks \ {u} /\ queue'.open = queue.open
  BY <1>1 DEF ExecuteTask, Doing, ControlInv, ControlTypes, Workers
<1>3. UNCHANGED <<tasks, fires, interrupts>>
  BY <1>1 DEF CreateRun, history
<1>4. workers'[d].task = u
  <2>1. CASE CreateRun(d, u)
    <3>1. PICK r \in Runs :
            Now(d, [Free EXCEPT !.step = "begin", !.task = u, !.run = r, !.fresh = TRUE])
      BY <2>1 DEF CreateRun
    <3>2. workers'[d] = [Free EXCEPT !.step = "begin", !.task = u, !.run = r, !.fresh = TRUE]
      BY <1>2, <3>1 DEF Now, ControlInv, ControlTypes
    <3> QED
      BY <3>2 DEF Free
  <2>2. CASE Now(d, moved(u))
    <3>1. workers'[d] = moved(u)
      BY <1>2, <2>2 DEF Now, ControlInv, ControlTypes
    <3> QED
      BY <3>1 DEF Free
  <2> QED BY <1>1, <2>1, <2>2
<1>5. ASSUME NEW t \in Tasks
      PROVE  FiresFit(t)'
  <2>1. FiresFit(t) /\ ~ InHand(t)
    BY <1>2, IdleHands DEF FiresInv
  <2>2. fires'[t] + interrupts' >= fires[t] + interrupts
    BY <1>3 DEF ControlInv, ControlTypes
  <2>3. CASE t = u /\ CreateRun(d, u)
    BY <1>1, <1>2, <2>1, <2>3, ExecutedOnce
  <2>4. CASE t = u /\ Now(d, moved(u)) /\ UNCHANGED <<tasks, runs, workflows, history>>
    <3>1. workers'[d] = moved(u)
      BY <1>2, <2>4 DEF Now, ControlInv, ControlTypes
    <3>2. InHand(t)' /\ ~ Owed(t)'
      BY <2>4, <3>1 DEF InHand, Owed, Free
    <3>3. Dispatched(t)' \subseteq Dispatched(t)
      BY <2>4 DEF Dispatched
    <3> QED
      BY <1>2, <2>1, <2>2, <2>4, <3>2, <3>3, FiresKeep
  <2>5. CASE t # u
    <3>1. ~ InHand(t)'
      BY <1>4, <2>5 DEF InHand
    <3>2. Owed(t)' => Owed(t)
      BY <1>2, <1>3, <2>1 DEF Owed
    <3>3. Dispatched(t)' \subseteq Dispatched(t)
      <4>1. CASE CreateRun(d, u)
        <5>1. PICK r \in Runs : runs' = [runs EXCEPT ![r] =
                [NoRun EXCEPT !.task = u, !.status = "PENDING", !.by = d]]
          BY <4>1 DEF CreateRun
        <5>2. runs'[r].task = u /\ \A s \in Runs : s # r => runs'[s] = runs[s]
          BY <5>1 DEF NoRun, ControlInv, ControlTypes
        <5> QED
          BY <2>5, <5>2 DEF Dispatched
      <4>2. CASE runs' = runs
        BY <4>2 DEF Dispatched
      <4> QED BY <1>1, <4>1, <4>2
    <3> QED
      BY <2>1, <2>2, <3>1, <3>2, <3>3, FiresKeep
  <2> QED BY <1>1, <2>3, <2>4, <2>5
<1> QED
  BY <1>2, <1>5 DEF FiresInv

\* What the dispatcher does accounts for every dispatch.
LEMMA DispatcherKeepsFires ==
  ASSUME ControlInv, ControlInv', FiresInv, DispatcherStep
  PROVE  FiresInv'
<1> DEFINE d == "dispatcher"
<1>1. CASE AttemptStep(d)
  BY <1>1, AttemptKeepsFires DEF Workers
<1>2. CASE ExecuteTask
  BY <1>2, ExecuteTaskFires
<1>3. ASSUME NEW t \in Tasks, UNCHANGED <<fires, interrupts>>
      PROVE  FiresFit(t) /\ fires'[t] + interrupts' >= fires[t] + interrupts
  BY <1>3 DEF FiresInv, ControlInv, ControlTypes
<1>4. CASE Dispatch
  <2>1. /\ queue' = [queue EXCEPT !.runs = RetryDue, !.open = TRUE] /\ queue.tasks = {}
        /\ UNCHANGED <<tasks, runs, workers, fires, interrupts>>
    BY <1>4 DEF Dispatch, history
  <2>2. queue'.tasks = queue.tasks
    BY <2>1 DEF ControlInv, ControlTypes
  <2>3. \A t \in Tasks : Dispatched(t)' \subseteq Dispatched(t)
    BY <2>1 DEF Dispatched
  <2> QED
    BY <1>3, <2>1, <2>2, <2>3, QuietKeepsFires
<1>5. CASE ReadDue
  <2>1. /\ queue'.tasks = Due /\ ~ queue'.open /\ workers[d].step = "idle"
        /\ UNCHANGED <<tasks, runs, workers, fires, interrupts>>
    BY <1>5 DEF ReadDue, Doing, history, ControlInv, ControlTypes
  <2>2. ASSUME NEW t \in Tasks
        PROVE  FiresFit(t)'
    <3>1. ~ InHand(t) /\ ~ InHand(t)'
      BY <2>1, IdleHands DEF InHand
    <3>2. Owed(t)' => Owed(t)
      BY <2>1, <3>1 DEF Owed, Due
    <3>3. Dispatched(t)' \subseteq Dispatched(t)
      BY <2>1 DEF Dispatched
    <3> QED
      BY <1>3, <2>1, <3>1, <3>2, <3>3, FiresKeep
  <2> QED
    BY <2>1, <2>2 DEF FiresInv
<1>6. CASE RetryRun
  <2>1. PICK r \in queue.runs :
          /\ Now(d, [Free EXCEPT !.step = "begin", !.task = runs[r].task, !.run = r])
          /\ queue' = [queue EXCEPT !.runs = @ \ {r}]
          /\ UNCHANGED <<tasks, runs, workflows, history>>
          /\ workers[d].step = "idle"
    BY <1>6 DEF RetryRun, Foremost, Doing
  <2>2. workers'[d] = [Free EXCEPT !.step = "begin", !.task = runs[r].task, !.run = r]
    BY <2>1 DEF Now, ControlInv, ControlTypes, Workers
  <2>3. workers'[d].step = "begin" /\ ~ workers'[d].fresh
    BY <2>2 DEF Free
  <2>4. /\ queue'.tasks = queue.tasks /\ queue'.open = queue.open
        /\ UNCHANGED <<tasks, runs, fires, interrupts>>
    BY <2>1 DEF ControlInv, ControlTypes, history
  <2>5. ASSUME NEW t \in Tasks
        PROVE  FiresFit(t)'
    <3>1. ~ InHand(t)
      BY <2>1, IdleHands
    <3>2. ~ InHand(t)'
      BY <2>3 DEF InHand
    <3>3. Owed(t)' => Owed(t)
      BY <2>4, <3>1 DEF Owed
    <3>4. Dispatched(t)' \subseteq Dispatched(t)
      BY <2>4 DEF Dispatched
    <3> QED
      BY <1>3, <2>4, <3>2, <3>3, <3>4, FiresKeep
  <2> QED
    BY <2>4, <2>5 DEF FiresInv
<1>7. CASE UpdateNextRun
  <2> DEFINE u == workers[d].task
  <2>1. /\ workers[d].step = "moveNext" /\ u \in Tasks
        /\ tasks' = [tasks EXCEPT ![u].next = NextFire(u)]
        /\ workers'[d] = Free
        /\ UNCHANGED <<runs, queue, fires, interrupts>>
    BY <1>7 DEF UpdateNextRun, Doing, Now, history, ControlInv, ControlTypes, WorkerFits, Workers
  <2>2. /\ tasks'[u].next # "due" /\ \A t \in Tasks : t # u => tasks'[t] = tasks[t]
    BY <2>1 DEF NextFire, ControlInv, ControlTypes, TaskRow
  <2>3. ASSUME NEW t \in Tasks
        PROVE  FiresFit(t)'
    <3>1. ~ InHand(t)'
      BY <2>1 DEF InHand, Free
    <3>2. Owed(t)' => Owed(t)
      <4>1. CASE t = u
        <5>1. InHand(t) /\ FiresFit(t)
          BY <2>1, <4>1 DEF InHand, FiresInv
        <5> QED
          BY <2>1, <2>2, <4>1, <5>1 DEF FiresFit, Owed
      <4>2. CASE t # u
        BY <2>1, <2>2, <4>2 DEF InHand, Owed
      <4> QED BY <4>1, <4>2
    <3>3. Dispatched(t)' \subseteq Dispatched(t)
      BY <2>1 DEF Dispatched
    <3> QED
      BY <1>3, <2>1, <3>1, <3>2, <3>3, FiresKeep
  <2> QED
    BY <2>1, <2>3 DEF FiresInv
<1> QED
  BY <1>1, <1>2, <1>4, <1>5, <1>6, <1>7 DEF DispatcherStep

\* An interruption counts for every task.
LEMMA InterruptFires ==
  ASSUME ControlInv, ControlInv', FiresInv, NEW p \in Workers, Interrupt(p)
  PROVE  FiresInv'
<1> DEFINE d == "dispatcher"
<1>1. /\ workers' = [workers EXCEPT ![p] = Free]
      /\ queue' = (IF p = d THEN NoQueue ELSE queue)
      /\ interrupts' = interrupts + 1 /\ UNCHANGED <<tasks, runs, fires>>
  BY DEF Interrupt, Now
<1>2. /\ queue'.tasks \subseteq queue.tasks /\ (queue'.open => queue.open)
  BY <1>1 DEF NoQueue
<1>3. ASSUME NEW t \in Tasks
      PROVE  FiresFit(t)'
  <2>1. InHand(t)' => InHand(t)
    BY <1>1 DEF InHand, Free, ControlInv, ControlTypes, Workers
  <2>2. FiresFit(t) /\ fires'[t] + interrupts' > fires[t] + interrupts
        /\ fires'[t] + interrupts' >= fires[t] + interrupts
    BY <1>1 DEF FiresInv, ControlInv, ControlTypes
  <2>3. InHand(t)' => t \notin queue'.tasks
    BY <1>2, <2>1, <2>2 DEF FiresFit
  <2>4. Dispatched(t)' \subseteq Dispatched(t)
    BY <1>1 DEF Dispatched
  <2> QED
    BY <2>2, <2>3, <2>4, FiresKeep
<1>4. queue'.open => queue'.tasks = {}
  BY <1>2 DEF FiresInv
<1> QED
  BY <1>3, <1>4 DEF FiresInv

\* Every step accounts for the dispatches.
LEMMA NextKeepsFires ==
  ASSUME ControlInv, FiresInv, [TaskNext]_taskVars
  PROVE  FiresInv'
<1>1. ControlInv'
  BY NextKeepsControl
<1>2. ASSUME runs' = runs
      PROVE  \A t \in Tasks : Dispatched(t)' \subseteq Dispatched(t)
  BY <1>2 DEF Dispatched
<1>3. ASSUME UNCHANGED <<fires, interrupts>>
      PROVE  \A t \in Tasks : fires'[t] + interrupts' >= fires[t] + interrupts
  BY <1>3 DEF ControlInv, ControlTypes
<1>4. CASE AttemptStep("api")
  BY <1>1, <1>4, AttemptKeepsFires DEF Workers
<1>5. CASE DispatcherStep
  BY <1>1, <1>5, DispatcherKeepsFires
<1>6. ASSUME NEW t \in Tasks, RunTask(t)
      PROVE  FiresInv'
  BY <1>1, <1>6, RunTaskKeepsFires
<1>7. ASSUME NEW t \in Tasks, TaskFalls(t)
      PROVE  FiresInv'
  <2>1. /\ \A u \in Tasks : u # t => tasks'[u] = tasks[u] /\ fires'[u] = fires[u]
        /\ fires'[t] = fires[t] + 1 /\ interrupts' = interrupts
        /\ UNCHANGED <<runs, workers, queue>>
    BY <1>7 DEF TaskFalls, ControlInv, ControlTypes
  <2>2. \A u \in Tasks : fires[u] \in Nat /\ interrupts \in Nat
    BY DEF ControlInv, ControlTypes
  <2>3. \A u \in Tasks : fires'[u] + interrupts' >= fires[u] + interrupts
    BY <2>1, <2>2
  <2>4. \A u \in Tasks : tasks'[u].next = "due" =>
          tasks[u].next = "due" \/ fires'[u] + interrupts' > fires[u] + interrupts
    BY <2>1, <2>2
  <2> QED
    BY <1>1, <1>2, <2>1, <2>3, <2>4, QuietKeepsFires
<1>8. ASSUME NEW t \in Tasks, NEW e \in BOOLEAN, SetEnabled(t, e)
      PROVE  FiresInv'
  <2>1. \A u \in Tasks : tasks'[u].next = "due" => tasks[u].next = "due"
    BY <1>8 DEF SetEnabled, NewTask, NextFire, ControlInv, ControlTypes
  <2> QED
    BY <1>1, <1>2, <1>3, <1>8, <2>1, QuietKeepsFires DEF SetEnabled, history
<1>9. ASSUME NEW r \in Runs, RetryFalls(r)
      PROVE  FiresInv'
  <2>1. \A s \in Runs : runs'[s].task = runs[s].task /\ runs'[s].by = runs[s].by
    BY <1>9 DEF RetryFalls, ControlInv, ControlTypes, RunRow
  <2>2. \A t \in Tasks : Dispatched(t)' \subseteq Dispatched(t)
    BY <2>1 DEF Dispatched
  <2> QED
    BY <1>1, <1>3, <1>9, <2>2, QuietKeepsFires DEF RetryFalls, history
<1>10. ASSUME NEW r \in Runs, NEW i \in 1 .. Len(workflows[r]), OthersMove(r, i)
      PROVE  FiresInv'
  BY <1>1, <1>2, <1>3, <1>10, QuietKeepsFires DEF OthersMove, history
<1>11. ASSUME NEW p \in Workers, Interrupt(p)
      PROVE  FiresInv'
  BY <1>1, <1>11, InterruptFires
<1>12. CASE UNCHANGED taskVars
  BY <1>1, <1>2, <1>3, <1>12, QuietKeepsFires DEF taskVars, history
<1> QED
  BY <1>4, <1>5, <1>6, <1>7, <1>8, <1>9, <1>10, <1>11, <1>12 DEF TaskNext

\* No task is due and none was dispatched.
LEMMA InitFires ==
  ASSUME TaskInit
  PROVE  FiresInv
<1>1. ASSUME NEW t \in Tasks
      PROVE  FiresFit(t)
  <2>1. Dispatched(t) = {}
    BY NilAssumption DEF TaskInit, Dispatched, NoRun
  <2>2. ~ InHand(t)
    BY DEF TaskInit, InHand, Free, Workers
  <2>3. ~ Owed(t)
    BY DEF TaskInit, Owed, NewTask, NextFire, NoQueue
  <2>4. fires[t] = 0 /\ interrupts = 0
    BY DEF TaskInit
  <2> QED
    BY <2>1, <2>2, <2>3, <2>4, FS_EmptySet DEF FiresFit
<1> QED
  BY <1>1 DEF FiresInv, TaskInit, NoQueue

-----------------------------------------------------------------------------
(***************************************************************************)
(* The theorems.                                                           *)
(***************************************************************************)

\* All three invariants hold throughout.
LEMMA InvariantsHold == TaskSpec => [](ControlInv /\ ResultsInv /\ FiresInv)
<1>1. TaskInit => ControlInv /\ ResultsInv /\ FiresInv
  BY InitControl, InitResults, InitFires
<1>2. ControlInv /\ ResultsInv /\ FiresInv /\ [TaskNext]_taskVars =>
        (ControlInv /\ ResultsInv /\ FiresInv)'
  BY NextKeepsControl, NextKeepsResults, NextKeepsFires
<1> QED
  BY <1>1, <1>2, PTL DEF TaskSpec

\* The rows of tasks and runs, the workflows, and what the workers and the
\* dispatcher have in hand keep their types (task_service.py, task_scheduler.py).
THEOREM TaskTypesHold == TaskSpec => []TaskTypeOK
<1>1. ControlInv /\ ResultsInv => TaskTypeOK
  BY DEF ControlInv, ControlTypes, ResultsInv, TaskTypeOK
<1> QED
  BY <1>1, InvariantsHold, PTL

\* However /run, the dispatcher, the clock and the interruptions interleave, a
\* run is in the hands of one worker at most, and of none once it is finished;
\* and one is left in the middle only by an interruption (task_service.py, execute
\* and retry).
THEOREM RunsHaveOneWorker == TaskSpec => []OneWorkerPerRun
<1>1. ControlInv => OneWorkerPerRun
  <2> SUFFICES ASSUME ControlInv, NEW r \in Runs
               PROVE  /\ ~ (Holds("api", r) /\ Holds("dispatcher", r))
                      /\ runs[r].status \in Finished => \A p \in Workers : ~ Holds(p, r)
                      /\ runs[r].status \in {"PENDING", "RUNNING"} /\ r \notin lost =>
                           \E p \in Workers : Holds(p, r)
    BY DEF OneWorkerPerRun
  <2>1. r # Nil
    BY NilAssumption
  <2>2. ~ (Holds("api", r) /\ Holds("dispatcher", r))
    BY <2>1 DEF ControlInv, Apart, Holds, Workers
  <2>3. runs[r].status \in Finished => \A p \in Workers : ~ Holds(p, r)
    BY <2>1 DEF ControlInv, WorkerFits, Holds, StatusHeld, Finished
  <2>4. Attended(r)
    BY DEF ControlInv
  <2> QED
    BY <2>2, <2>3, <2>4 DEF Attended
<1> QED
  BY <1>1, InvariantsHold, PTL

\* Whatever the number of retries of a task, its run is attempted once and then
\* once for each of them, and fails only when they are used up
\* (task_service.py, _schedule_retry_or_fail).
THEOREM RunsKeepBudget == TaskSpec => []RunRetryBudget
<1>1. ControlInv => RunRetryBudget
  <2> SUFFICES ASSUME ControlInv, NEW r \in Runs, runs[r].status # "none"
               PROVE  LET max == MaxRetries[runs[r].task]
                      IN  /\ runs[r].retries <= max
                          /\ attempts[r] \in {runs[r].retries, runs[r].retries + 1}
                          /\ runs[r].status = "RETRY_SCHEDULED" => attempts[r] = runs[r].retries
                          /\ runs[r].status = "FAILED" => attempts[r] = max + 1
    BY DEF RunRetryBudget
  <2>1. RunFits(r) /\ runs[r].status \in Status
    BY DEF ControlInv, ControlTypes, RunRow
  <2> QED
    BY <2>1 DEF RunFits, Status
<1> QED
  BY <1>1, InvariantsHold, PTL

\* A run about any number of employees that is a SUCCESS had every one of its
\* workflows brought to rest by its last attempt (task_service.py, _attempt).
THEOREM RunsSucceedAtOnce == TaskSpec => []SucceedsAtOnce
<1>1. ResultsInv => SucceedsAtOnce
  BY DEF ResultsInv, ResultsFit, SucceedsAtOnce
<1> QED
  BY <1>1, InvariantsHold, PTL

\* The dispatcher creates at most one run of a task for each time it falls due,
\* and one more for each interruption (task_scheduler.py, dispatch).
THEOREM TasksAreDispatchedOnce == TaskSpec => []DispatchedOnce
<1>1. ControlInv /\ FiresInv => DispatchedOnce
  <2> SUFFICES ASSUME ControlInv, FiresInv, NEW t \in Tasks
               PROVE  Cardinality(Dispatched(t)) <= fires[t] + interrupts
    BY DEF DispatchedOnce, Dispatched
  <2>1. FiresFit(t) /\ fires[t] + interrupts \in Nat
    BY DEF FiresInv, ControlInv, ControlTypes
  <2>2. Cardinality(Dispatched(t)) \in Nat
    BY <2>1, FS_CardinalityType DEF FiresFit
  <2>3. CASE Owed(t)
    BY <2>1, <2>2, <2>3 DEF FiresFit
  <2>4. CASE ~ Owed(t)
    BY <2>1, <2>2, <2>4 DEF FiresFit
  <2> QED BY <2>3, <2>4
<1> QED
  BY <1>1, InvariantsHold, PTL

\* No later attempt, dispatch or call changes a run that is SUCCESS or FAILED
\* (task_service.py, retry).
THEOREM FinishedRunsAreFinal == TaskSpec => FinishedIsFinal
<1>1. ASSUME ControlInv, [TaskNext]_taskVars, NEW r \in Runs, runs[r].status \in Finished
      PROVE  runs'[r] = runs[r]
  <2>1. ASSUME NEW p \in Workers, AttemptStep(p)
        PROVE  runs'[r] = runs[r]
    <3>1. workers[p].step \in Attempting
      BY <2>1 DEF AttemptStep, Begin, CreateWorkflow, NoTargets, Close, TimesOut, Refused,
                  RunWorkflow, WorkflowRaises, AtItem, Doing, Attempting
    <3>2. runs[workers[p].run].status = StatusHeld(workers[p])
      BY <1>1, <3>1, Attempted
    <3>3. workers[p].run # r
      BY <1>1, <3>2 DEF StatusHeld, Finished
    <3>4. \A row : [runs EXCEPT ![workers[p].run] = row][r] = runs[r]
      BY <1>1, <3>3 DEF ControlInv, ControlTypes
    <3>5. CASE Begin(p)
      <4> DEFINE s == workers[p].run
      <4>1. runs' = [runs EXCEPT ![s].status = "RUNNING", ![s].retryAt = "none"] /\ s # r
        BY <3>3, <3>5 DEF Begin
      <4> HIDE DEF s
      <4> QED
        BY <1>1, <4>1 DEF ControlInv, ControlTypes
    <3>6. CASE NoTargets(p) \/ WorkflowRaises(p)
      BY <1>1, <3>3, <3>6 DEF NoTargets, WorkflowRaises, Raise, ControlInv, ControlTypes
    <3>7. CASE Close(p)
      BY <3>4, <3>7 DEF Close
    <3>8. CASE CreateWorkflow(p) \/ TimesOut(p) \/ Refused(p) \/ RunWorkflow(p)
      BY <3>8 DEF CreateWorkflow, TimesOut, Refused, RunWorkflow
    <3> QED
      BY <2>1, <3>5, <3>6, <3>7, <3>8 DEF AttemptStep
  <2> USE DEF ControlInv, ControlTypes
  <2>2. ASSUME NEW p, NEW t, CreateRun(p, t)
        PROVE  runs'[r] = runs[r]
    BY <1>1, <2>2 DEF CreateRun, Finished
  <2>3. CASE DispatcherStep
    BY <2>1, <2>2, <2>3 DEF DispatcherStep, Dispatch, RetryRun, ReadDue, ExecuteTask,
                            UpdateNextRun, Workers
  <2>4. ASSUME NEW s \in Runs, RetryFalls(s)
        PROVE  runs'[r] = runs[r]
    BY <1>1, <2>4 DEF RetryFalls, RunFits, Finished
  <2>5. CASE AttemptStep("api")
    BY <2>1, <2>5 DEF Workers
  <2> QED
    BY <1>1, <2>2, <2>3, <2>4, <2>5
       DEF TaskNext, taskVars, RunTask, TaskFalls, SetEnabled, OthersMove, Interrupt
<1>2. ControlInv /\ [TaskNext]_taskVars =>
        [\A r \in Runs : runs[r].status \in Finished => runs'[r] = runs[r]]_taskVars
  BY <1>1
<1> QED
  BY <1>2, InvariantsHold, PTL DEF TaskSpec, FinishedIsFinal

=============================================================================
