--------------------------- MODULE MCOrchestrator ---------------------------
(* The orchestrator on one workflow and few requests, for TLC. *)
EXTENDS Orchestrator

CONSTANTS
  MaxCrashes,   \* how often the process ends
  MaxEdits,     \* how often somebody else changes a record
  MaxAges,      \* how often data passes the freshness limit
  one, two      \* values

VARIABLES edits, ages

mcVars == <<vars, edits, ages>>

\* A correction of a field that payroll, or the provider named, lets change.
Correction ==
  [ employee |-> TRUE, system |-> Nil, record |-> Nil, field |-> "listed",
    observed |-> Nil, expected |-> two, action |-> Nil, conflict |-> FALSE,
    violation |-> FALSE, high |-> FALSE, override |-> Nil ]

MCRequests ==
  { Correction,
    [Correction EXCEPT !.high = TRUE],
    [Correction EXCEPT !.high = TRUE, !.observed = one, !.system = "HRIS"],
    [Correction EXCEPT !.observed = one],
    [Correction EXCEPT !.observed = one, !.system = "BENEFITS"],
    [Correction EXCEPT !.system = "LMS", !.record = "latest", !.observed = one, !.high = TRUE],
    [Correction EXCEPT !.system = "ATTENDANCE", !.record = "older", !.action = "CORRECT_RECORD"],
    [Correction EXCEPT !.field = "unlisted", !.high = TRUE],
    [Correction EXCEPT !.field = Nil, !.observed = one],
    [Correction EXCEPT !.system = "unknown"],
    [Correction EXCEPT !.conflict = TRUE, !.high = TRUE],
    [Correction EXCEPT !.violation = TRUE, !.action = "NO_ACTION"],
    [Correction EXCEPT !.override = "invalid"],
    [Correction EXCEPT !.override = "REQUIRE_APPROVAL", !.action = "CORRECT_RECORD"],
    [Correction EXCEPT !.employee = FALSE, !.observed = one] }

\* Data ages when a run is about to read it, in behaviours without an edit or
\* a crash: before, nobody looks.
MCAges ==
  /\ edits = 0 /\ crashes = 0 /\ ages < MaxAges /\ ages' = ages + 1
  /\ \E w \in Workflows : At(w, "context") /\ \E s \in {"HRIS", Domain(w)} \cap Systems : Ages(s)
  /\ UNCHANGED <<crashes, edits>>

MCInit == Init /\ edits = 0 /\ ages = 0

MCNext ==
  \/ /\ \E w \in Workflows : StartRun(w) \/ RunStep(w) \/ UserStep(w)
     /\ UNCHANGED <<crashes, edits, ages>>
  \/ /\ \E s \in Systems : Edit(s)
     /\ ages = 0 /\ edits < MaxEdits /\ edits' = edits + 1
     /\ UNCHANGED <<crashes, ages>>
  \/ MCAges
  \/ /\ Crash
     /\ ages = 0 /\ crashes < MaxCrashes
     /\ UNCHANGED <<edits, ages>>

MCFairness == \A w \in Workflows : WF_mcVars(RunStep(w) /\ UNCHANGED <<crashes, edits, ages>>)

MCSpec == MCInit /\ [][MCNext]_mcVars /\ MCFairness
=============================================================================
