----------------------------- MODULE HRAdapters -----------------------------
(***************************************************************************)
(* The HR systems behind backend/app/adapters and what their adapters do   *)
(* with the records of one employee: which record a read shows, which one  *)
(* a write goes to, what a dry run refuses, and how old data passes the    *)
(* freshness gate.  The module has no variables; the orchestrator keeps    *)
(* the records.                                                            *)
(*                                                                         *)
(* Four systems are tables of the database.  The benefits and learning     *)
(* providers keep their records in the memory of the process, and fill     *)
(* them in when they are first read.  The fields of a record are taken as  *)
(* one value.                                                              *)
(***************************************************************************)
CONSTANTS
  Values,   \* what a field of a record may hold
  Default,  \* what the in-memory providers fill in
  Nil,      \* None
  Unread    \* an in-memory provider has not yet been asked for the employee

ASSUME ValuesAssumption == Default \in Values /\ Nil \notin Values /\ Unread \notin Values
ASSUME UnreadAssumption == Unread # Nil

Systems  == {"HRIS", "PAYROLL", "ATTENDANCE", "LEAVE", "BENEFITS", "LMS"}
InMemory == {"BENEFITS", "LMS"}

\* The newest record of the employee, and one before it.
Records == {"latest", "older"}

\* data[s][r]: the value of record r in system s, Nil where there is none.
Data == [Systems -> [Records -> Values \cup {Nil, Unread}]]

IntentCategory ==
  {"PAYROLL_ANOMALY", "ATTENDANCE_ANOMALY", "LEAVE_ANOMALY", "BENEFITS_ANOMALY",
   "LMS_ANOMALY", "DATA_CORRECTION", "POLICY_QUERY", "GENERAL_HR_REQUEST",
   "UNKNOWN"}

\* INTENT_SYSTEM, with the default of system_for.
IntentSystem(intent) ==
  CASE intent = "PAYROLL_ANOMALY"    -> "PAYROLL"
    [] intent = "ATTENDANCE_ANOMALY" -> "ATTENDANCE"
    [] intent = "LEAVE_ANOMALY"      -> "LEAVE"
    [] intent = "BENEFITS_ANOMALY"   -> "BENEFITS"
    [] intent = "LMS_ANOMALY"        -> "LMS"
    [] OTHER                         -> "HRIS"

\* system_for: the request may name the system itself.
SystemFor(intent, requested) ==
  IF requested # Nil THEN requested ELSE IntentSystem(intent)

\* FreshnessGate.evaluate
Evaluate(success, aged) == success /\ ~ aged

\* FreshnessGate.ensure with the refresher of fetch_context, which wraps the
\* value that was read in a new AdapterResult and so dates it now.
EnsureFresh(success, aged) == Evaluate(success, aged) \/ Evaluate(success, FALSE)

-----------------------------------------------------------------------------
(***************************************************************************)
(* read, dry_run and write.                                                *)
(***************************************************************************)

\* Reading an in-memory provider fills it in.
AfterRead(data, s) ==
  IF s \in InMemory /\ data[s]["latest"] = Unread
  THEN [data EXCEPT ![s]["latest"] = Default] ELSE data

\* The value the investigation finds in what was read.  Leave and learning
\* data are lists under another key than "latest", so no field is found.
Shown(data, s) ==
  IF s \in {"LEAVE", "LMS"} THEN Nil ELSE AfterRead(data, s)[s]["latest"]

\* The record a write goes to.  HRIS and benefits have one; only payroll
\* falls back on the latest.
TargetRecord(s, wanted) ==
  IF s \in {"HRIS", "BENEFITS"} \/ (s = "PAYROLL" /\ wanted = Nil)
  THEN "latest" ELSE wanted

\* dry_run of benefits reads, once the field is allowed; that of learning does
\* not: it creates an empty list of courses instead.
AfterDryRun(data, s, field) ==
  IF s = "LMS" /\ data[s]["latest"] = Unread
  THEN [data EXCEPT ![s]["latest"] = Nil]
  ELSE IF field = "unlisted" THEN data ELSE AfterRead(data, s)

\* A dry run finds the record, and its allow list has the field.
DryRunAccepts(data, s, wanted, field) ==
  LET r == TargetRecord(s, wanted)
  IN  /\ r \in Records /\ AfterDryRun(data, s, field)[s][r] # Nil
      /\ field # "unlisted"

\* Without a field there is nothing to update, and the write succeeds.
AfterWrite(data, s, wanted, field, value) ==
  LET ready == AfterDryRun(data, s, field)
  IN  IF field = Nil THEN ready
      ELSE [ready EXCEPT ![s][TargetRecord(s, wanted)] = value]

\* The restart of the process loses what the providers held in memory.
AfterRestart(data) ==
  [s \in Systems |-> IF s \in InMemory
                     THEN [data[s] EXCEPT !["latest"] = Unread] ELSE data[s]]

=============================================================================
