------------------------ MODULE MCWorkflowSessions ------------------------
(* The workflow sessions with a bound on the calls, for TLC. *)
EXTENDS WorkflowSessions

CONSTANT MaxCalls  \* how many calls are opened

VARIABLE calls     \* how many were

mcVars == <<vars, calls>>

MCInit == Init /\ calls = 0

MCNext ==
  \/ OpenCall /\ calls < MaxCalls /\ calls' = calls + 1
  \/ (\E c \in Callers : Step(c)) /\ UNCHANGED calls

MCFairness == \A c \in Callers : WF_mcVars(Step(c) /\ UNCHANGED calls)

MCSpec == MCInit /\ [][MCNext]_mcVars

MCSerialSpec == MCInit /\ [][MCNext /\ OneAtATime']_mcVars /\ MCFairness
MCCrashSpec == MCInit /\ [][MCNext \/ ((\E c \in Callers : Abandon(c)) /\ UNCHANGED calls)]_mcVars /\ MCFairness
===========================================================================
