------------------------- MODULE WorkflowLifecycle -------------------------
(***************************************************************************)
(* What the workflow service promises the rest of the system about a       *)
(* workflow, without saying how: it moves along the edges of               *)
(* VALID_TRANSITIONS, every move is appended to a ledger that is never     *)
(* rewritten, a held workflow does not move unless the same call releases  *)
(* it (cancelling and scheduling a retry excepted), and a terminal state   *)
(* is the end.  One abstract step is one call of the service, which may    *)
(* move the workflow along several edges.                                  *)
(***************************************************************************)
EXTENDS WorkflowStateMachine

CONSTANT Workflows

VARIABLES
  phase,   \* phase[w]: where workflow w stands
  held,    \* held[w]: is w paused?
  ledger   \* ledger[w]: the moves of w, oldest first

lifecycleVars == <<phase, held, ledger>>

LifecycleInit ==
  /\ phase  = [w \in Workflows |-> "RECEIVED"]
  /\ held   = [w \in Workflows |-> FALSE]
  /\ ledger = [w \in Workflows |-> << >>]

\* The moves a call may make while it leaves the workflow held.
MovesWhileHeld == {"CANCELLED", "RETRY_SCHEDULED"}

\* Workflow w moves along one or more edges and the ledger says so.
Advance(w) ==
  /\ ~ IsTerminal(phase[w])
  /\ Extends(ledger'[w], ledger[w])
  /\ LeadsTo(ledger'[w], phase'[w])
  /\ held[w] /\ held'[w] => phase'[w] \in MovesWhileHeld

\* A pause or a resume alone moves nothing.
Hold(w) == UNCHANGED <<phase[w], ledger[w]>>

LifecycleNext ==
  /\ DOMAIN phase' = Workflows /\ DOMAIN held' = Workflows
  /\ DOMAIN ledger' = Workflows
  /\ \A w \in Workflows : Hold(w) \/ Advance(w)

LifecycleSpec == LifecycleInit /\ [][LifecycleNext]_lifecycleVars

=============================================================================
