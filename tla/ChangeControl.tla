--------------------------- MODULE ChangeControl ---------------------------
(***************************************************************************)
(* What the orchestration promises the owners of the HR systems, without   *)
(* saying how: a change is applied only after it was granted, and a grant  *)
(* is used once.  A grant names the workflow, the attempt it belongs to    *)
(* and the change, so a retried workflow needs a new one.                  *)
(***************************************************************************)
EXTENDS Naturals

VARIABLES
  granted,  \* the grants that compliance or the approvers gave
  used,     \* those under which a change was applied
  writes    \* how many changes were applied

changeVars == <<granted, used, writes>>

ChangeInit == granted = {} /\ used = {} /\ writes = 0

\* Grants are given and never taken back.
Grant ==
  /\ granted \subseteq granted'
  /\ UNCHANGED <<used, writes>>

Apply ==
  /\ \E g \in granted \ used : used' = used \cup {g}
  /\ writes' = writes + 1
  /\ UNCHANGED granted

ChangeNext == Grant \/ Apply
ChangeSpec == ChangeInit /\ [][ChangeNext]_changeVars

=============================================================================
