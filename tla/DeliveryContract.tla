-------------------------- MODULE DeliveryContract --------------------------
(***************************************************************************)
(* What the notification outbox promises for each notification (module     *)
(* comment of packages/workflow-runtime/src/outbox.ts and PRD 26.5): a     *)
(* committed notification is open until it is confirmed or given up;       *)
(* confirmation follows delivery; a withheld notification (shadow run or   *)
(* provider outage) is never delivered.  A notification that was given up  *)
(* may still arrive late, from a worker that had passed its checks.        *)
(***************************************************************************)
CONSTANT Rows

VARIABLES phase, delivered

contractVars == <<phase, delivered>>

Phases == {"none", "open", "sent", "failed", "withheld"}

ContractInit == phase = [r \in Rows |-> "none"] /\ delivered = {}

Enqueue(r) ==
    /\ phase[r] = "none"
    /\ \E p \in {"open", "withheld"} : phase' = [phase EXCEPT ![r] = p]
    /\ UNCHANGED delivered

Deliver(r) ==
    /\ phase[r] \in {"open", "failed"}
    /\ delivered' = delivered \union {r}
    /\ UNCHANGED phase

Confirm(r) ==
    /\ phase[r] = "open" /\ r \in delivered
    /\ phase' = [phase EXCEPT ![r] = "sent"]
    /\ UNCHANGED delivered

GiveUp(r) ==
    /\ phase[r] = "open"
    /\ phase' = [phase EXCEPT ![r] = "failed"]
    /\ UNCHANGED delivered

ContractNext == \E r \in Rows : Enqueue(r) \/ Deliver(r) \/ Confirm(r) \/ GiveUp(r)

ContractSpec == ContractInit /\ [][ContractNext]_contractVars

(* Every open notification is eventually settled. *)
ContractFairSpec ==
    ContractSpec /\ \A r \in Rows : WF_contractVars(Confirm(r) \/ GiveUp(r))

=============================================================================
