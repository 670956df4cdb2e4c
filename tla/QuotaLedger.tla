---------------------------- MODULE QuotaLedger ----------------------------
(* The quota side of a tool call: the admission context the adapter keeps in *)
(* memory, the general balance and the protected reserve, and one            *)
(* reservation per run.  Each database transaction is one operator; the tool *)
(* core decides when it runs.  One metered operation of one provider; a call *)
(* is estimated at one unit.                                                 *)
EXTENDS Integers, FiniteSets

CONSTANTS
    Runs,         \* logical tool calls, by run id
    Protected,    \* runs whose workload may draw on the protected reserve
    Limit,        \* units of each bucket in the current period
    ActualUnits   \* what a provider may report as consumed

ASSUME LedgerAssumption == /\ Protected \subseteq Runs
                           /\ Limit \in [{"general", "reserve"} -> Nat]
                           /\ ActualUnits \subseteq Nat

VARIABLES
    admission,    \* contexts entry of the operation, shared by every run of the process
    balance,      \* consumed_reserved and consumed_committed per bucket
    reservation   \* core_quota_reservations with its usage counter, per run

ledgerVars == <<admission, balance, reservation>>

Buckets == DOMAIN Limit
NoReservation == [state |-> "NONE", bucket |-> "none", units |-> 0]

remaining(b) == Limit[b] - balance[b].reserved - balance[b].committed

LedgerInit ==
    /\ admission = [window |-> FALSE, bucket |-> "general"]
    /\ balance = [b \in Buckets |-> [reserved |-> 0, committed |-> 0]]
    /\ reservation = [r \in Runs |-> NoReservation]

(* estimate overwrites the context of the operation: no period chosen yet. *)
estimateContext ==
    /\ admission' = [window |-> FALSE, bucket |-> "general"]
    /\ UNCHANGED <<balance, reservation>>

(* admit: the general pool, else the protected reserve of an eligible        *)
(* workload, else a refusal; it reads the balances and reserves nothing.     *)
AdmittedBuckets(r) ==
    IF remaining("general") >= 1 THEN {"general"}
    ELSE IF r \in Protected /\ remaining("reserve") >= 1 THEN {"reserve"} ELSE {}

admitContext(b) ==
    /\ admission' = [window |-> TRUE, bucket |-> b]
    /\ UNCHANGED <<balance, reservation>>

(* reserve: a reservation of the run is returned as it is, in whatever state *)
(* it is; otherwise the bucket the context names NOW is debited, if it names *)
(* one and the balance still allows it, and a row is inserted.               *)
MayReserve(r) ==
    \/ reservation[r] # NoReservation
    \/ ~admission.window
    \/ remaining(admission.bucket) >= 1

reserveTx(r) ==
    /\ MayReserve(r)
    /\ UNCHANGED admission
    /\ \/ reservation[r] # NoReservation /\ UNCHANGED <<balance, reservation>>
       \/ /\ reservation[r] = NoReservation
          /\ reservation' = [reservation EXCEPT ![r] = [state |-> "RESERVED", units |-> 1,
                 bucket |-> IF admission.window THEN admission.bucket ELSE "none"]]
          /\ balance' = IF admission.window
                        THEN [balance EXCEPT ![admission.bucket].reserved = @ + 1]
                        ELSE balance

(* commit: what was reserved goes back and the actual units are booked, if   *)
(* they fit; release: what was reserved goes back.  Both refuse any          *)
(* reservation that is not RESERVED.                                         *)
FitsBalance(r, actual) ==
    reservation[r].bucket # "none" => remaining(reservation[r].bucket) + 1 >= actual

MayCommit(r, actual) == reservation[r].state = "RESERVED" /\ FitsBalance(r, actual)

commitTx(r, actual) ==
    /\ MayCommit(r, actual)
    /\ reservation' = [reservation EXCEPT ![r].state = "COMMITTED", ![r].units = actual]
    /\ balance' = IF reservation[r].bucket = "none" THEN balance
                  ELSE [balance EXCEPT ![reservation[r].bucket] =
                           [reserved |-> @.reserved - 1, committed |-> @.committed + actual]]
    /\ UNCHANGED admission

(* Mutant: a release closes the reservation and keeps the units reserved. *)
releaseKeepsUnits(r) ==
    /\ reservation[r].state = "RESERVED"
    /\ reservation' = [reservation EXCEPT ![r].state = "RELEASED", ![r].units = 0]
    /\ UNCHANGED <<admission, balance>>

releaseTx(r) ==
    /\ reservation[r].state = "RESERVED"
    /\ reservation' = [reservation EXCEPT ![r].state = "RELEASED", ![r].units = 0]
    /\ balance' = IF reservation[r].bucket = "none" THEN balance
                  ELSE [balance EXCEPT ![reservation[r].bucket].reserved = @ - 1]
    /\ UNCHANGED admission

=============================================================================
