---------------------------- MODULE TriggerInbox ----------------------------
(***************************************************************************)
(* Trigger admission: recordTriggerDelivery of                             *)
(* packages/workflow-runtime/src/trigger-inbox.ts.  A delivery is one      *)
(* transaction that holds the schedule row FOR UPDATE from its first       *)
(* statement to its end; the steps here are its statements, and its writes *)
(* become visible in Commit.  A delivery of any message may arrive at any  *)
(* time, any number of times, addressed to any schedule.                   *)
(***************************************************************************)
EXTENDS ScheduleStore

VARIABLES
    srv,      \* the delivery each server is admitting
    answers   \* history: the 202 answers to each message: schedule addressed, run named

NoDelivery == [step |-> "idle", target |-> None, message |-> None,
               row |-> NoSchedule, active |-> FALSE]

Deliveries == [step : {"idle", "checked", "locked", "inserted", "probed"},
               target : Schedules \union {None},
               message : Messages \union {None},
               row : ScheduleRows, active : BOOLEAN]

AdmissionTypeOK ==
    /\ srv \in [Servers -> Deliveries]
    /\ answers \in [Messages -> SUBSET (Schedules \X Nat)]

AdmissionInit ==
    /\ srv = [p \in Servers |-> NoDelivery]
    /\ answers = [d \in Messages |-> {}]

tableVars == <<now, schedule, versions, forecasts, inbox, runs>>

(* RUN_NOW: an unlocked look at the status, then the ordinary pipeline. *)
RunNow(p, d, s) ==
    /\ srv[p] = NoDelivery
    /\ schedule[s].status = "ACTIVE"
    /\ srv' = [srv EXCEPT ![p] = [NoDelivery EXCEPT !.step = "checked",
                                                    !.target = s, !.message = d]]
    /\ UNCHANGED <<storeVars, answers>>

(* Mutant: the SELECT loses its FOR UPDATE. *)
LockNothing(p, d, s) ==
    /\ \/ srv[p] = NoDelivery
       \/ srv[p].step = "checked" /\ srv[p].target = s /\ srv[p].message = d
    /\ Exists(s)
    /\ srv' = [srv EXCEPT ![p] = [step |-> "locked", target |-> s, message |-> d,
                                  row |-> schedule[s], active |-> FALSE]]
    /\ UNCHANGED <<tableVars, rowLock, answers>>

(* SELECT ... FOR UPDATE, for a delivery that arrives or a RUN_NOW under way *)
LockSchedule(p, d, s) ==
    /\ \/ srv[p] = NoDelivery
       \/ srv[p].step = "checked" /\ srv[p].target = s /\ srv[p].message = d
    /\ Exists(s) /\ rowLock[s] = None
    /\ rowLock' = [rowLock EXCEPT ![s] = p]
    /\ srv' = [srv EXCEPT ![p] = [step |-> "locked", target |-> s, message |-> d,
                                  row |-> schedule[s], active |-> FALSE]]
    /\ UNCHANGED <<tableVars, answers>>

(* The end of the transaction, committed or rolled back. *)
Unlock(p) ==
    /\ srv' = [srv EXCEPT ![p] = NoDelivery]
    /\ rowLock' = [s \in Schedules |-> IF rowLock[s] = p THEN None ELSE rowLock[s]]

(* Another transaction has inserted the identity and is not finished: the   *)
(* ON CONFLICT insert waits for it.                                         *)
InFlight(d) == \E q \in Servers : srv[q].message = d /\ srv[q].step \in {"inserted", "probed"}

(* The conflicting insert: a message of another schedule is refused, and a  *)
(* processed one is collapsed onto its run, whatever the schedule's status  *)
(* has become.                                                              *)
Redelivered(p) ==
    LET d == srv[p].message
    IN  /\ srv[p].step = "locked" /\ inbox[d].status # "ABSENT"
        /\ IF inbox[d].owner = srv[p].target
           THEN /\ inbox' = [inbox EXCEPT ![d].status = "DUPLICATE_COLLAPSED"]
                /\ answers' = [answers EXCEPT ![d] = @ \union {<<srv[p].target, inbox[d].run>>}]
           ELSE UNCHANGED <<inbox, answers>>
        /\ Unlock(p)
        /\ UNCHANGED <<now, schedule, versions, forecasts, runs>>

(* Mutant: the insert has no ON CONFLICT and no unique identity to conflict with. *)
InsertAgain(p) ==
    /\ srv[p].step = "locked"
    /\ IF srv[p].row.status = "ACTIVE"
       THEN srv' = [srv EXCEPT ![p].step = "inserted"] /\ UNCHANGED rowLock
       ELSE Unlock(p)
    /\ UNCHANGED <<tableVars, answers>>

(* The first insert goes on to the active-run probe; a schedule that is not *)
(* ACTIVE refuses it, and the refusal rolls the insert back.                *)
InsertInbox(p) ==
    /\ srv[p].step = "locked"
    /\ inbox[srv[p].message].status = "ABSENT" /\ ~InFlight(srv[p].message)
    /\ IF srv[p].row.status = "ACTIVE"
       THEN srv' = [srv EXCEPT ![p].step = "inserted"] /\ UNCHANGED rowLock
       ELSE Unlock(p)
    /\ UNCHANGED <<tableVars, answers>>

ProbeActive(p) ==
    /\ srv[p].step = "inserted"
    /\ srv' = [srv EXCEPT ![p].step = "probed",
                          ![p].active = HasActiveRun(srv[p].target)]
    /\ UNCHANGED <<storeVars, answers>>

(* resolveConcurrencyPolicy: a resolved configuration always carries one. *)
PolicyOf(v) == versions[v].config.policy

(* Mutant: the cancelling UPDATE writes a status the table does not know. *)
CancelMisspelt(s) ==
    [r \in DOMAIN runs |->
        IF runs[r].owner = s /\ runs[r].status \in ActiveStatuses
        THEN [runs[r] EXCEPT !.status = "CANCELED"]
        ELSE runs[r]]

(* Mutant: the cancelling UPDATE loses its status predicate. *)
CancelEvery(s) ==
    [r \in DOMAIN runs |->
        IF runs[r].owner = s THEN [runs[r] EXCEPT !.status = "CANCELLED"] ELSE runs[r]]

(* CANCEL_PREVIOUS: every active run of the schedule. *)
CancelActive(s) ==
    [r \in DOMAIN runs |->
        IF runs[r].owner = s /\ runs[r].status \in ActiveStatuses
        THEN [runs[r] EXCEPT !.status = "CANCELLED"]
        ELSE runs[r]]

(* The policy decision, the run that pins the version, and the inbox row.   *)
(* A skipped run is recorded too, CANCELLED from birth.                     *)
CommitRun(p) ==
    LET s      == srv[p].target
        d      == srv[p].message
        v      == srv[p].row.version
        policy == PolicyOf(v)
        skip   == srv[p].active /\ policy = "SKIP_IF_RUNNING"
        cancel == srv[p].active /\ policy = "CANCEL_PREVIOUS"
        run    == [owner |-> s, version |-> v, message |-> d, policy |-> policy,
                   shadow |-> versions[v].config.shadow,
                   status |-> IF skip THEN "CANCELLED" ELSE "PENDING"]
    IN  /\ srv[p].step = "probed"
        /\ runs' = Append(IF cancel THEN CancelActive(s) ELSE runs, run)
        /\ inbox' = [inbox EXCEPT ![d] = [owner |-> s, status |-> "PROCESSED",
                                          run |-> Len(runs) + 1]]
        /\ answers' = [answers EXCEPT ![d] = @ \union {<<s, Len(runs) + 1>>}]
        /\ Unlock(p)
        /\ UNCHANGED <<now, schedule, versions, forecasts>>

(* The process dies or the connection drops: everything rolls back, and the *)
(* scheduler will deliver again.                                            *)
ServerCrash(p) ==
    /\ srv[p] # NoDelivery
    /\ Unlock(p)
    /\ UNCHANGED <<tableVars, answers>>

AdmissionStep(p) ==
    \/ \E d \in Messages, s \in Schedules : RunNow(p, d, s)
    \/ \E d \in Messages, s \in Schedules : LockSchedule(p, d, s)
    \/ Redelivered(p) \/ InsertInbox(p) \/ ProbeActive(p) \/ CommitRun(p)
    \/ ServerCrash(p)
=============================================================================
