--------------------------- MODULE ScheduledRuns ---------------------------
(***************************************************************************)
(* Schedule control and trigger admission over the same tables: admins     *)
(* create, edit, enable, pause, resume, disable and delete schedules while *)
(* servers admit deliveries to them and the driver completes the runs.     *)
(***************************************************************************)
EXTENDS ScheduleControl, TriggerInbox

vars == <<storeVars, ctl, srv, answers>>

Init == StoreInit /\ ControlInit /\ AdmissionInit

Next ==
    \/ \E a \in Admins : ControlStep(a) /\ UNCHANGED <<srv, answers>>
    \/ \E p \in Servers : AdmissionStep(p) /\ UNCHANGED ctl
    \/ /\ \/ Tick
          \/ \E r \in DOMAIN runs, to \in {"RUNNING", "WAITING", "SUCCEEDED", "FAILED"} :
                Drive(r, to)
       /\ UNCHANGED <<ctl, srv, answers>>

Spec == Init /\ [][Next]_vars

(* Type invariant of the tables and of the transactions in progress. *)
TypeOK == StoreTypeOK /\ ControlTypeOK /\ AdmissionTypeOK

-----------------------------------------------------------------------------
(* The versions of a schedule form one chain that ends in its current      *)
(* version, whatever edits race: no edit is lost from the history and no   *)
(* two versions both count as the latest (appendVersion).                  *)
LinearHistory ==
    /\ \A s \in Schedules : Exists(s) =>
          {v \in DOMAIN versions : versions[v].owner = s /\ versions[v].next = Null}
              = {schedule[s].version}
    /\ \A v, w \in DOMAIN versions :
          versions[v].next = w =>
              /\ v < w /\ versions[w].owner = versions[v].owner
              /\ \A u \in DOMAIN versions : versions[u].next = w => u = v

(* However often a message is delivered, across edits of the schedule and  *)
(* crashes, and to whichever schedule, there is at most one run for it and *)
(* every answer names that run, to callers of its own schedule only        *)
(* (recordTriggerDelivery).                                                *)
OneRunPerMessage ==
    /\ \A q, r \in DOMAIN runs : runs[q].message = runs[r].message => q = r
    /\ \A d \in Messages : \A answer \in answers[d] :
          /\ answers[d] = {answer}
          /\ answer[2] \in DOMAIN runs
          /\ runs[answer[2]].message = d /\ runs[answer[2]].owner = answer[1]

(* Two runs of a schedule are active together only if the younger one was  *)
(* admitted under a policy that allows it: deliveries with distinct        *)
(* identities never both start under SKIP_IF_RUNNING, and CANCEL_PREVIOUS  *)
(* leaves no older run active.                                             *)
OverlapOnlyByPolicy ==
    \A q, r \in DOMAIN runs :
        (/\ q < r /\ runs[q].owner = runs[r].owner
         /\ {runs[q].status, runs[r].status} \subseteq ActiveStatuses)
            => runs[r].policy \in {"QUEUE_AFTER_RUNNING", "ALLOW_PARALLEL"}

(* At the instant a run appears its schedule is ACTIVE and the run pins the *)
(* version, the policy and the shadow flag that are current, although the   *)
(* row was read several statements earlier; what it pinned stays pinned,    *)
(* and a run that has ended stays ended: neither an edit nor a              *)
(* CANCEL_PREVIOUS delivery touches it.                                     *)
RunsPinTheirVersion ==
    [][/\ \A r \in DOMAIN runs' \ DOMAIN runs :
             LET s == runs'[r].owner
                 v == runs'[r].version
             IN  /\ schedule[s].status = "ACTIVE" /\ schedule[s].version = v
                 /\ runs'[r].policy = versions[v].config.policy
                 /\ runs'[r].shadow = versions[v].config.shadow
       /\ \A r \in DOMAIN runs :
             /\ runs'[r].version = runs[r].version
             /\ versions'[runs[r].version].config = versions[runs[r].version].config
             /\ runs[r].status \notin ActiveStatuses => runs'[r] = runs[r]]_vars

-----------------------------------------------------------------------------
DeletedIsQuiet(s) == schedule[s].deleted => ~HasActiveRun(s)

StaysDeleted(s) ==
    schedule[s].deleted => schedule'[s].deleted /\ schedule'[s].status = "DISABLED"

(* Deletion is terminal whoever else acts: a deleted schedule has no live  *)
(* run, keeps its tombstone and is never ACTIVE again (deleteSchedule; the *)
(* comment on enableSchedule, schedules.ts).  Two admins break it.         *)
DeletedIsTerminal ==
    /\ [](\A s \in Schedules : DeletedIsQuiet(s))
    /\ [][\A s \in Schedules : StaysDeleted(s)]_vars

(* A schedule becomes ACTIVE only with a version a forecast was accepted   *)
(* for (enableSchedule, resumeSchedule).                                   *)
ActivatedVersionIsForecast ==
    [][\A s \in Schedules :
          (schedule'[s].status = "ACTIVE" /\ schedule[s].status # "ACTIVE") =>
              \E f \in forecasts' : f.owner = s /\ f.version = schedule'[s].version]_vars
=============================================================================
