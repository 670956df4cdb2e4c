-------------------------- MODULE ScheduleControl --------------------------
(***************************************************************************)
(* The schedule control actions of                                         *)
(* packages/workflow-runtime/src/schedules.ts.  Each action is a           *)
(* transaction that first loads the schedule row with a plain SELECT,      *)
(* decides on the copy, and then writes with UPDATEs that compare nothing  *)
(* but the schedule id: Load is the read, the other actions are what       *)
(* follows it.  RESUME and DELETE read once more before they write.  A     *)
(* refusal writes nothing, so it is a guard here.  The writes wait for a   *)
(* delivery that holds the row FOR UPDATE.                                 *)
(***************************************************************************)
EXTENDS ScheduleStore

CONSTANT Admins   \* processes that execute control actions

VARIABLE ctl      \* the control action each admin executes, with its copy of the row

Actions == {"EDIT_DRAFT", "ENABLE", "PAUSE", "RESUME", "DUPLICATE", "DISABLE", "DELETE"}

NoAction == [action |-> "NONE", target |-> None, row |-> NoSchedule, at |-> 0]

Calls == [action : Actions \union {"NONE", "ACTIVATE", "TOMBSTONE"},
          target : Schedules \union {None},
          row : ScheduleRows, at : Int]

ControlTypeOK == ctl \in [Admins -> Calls]
ControlInit   == ctl = [a \in Admins |-> NoAction]

Done(a) == ctl' = [ctl EXCEPT ![a] = NoAction]

(* The write of admin a to its schedule can go ahead. *)
MayWrite(a, action) ==
    /\ ctl[a].action = action
    /\ rowLock[ctl[a].target] = None

-----------------------------------------------------------------------------
(* assertForecastFresh, and the same law on resume: computedAt at the instant t *)
Fresh(computedAt, t) == computedAt <= t + FutureSkew /\ t - computedAt <= Window

(* What each action requires of the row it loaded. *)
Permits(action, row) ==
    CASE action = "EDIT_DRAFT" -> row.status # "DISABLED"
      [] action = "ENABLE"     -> row.status # "ACTIVE" /\ ~row.deleted
      [] action = "PAUSE"      -> row.status = "ACTIVE"
      [] action = "RESUME"     -> row.status = "PAUSED"
      [] action = "DUPLICATE"  -> TRUE
      [] action = "DISABLE"    -> row.status # "DISABLED"
      [] action = "DELETE"     -> row.status # "ACTIVE"

(* loadSchedule; at is the computedAt of the forecast ENABLE is given, and  *)
(* the `now` of the call for every other action.                            *)
Load(a, action, s, at) ==
    /\ ctl[a] = NoAction
    /\ Exists(s) /\ Permits(action, schedule[s])
    /\ IF action = "ENABLE" THEN Fresh(at, now) ELSE at = now
    /\ ctl' = [ctl EXCEPT ![a] = [action |-> action, target |-> s,
                                  row |-> schedule[s], at |-> at]]
    /\ UNCHANGED storeVars

-----------------------------------------------------------------------------
NewVersion == Len(versions) + 1

(* The insert and the pointer of appendVersion; the pointer moves without  *)
(* a look at the status, and the name of the configuration overwrites the  *)
(* tombstone.                                                              *)
PointTo(s, status) ==
    schedule' = [schedule EXCEPT ![s] =
                    [status |-> status, deleted |-> FALSE, version |-> NewVersion]]

VersionRow(s, c) == [owner |-> s, config |-> c, next |-> Null]

CreateSchedule(a, s, c) ==
    /\ ctl[a] = NoAction
    /\ ~Exists(s) /\ NewVersion <= MaxVersions
    /\ versions' = Append(versions, VersionRow(s, c))
    /\ PointTo(s, "DRAFT")
    /\ UNCHANGED <<now, forecasts, inbox, runs, rowLock, ctl>>

(* Mutant: the supersede UPDATE loses its `superseded_by IS NULL`. *)
SupersedesAny(v) == TRUE

(* The guard of the supersede UPDATE: the version read is still the last one. *)
Supersedes(v) == versions[v].next = Null

EditDraft(a, c) ==
    /\ MayWrite(a, "EDIT_DRAFT")
    /\ LET s == ctl[a].target
           v == ctl[a].row.version
       IN  IF Supersedes(v)
           THEN /\ NewVersion <= MaxVersions
                /\ versions' = Append([versions EXCEPT ![v].next = NewVersion],
                                      VersionRow(s, c))
                /\ PointTo(s, schedule[s].status)
           ELSE UNCHANGED <<versions, schedule>>
    /\ Done(a)
    /\ UNCHANGED <<now, forecasts, inbox, runs, rowLock>>

DuplicateSchedule(a, s) ==
    /\ ctl[a].action = "DUPLICATE"
    /\ ~Exists(s) /\ NewVersion <= MaxVersions
    /\ versions' = Append(versions, VersionRow(s, versions[ctl[a].row.version].config))
    /\ PointTo(s, "DRAFT")
    /\ Done(a)
    /\ UNCHANGED <<now, forecasts, inbox, runs, rowLock>>

-----------------------------------------------------------------------------
SetStatus(a, status) ==
    /\ schedule' = [schedule EXCEPT ![ctl[a].target].status = status]
    /\ Done(a)
    /\ UNCHANGED <<now, versions, inbox, runs, rowLock>>

(* ENABLE records the forecast for the version it read, whatever the current one is. *)
EnableSchedule(a) ==
    /\ MayWrite(a, "ENABLE")
    /\ forecasts' = forecasts \union
           {[owner |-> ctl[a].target, version |-> ctl[a].row.version, computedAt |-> ctl[a].at]}
    /\ SetStatus(a, "ACTIVE")

(* transitionStatus *)
PauseSchedule(a)   == MayWrite(a, "PAUSE") /\ SetStatus(a, "PAUSED") /\ UNCHANGED forecasts
DisableSchedule(a) == MayWrite(a, "DISABLE") /\ SetStatus(a, "DISABLED") /\ UNCHANGED forecasts

(* The forecasts the latest-forecast query may return: ties are undecided. *)
LatestForecasts(s) ==
    LET mine == {f \in forecasts : f.owner = s}
    IN  {f \in mine : \A g \in mine : g.computedAt <= f.computedAt}

(* RESUME accepts a persisted forecast of the version it read. *)
Covers(f, call) == f.version = call.row.version /\ Fresh(f.computedAt, call.at)

ResumeCheck(a) ==
    /\ ctl[a].action = "RESUME"
    /\ \/ /\ \E f \in LatestForecasts(ctl[a].target) : Covers(f, ctl[a])
          /\ ctl' = [ctl EXCEPT ![a].action = "ACTIVATE"]
       \/ /\ \A f \in LatestForecasts(ctl[a].target) : ~Covers(f, ctl[a])
          /\ Done(a)
    /\ UNCHANGED storeVars

ResumeSchedule(a) == MayWrite(a, "ACTIVATE") /\ SetStatus(a, "ACTIVE") /\ UNCHANGED forecasts

(* DELETE probes for live runs, then disables the schedule and writes the  *)
(* tombstone into its name.                                                *)
DeleteProbe(a) ==
    /\ ctl[a].action = "DELETE"
    /\ IF HasActiveRun(ctl[a].target)
       THEN Done(a)
       ELSE ctl' = [ctl EXCEPT ![a].action = "TOMBSTONE"]
    /\ UNCHANGED storeVars

DeleteSchedule(a) ==
    /\ MayWrite(a, "TOMBSTONE")
    /\ schedule' = [schedule EXCEPT ![ctl[a].target].status = "DISABLED",
                                    ![ctl[a].target].deleted = TRUE]
    /\ Done(a)
    /\ UNCHANGED <<now, versions, forecasts, inbox, runs, rowLock>>

(* The process dies or the connection drops: the transaction rolls back. *)
AdminCrash(a) ==
    /\ ctl[a] # NoAction
    /\ Done(a)
    /\ UNCHANGED storeVars

ControlStep(a) ==
    \/ \E s \in Schedules, c \in Configs : CreateSchedule(a, s, c)
    \/ \E action \in Actions, s \in Schedules, at \in 0..MaxTime : Load(a, action, s, at)
    \/ \E c \in Configs : EditDraft(a, c)
    \/ \E s \in Schedules : DuplicateSchedule(a, s)
    \/ EnableSchedule(a) \/ PauseSchedule(a) \/ DisableSchedule(a)
    \/ ResumeCheck(a) \/ ResumeSchedule(a)
    \/ DeleteProbe(a) \/ DeleteSchedule(a)
    \/ AdminCrash(a)
=============================================================================
