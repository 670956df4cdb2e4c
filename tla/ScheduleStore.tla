--------------------------- MODULE ScheduleStore ---------------------------
(***************************************************************************)
(* The tables that schedule control and trigger admission share:           *)
(* wf.schedules, wf.schedule_versions, wf.schedule_forecasts,              *)
(* wf.trigger_inbox and wf.runs (migrations/g2_wf_0001_schedules_runs.sql, *)
(* g2_wf_0003_schedule_forecasts.sql).                                     *)
(*                                                                         *)
(* Every transaction has a connection of its own at READ COMMITTED, the    *)
(* default of the BEGIN in persistence/src/db.ts: a plain SELECT locks     *)
(* nothing and sees what is committed when it runs, and the writes of a    *)
(* transaction appear together when it commits.  A version is named by its *)
(* place in versions and a run by its place in runs, so both names tell    *)
(* the order of insertion; 0 is NULL.                                      *)
(***************************************************************************)
EXTENDS Integers, Sequences

CONSTANTS
    Schedules,    \* schedule ids
    Configs,      \* resolved configurations: what of them the runtime acts on
    Messages,     \* delivery identities: (source, canonical external message id)
    Servers,      \* processes that admit deliveries
    None,         \* no process
    MaxTime,      \* bound on the clock
    Window,       \* FORECAST_FRESHNESS_WINDOW_MS
    FutureSkew,   \* FORECAST_CLOCK_SKEW_MS
    MaxVersions   \* bound on the versions of all schedules

ConcurrencyPolicies ==
    {"SKIP_IF_RUNNING", "QUEUE_AFTER_RUNNING", "CANCEL_PREVIOUS", "ALLOW_PARALLEL"}

ASSUME StoreAssumption ==
    /\ Configs \subseteq [policy : ConcurrencyPolicies, shadow : BOOLEAN]
    /\ MaxTime \in Nat /\ Window \in Nat /\ FutureSkew \in Nat /\ MaxVersions \in Nat
    /\ None \notin Servers

VARIABLES
    now,        \* the clock the handlers read
    schedule,   \* wf.schedules: status, tombstone in the name, current_version_id
    versions,   \* wf.schedule_versions: owner, configuration, superseded_by
    forecasts,  \* wf.schedule_forecasts
    inbox,      \* wf.trigger_inbox, by delivery identity
    runs,       \* wf.runs
    rowLock     \* the server that holds a schedule row FOR UPDATE

storeVars == <<now, schedule, versions, forecasts, inbox, runs, rowLock>>

Null == 0

ScheduleRows == [status  : {"ABSENT", "DRAFT", "ACTIVE", "PAUSED", "DISABLED"},
                 deleted : BOOLEAN,
                 version : Nat]
VersionRows  == [owner : Schedules, config : Configs, next : Nat]
ForecastRows == [owner : Schedules, version : Nat, computedAt : Int]
InboxRows    == [owner  : Schedules \union {None},
                 status : {"ABSENT", "PROCESSED", "DUPLICATE_COLLAPSED"},
                 run    : Nat]
RunRows      == [owner : Schedules, version : Nat, message : Messages,
                 policy : ConcurrencyPolicies, shadow : BOOLEAN,
                 status : {"PENDING", "RUNNING", "WAITING", "SUCCEEDED",
                           "FAILED", "CANCELLED"}]

NoSchedule == [status |-> "ABSENT", deleted |-> FALSE, version |-> Null]
NoInbox    == [owner |-> None, status |-> "ABSENT", run |-> Null]

StoreTypeOK ==
    /\ now \in 0..MaxTime
    /\ schedule \in [Schedules -> ScheduleRows]
    /\ versions \in Seq(VersionRows)
    /\ forecasts \subseteq ForecastRows
    /\ inbox \in [Messages -> InboxRows]
    /\ runs \in Seq(RunRows)
    /\ rowLock \in [Schedules -> Servers \union {None}]

StoreInit ==
    /\ now = 0
    /\ schedule = [s \in Schedules |-> NoSchedule]
    /\ versions = <<>>
    /\ forecasts = {}
    /\ inbox = [d \in Messages |-> NoInbox]
    /\ runs = <<>>
    /\ rowLock = [s \in Schedules |-> None]

Exists(s) == schedule[s].status # "ABSENT"

ActiveStatuses == {"PENDING", "RUNNING", "WAITING"}

(* Mutant: the probe forgets the runs that have not started. *)
HasRunningRun(s) == \E r \in DOMAIN runs : runs[r].owner = s /\ runs[r].status = "RUNNING"

(* hasActiveRun, and the same probe in the admission pipeline *)
HasActiveRun(s) ==
    \E r \in DOMAIN runs : runs[r].owner = s /\ runs[r].status \in ActiveStatuses

(* The workflow driver, which is not part of the repository, moves a run    *)
(* along and completes it.                                                  *)
Drive(r, to) ==
    /\ \/ runs[r].status = "PENDING" /\ to = "RUNNING"
       \/ runs[r].status = "RUNNING" /\ to \in {"WAITING", "SUCCEEDED", "FAILED"}
       \/ runs[r].status = "WAITING" /\ to = "RUNNING"
    /\ runs' = [runs EXCEPT ![r].status = to]
    /\ UNCHANGED <<now, schedule, versions, forecasts, inbox, rowLock>>

Tick ==
    /\ now < MaxTime
    /\ now' = now + 1
    /\ UNCHANGED <<schedule, versions, forecasts, inbox, runs, rowLock>>
=============================================================================
