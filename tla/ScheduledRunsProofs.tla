------------------------ MODULE ScheduledRunsProofs ------------------------
(***************************************************************************)
(* Proofs about ScheduledRuns for every set of schedules, messages,        *)
(* servers and admins and every bound: the version history, one run per    *)
(* message, the concurrency policies, what a run pins and, with one admin, *)
(* deletion.                                                               *)
(***************************************************************************)
EXTENDS MCScheduleParties, SequenceTheorems, TLAPS

(* What an insert does to a table. *)
LEMMA AppendRow ==
    ASSUME NEW S, NEW s \in Seq(S), NEW e \in S
    PROVE  /\ Append(s, e) \in Seq(S)
           /\ Len(Append(s, e)) = Len(s) + 1
           /\ DOMAIN Append(s, e) = 1 .. Len(s) + 1
           /\ \A i \in 1 .. Len(s) : Append(s, e)[i] = s[i]
           /\ Append(s, e)[Len(s) + 1] = e
  OBVIOUS

(* A function on the rows of a table is a table of the same length. *)
LEMMA MappedRows ==
    ASSUME NEW S, NEW n \in Nat, NEW f \in [1 .. n -> S]
    PROVE  f \in Seq(S) /\ Len(f) = n /\ DOMAIN f = 1 .. n
  OBVIOUS

(* A table is a function on 1 to its length. *)
LEMMA TableRows ==
    ASSUME NEW S, NEW s \in Seq(S)
    PROVE  /\ Len(s) \in Nat /\ DOMAIN s = 1 .. Len(s) /\ s \in [1 .. Len(s) -> S]
           /\ \A i \in 1 .. Len(s) : s[i] \in S
  OBVIOUS

-----------------------------------------------------------------------------
(* Types and references *)

Locking == {"locked", "inserted", "probed"}

(* A schedule points to a version of its own. *)
CurrentVersionExists ==
    \A s \in Schedules : Exists(s) =>
        /\ schedule[s].version \in 1 .. Len(versions)
        /\ versions[schedule[s].version].owner = s

(* A control action under way has loaded a schedule that exists, and the    *)
(* version in its copy of the row is one of that schedule, however old the  *)
(* copy is.                                                                 *)
CallsRefer ==
    \A a \in Admins : ctl[a].action # "NONE" =>
        /\ ctl[a].target \in Schedules /\ Exists(ctl[a].target)
        /\ ctl[a].row.version \in 1 .. Len(versions)
        /\ versions[ctl[a].row.version].owner = ctl[a].target

(* A delivery under way is about a message and a schedule; past its first   *)
(* statement it holds the row, so its copy is the row.                      *)
LocksHold ==
    \A p \in Servers :
        /\ srv[p].step # "idle" => srv[p].target \in Schedules /\ srv[p].message \in Messages
        /\ srv[p].step \in Locking =>
              /\ Exists(srv[p].target) /\ rowLock[srv[p].target] = p
              /\ srv[p].row = schedule[srv[p].target]
        /\ srv[p].step \in {"inserted", "probed"} => srv[p].row.status = "ACTIVE"

RefInv == TypeOK /\ CurrentVersionExists /\ CallsRefer /\ LocksHold

(* Rows that are not there have the types of the tables. *)
LEMMA EmptyRows ==
    /\ NoSchedule \in ScheduleRows /\ NoInbox \in InboxRows
    /\ NoAction \in Calls /\ NoDelivery \in Deliveries
  BY DEF NoSchedule, ScheduleRows, NoInbox, InboxRows, NoAction, Calls, NoDelivery, Deliveries, Null

(* The variables, typed one by one. *)
LEMMA Types ==
    ASSUME TypeOK
    PROVE  /\ now \in 0 .. MaxTime /\ schedule \in [Schedules -> ScheduleRows]
           /\ versions \in Seq(VersionRows) /\ forecasts \subseteq ForecastRows
           /\ inbox \in [Messages -> InboxRows] /\ runs \in Seq(RunRows)
           /\ rowLock \in [Schedules -> Servers \union {None}]
           /\ ctl \in [Admins -> Calls] /\ srv \in [Servers -> Deliveries]
           /\ answers \in [Messages -> SUBSET (Schedules \X Nat)]
  BY DEF TypeOK, StoreTypeOK, ControlTypeOK, AdmissionTypeOK

(* Rows name schedules and messages. *)
LEMMA RowOwners ==
    ASSUME TypeOK
    PROVE  /\ \A v \in 1 .. Len(versions) : versions[v].owner \in Schedules
           /\ \A r \in 1 .. Len(runs) : /\ runs[r].owner \in Schedules
                                        /\ runs[r].message \in Messages
<1>1. ASSUME NEW v \in 1 .. Len(versions) PROVE versions[v].owner \in Schedules
  <2>1. versions[v] \in VersionRows
    BY Types
  <2> QED
    BY <2>1 DEF VersionRows
<1>2. ASSUME NEW r \in 1 .. Len(runs) PROVE runs[r].owner \in Schedules /\ runs[r].message \in Messages
  <2>1. runs[r] \in RunRows
    BY Types
  <2> QED
    BY <2>1 DEF RunRows
<1> QED
  BY <1>1, <1>2

(* An admin that is done has no call. *)
LEMMA DoneType ==
    ASSUME TypeOK, NEW a \in Admins, Done(a)
    PROVE  ctl' \in [Admins -> Calls]
  BY EmptyRows, Types DEF Done

(* Control actions keep the types. *)
LEMMA ControlTypeStep ==
    ASSUME RefInv, NEW a \in Admins, ControlStep(a), UNCHANGED <<srv, answers>>
    PROVE  TypeOK'
<1> USE DEF NoSchedule, Null
<1>0. TypeOK /\ CallsRefer /\ Len(versions) \in Nat /\ DOMAIN versions = 1 .. Len(versions)
  BY Types DEF RefInv
<1> DEFINE Typed == /\ schedule' \in [Schedules -> ScheduleRows] /\ versions' \in Seq(VersionRows)
                    /\ forecasts' \subseteq ForecastRows /\ ctl' \in [Admins -> Calls]
                    /\ UNCHANGED <<now, inbox, runs, rowLock>>
<1>1. ASSUME NEW s \in Schedules, NEW c \in Configs, CreateSchedule(a, s, c) PROVE Typed
  <2>1. VersionRow(s, c) \in VersionRows
    BY DEF VersionRow, VersionRows
  <2>2. versions' \in Seq(VersionRows)
    BY <1>0, <1>1, <2>1, Types DEF CreateSchedule
  <2>3. schedule' \in [Schedules -> ScheduleRows]
    BY <1>0, <1>1, Types DEF CreateSchedule, PointTo, NewVersion, ScheduleRows
  <2> QED
    BY <1>0, <1>1, <2>2, <2>3, Types DEF CreateSchedule
<1>2. ASSUME NEW action \in Actions, NEW s \in Schedules, NEW at \in 0 .. MaxTime,
             Load(a, action, s, at)
      PROVE Typed
  <2>1. [action |-> action, target |-> s, row |-> schedule[s], at |-> at] \in Calls
    BY <1>0, Types, StoreAssumption DEF Calls
  <2> QED
    BY <1>0, <1>2, <2>1, Types DEF Load, storeVars
<1>3. ASSUME NEW c \in Configs, EditDraft(a, c) PROVE Typed
  <2> DEFINE s == ctl[a].target
             v == ctl[a].row.version
  <2>1. s \in Schedules /\ v \in 1 .. Len(versions) /\ versions[v].owner = s
    BY <1>0, <1>3 DEF EditDraft, MayWrite, CallsRefer
  <2>2. CASE ~Supersedes(v)
    BY <1>0, <1>3, <2>2, DoneType, Types DEF EditDraft
  <2>3. CASE Supersedes(v)
    <3>1. VersionRow(s, c) \in VersionRows
      BY <2>1 DEF VersionRow, VersionRows
    <3>2. [versions EXCEPT ![v].next = NewVersion] \in Seq(VersionRows)
      <4>1. versions[v] \in VersionRows
        BY <1>0, <2>1, Types
      <4>2. [versions[v] EXCEPT !.next = NewVersion] \in VersionRows
        BY <1>0, <4>1 DEF VersionRows, NewVersion
      <4> QED
        BY <1>0, <2>1, <4>2, Types, ExceptSeq
    <3>3. versions' \in Seq(VersionRows)
      BY <1>3, <2>3, <3>1, <3>2 DEF EditDraft
    <3>4. schedule' \in [Schedules -> ScheduleRows]
      <4> DEFINE row == [status |-> schedule[s].status, deleted |-> FALSE, version |-> NewVersion]
      <4>1. schedule[s] \in ScheduleRows /\ NewVersion \in Nat
        BY <1>0, <2>1, Types DEF NewVersion
      <4>2. row \in ScheduleRows
        BY <4>1 DEF ScheduleRows
      <4>3. schedule' = [schedule EXCEPT ![s] = row]
        BY <1>3, <2>3 DEF EditDraft, PointTo
      <4> HIDE DEF row
      <4> QED
        BY <1>0, <4>2, <4>3, Types
    <3> QED
      BY <1>0, <1>3, <3>3, <3>4, DoneType, Types DEF EditDraft
  <2> QED
    BY <2>2, <2>3
<1>4. ASSUME NEW s \in Schedules, DuplicateSchedule(a, s) PROVE Typed
  <2>1. versions[ctl[a].row.version] \in VersionRows
    BY <1>0, <1>4, Types DEF DuplicateSchedule, CallsRefer
  <2>2. VersionRow(s, versions[ctl[a].row.version].config) \in VersionRows
    BY <2>1 DEF VersionRow, VersionRows
  <2>3. versions' \in Seq(VersionRows)
    BY <1>0, <1>4, <2>2, Types DEF DuplicateSchedule
  <2>4. schedule' \in [Schedules -> ScheduleRows]
    BY <1>0, <1>4, Types DEF DuplicateSchedule, PointTo, NewVersion, ScheduleRows
  <2> QED
    BY <1>0, <1>4, <2>3, <2>4, DoneType, Types DEF DuplicateSchedule
<1>5. ASSUME NEW st \in {"ACTIVE", "PAUSED", "DISABLED"}, SetStatus(a, st),
             forecasts' \subseteq ForecastRows
      PROVE Typed
  <2>1. schedule' \in [Schedules -> ScheduleRows]
    BY <1>0, <1>5, Types DEF SetStatus, ScheduleRows
  <2> QED
    BY <1>0, <1>5, <2>1, DoneType, Types DEF SetStatus
<1>6. ASSUME EnableSchedule(a) PROVE Typed
  <2>1. ctl[a] \in Calls /\ ctl[a].target \in Schedules
    BY <1>0, <1>6, Types DEF EnableSchedule, MayWrite, CallsRefer
  <2>2. [owner |-> ctl[a].target, version |-> ctl[a].row.version, computedAt |-> ctl[a].at]
          \in ForecastRows
    BY <2>1 DEF Calls, ScheduleRows, ForecastRows
  <2> QED
    BY <1>0, <1>5, <1>6, <2>2, Types DEF EnableSchedule
<1>7. ASSUME PauseSchedule(a) \/ DisableSchedule(a) \/ ResumeSchedule(a) PROVE Typed
  BY <1>0, <1>5, <1>7, Types DEF PauseSchedule, DisableSchedule, ResumeSchedule
<1>8. ASSUME ResumeCheck(a) \/ DeleteProbe(a) \/ AdminCrash(a) PROVE Typed
  <2>1. UNCHANGED storeVars
    BY <1>8 DEF ResumeCheck, DeleteProbe, AdminCrash
  <2>2. ctl' \in [Admins -> Calls]
    <3>1. CASE Done(a)
      BY <1>0, <3>1, DoneType
    <3>2. CASE ctl' = [ctl EXCEPT ![a].action = "ACTIVATE"] \/ ctl' = [ctl EXCEPT ![a].action = "TOMBSTONE"]
      BY <1>0, <3>2, Types DEF Calls
    <3> QED
      BY <1>8, <3>1, <3>2 DEF ResumeCheck, DeleteProbe, AdminCrash
  <2> QED
    BY <1>0, <2>1, <2>2, Types DEF storeVars
<1>9. ASSUME DeleteSchedule(a) PROVE Typed
  <2>1. schedule' \in [Schedules -> ScheduleRows]
    BY <1>0, <1>9, Types DEF DeleteSchedule, ScheduleRows
  <2> QED
    BY <1>0, <1>9, <2>1, DoneType, Types DEF DeleteSchedule
<1>10. Typed
  BY <1>1, <1>2, <1>3, <1>4, <1>6, <1>7, <1>8, <1>9 DEF ControlStep
<1> QED
  BY <1>0, <1>10, Types DEF TypeOK, StoreTypeOK, ControlTypeOK, AdmissionTypeOK

(* The end of a delivery keeps the types. *)
LEMMA UnlockTypes ==
    ASSUME TypeOK, NEW p \in Servers, Unlock(p)
    PROVE  srv' \in [Servers -> Deliveries] /\ rowLock' \in [Schedules -> Servers \union {None}]
  BY EmptyRows, Types DEF Unlock

(* What CANCEL_PREVIOUS does to the table of runs: it only ends active runs *)
(* of the schedule.                                                         *)
LEMMA CancelRows ==
    ASSUME TypeOK, NEW s
    PROVE  /\ CancelActive(s) \in Seq(RunRows) /\ Len(CancelActive(s)) = Len(runs)
           /\ \A r \in 1 .. Len(runs) :
                 CancelActive(s)[r] = IF runs[r].owner = s /\ runs[r].status \in ActiveStatuses
                                      THEN [runs[r] EXCEPT !.status = "CANCELLED"]
                                      ELSE runs[r]
<1>1. Len(runs) \in Nat /\ DOMAIN runs = 1 .. Len(runs) /\ \A r \in 1 .. Len(runs) : runs[r] \in RunRows
  BY Types
<1>2. \A r \in 1 .. Len(runs) : [runs[r] EXCEPT !.status = "CANCELLED"] \in RunRows
  BY <1>1 DEF RunRows
<1>3. CancelActive(s) \in [1 .. Len(runs) -> RunRows]
  BY <1>1, <1>2 DEF CancelActive
<1> QED
  BY <1>1, <1>3, MappedRows DEF CancelActive

(* The run that a delivery inserts. *)
NewRun(p) ==
    LET v    == srv[p].row.version
        skip == srv[p].active /\ PolicyOf(v) = "SKIP_IF_RUNNING"
    IN  [owner |-> srv[p].target, version |-> v, message |-> srv[p].message, policy |-> PolicyOf(v),
         shadow |-> versions[v].config.shadow,
         status |-> IF skip THEN "CANCELLED" ELSE "PENDING"]

(* The older runs as that delivery leaves them. *)
OldRuns(p) ==
    IF srv[p].active /\ PolicyOf(srv[p].row.version) = "CANCEL_PREVIOUS"
    THEN CancelActive(srv[p].target) ELSE runs

(* A run that is only given another status stays what it is about. *)
SameRun(old, new) ==
    /\ new.owner = old.owner /\ new.version = old.version /\ new.message = old.message
    /\ new.policy = old.policy /\ new.shadow = old.shadow

LEMMA StatusWrite ==
    ASSUME TypeOK, NEW r \in 1 .. Len(runs), NEW to
    PROVE  /\ SameRun(runs[r], runs[r]) /\ SameRun(runs[r], [runs[r] EXCEPT !.status = to])
           /\ [runs[r] EXCEPT !.status = to].status = to
<1>1. runs[r] \in RunRows
  BY Types
<1> QED
  BY <1>1 DEF RunRows, SameRun

LEMMA OldRunRows ==
    ASSUME TypeOK, NEW p \in Servers, NEW r \in 1 .. Len(runs)
    PROVE  /\ SameRun(runs[r], OldRuns(p)[r])
           /\ \/ OldRuns(p)[r] = runs[r]
              \/ runs[r].status \in ActiveStatuses /\ OldRuns(p)[r].status = "CANCELLED"
           /\ (/\ srv[p].active /\ PolicyOf(srv[p].row.version) = "CANCEL_PREVIOUS"
               /\ runs[r].owner = srv[p].target) => OldRuns(p)[r].status \notin ActiveStatuses
<1>1. CASE srv[p].active /\ PolicyOf(srv[p].row.version) = "CANCEL_PREVIOUS"
  <2>1. OldRuns(p)[r] = IF runs[r].owner = srv[p].target /\ runs[r].status \in ActiveStatuses
                        THEN [runs[r] EXCEPT !.status = "CANCELLED"]
                        ELSE runs[r]
    BY <1>1, CancelRows DEF OldRuns
  <2> QED
    BY <1>1, <2>1, StatusWrite DEF ActiveStatuses
<1>2. CASE ~(srv[p].active /\ PolicyOf(srv[p].row.version) = "CANCEL_PREVIOUS")
  BY <1>2, StatusWrite DEF OldRuns
<1> QED
  BY <1>1, <1>2

(* What the commit of a delivery does to the tables: one run more, at most  *)
(* cancellations of active runs of the schedule below it, and the inbox row *)
(* and an answer that name the new run.                                     *)
LEMMA CommitEffect ==
    ASSUME RefInv, NEW p \in Servers, CommitRun(p)
    PROVE  /\ srv[p].target \in Schedules /\ srv[p].message \in Messages
           /\ Exists(srv[p].target) /\ srv[p].row = schedule[srv[p].target]
           /\ srv[p].row.version \in 1 .. Len(versions)
           /\ versions[srv[p].row.version].owner = srv[p].target
           /\ OldRuns(p) \in Seq(RunRows) /\ Len(OldRuns(p)) = Len(runs)
           /\ NewRun(p) \in RunRows
           /\ runs' = Append(OldRuns(p), NewRun(p))
           /\ runs' \in Seq(RunRows) /\ Len(runs') = Len(runs) + 1
           /\ \A r \in 1 .. Len(runs) : runs'[r] = OldRuns(p)[r]
           /\ runs'[Len(runs) + 1] = NewRun(p)
           /\ inbox' = [inbox EXCEPT ![srv[p].message] =
                           [owner |-> srv[p].target, status |-> "PROCESSED", run |-> Len(runs) + 1]]
           /\ answers' = [answers EXCEPT ![srv[p].message] =
                             @ \union {<<srv[p].target, Len(runs) + 1>>}]
           /\ Unlock(p) /\ UNCHANGED <<now, schedule, versions, forecasts>>
<1> DEFINE v == srv[p].row.version
<1>1. srv[p].step = "probed"
  BY DEF CommitRun
<1>2. /\ srv[p].target \in Schedules /\ srv[p].message \in Messages
      /\ Exists(srv[p].target) /\ srv[p].row = schedule[srv[p].target]
  BY <1>1 DEF RefInv, LocksHold, Locking
<1>3. v \in 1 .. Len(versions) /\ versions[v].owner = srv[p].target
  BY <1>2 DEF RefInv, CurrentVersionExists
<1>4. versions[v] \in VersionRows /\ TypeOK
  BY <1>3, Types DEF RefInv
<1>5. PolicyOf(v) \in ConcurrencyPolicies /\ versions[v].config.shadow \in BOOLEAN
  BY <1>4, StoreAssumption DEF PolicyOf, VersionRows
<1>6. NewRun(p) \in RunRows
  <2>1. v \in Nat
    BY <1>2, <1>4, Types DEF ScheduleRows
  <2> QED
    BY <1>2, <1>5, <2>1 DEF NewRun, RunRows
<1>7. OldRuns(p) \in Seq(RunRows) /\ Len(OldRuns(p)) = Len(runs)
  BY <1>4, CancelRows, Types DEF OldRuns
<1>8. /\ runs' = Append(OldRuns(p), NewRun(p))
      /\ inbox' = [inbox EXCEPT ![srv[p].message] =
                      [owner |-> srv[p].target, status |-> "PROCESSED", run |-> Len(runs) + 1]]
      /\ answers' = [answers EXCEPT ![srv[p].message] =
                        @ \union {<<srv[p].target, Len(runs) + 1>>}]
      /\ Unlock(p) /\ UNCHANGED <<now, schedule, versions, forecasts>>
  BY DEF CommitRun, NewRun, OldRuns
<1>9. /\ runs' \in Seq(RunRows) /\ Len(runs') = Len(runs) + 1
      /\ \A r \in 1 .. Len(runs) : runs'[r] = OldRuns(p)[r]
      /\ runs'[Len(runs) + 1] = NewRun(p)
  BY <1>6, <1>7, <1>8, AppendRow
<1> QED
  BY <1>2, <1>3, <1>6, <1>7, <1>8, <1>9

(* Admission steps keep the types. *)
LEMMA AdmissionTypeStep ==
    ASSUME RefInv, NEW p \in Servers, AdmissionStep(p), UNCHANGED ctl
    PROVE  TypeOK'
<1>0. TypeOK /\ LocksHold
  BY DEF RefInv
<1> DEFINE Typed == /\ inbox' \in [Messages -> InboxRows] /\ runs' \in Seq(RunRows)
                    /\ rowLock' \in [Schedules -> Servers \union {None}]
                    /\ srv' \in [Servers -> Deliveries]
                    /\ answers' \in [Messages -> SUBSET (Schedules \X Nat)]
                    /\ UNCHANGED <<now, schedule, versions, forecasts>>
<1>1. ASSUME NEW d \in Messages, NEW s \in Schedules, RunNow(p, d, s) PROVE Typed
  <2>1. [NoDelivery EXCEPT !.step = "checked", !.target = s, !.message = d] \in Deliveries
    BY EmptyRows DEF Deliveries
  <2> QED
    BY <1>0, <1>1, <2>1, Types DEF RunNow, storeVars
<1>2. ASSUME NEW d \in Messages, NEW s \in Schedules, LockSchedule(p, d, s) PROVE Typed
  <2>1. [step |-> "locked", target |-> s, message |-> d, row |-> schedule[s], active |-> FALSE]
          \in Deliveries
    BY <1>0, Types DEF Deliveries
  <2> QED
    BY <1>0, <1>2, <2>1, Types DEF LockSchedule, tableVars
<1>3. ASSUME Redelivered(p) PROVE Typed
  <2> DEFINE d == srv[p].message
  <2>1. d \in Messages /\ srv[p].target \in Schedules
    BY <1>0, <1>3 DEF Redelivered, LocksHold
  <2>2. inbox[d] \in InboxRows /\ inbox[d].run \in Nat
    BY <1>0, <2>1, Types DEF InboxRows
  <2>3. [inbox[d] EXCEPT !.status = "DUPLICATE_COLLAPSED"] \in InboxRows
    BY <2>2 DEF InboxRows
  <2>4. inbox' \in [Messages -> InboxRows]
    BY <1>0, <1>3, <2>1, <2>3, Types DEF Redelivered
  <2>5. answers' \in [Messages -> SUBSET (Schedules \X Nat)]
    BY <1>0, <1>3, <2>1, <2>2, Types DEF Redelivered
  <2> QED
    BY <1>0, <1>3, <2>4, <2>5, UnlockTypes, Types DEF Redelivered
<1>4. ASSUME InsertInbox(p) PROVE Typed
  <2>1. CASE Unlock(p)
    BY <1>0, <1>4, <2>1, UnlockTypes, Types DEF InsertInbox, tableVars
  <2>2. CASE srv' = [srv EXCEPT ![p].step = "inserted"] /\ UNCHANGED rowLock
    BY <1>0, <1>4, <2>2, Types DEF InsertInbox, tableVars, Deliveries
  <2> QED
    BY <1>4, <2>1, <2>2 DEF InsertInbox
<1>5. ASSUME ProbeActive(p) PROVE Typed
  <2>1. HasActiveRun(srv[p].target) \in BOOLEAN
    BY DEF HasActiveRun
  <2>2. \A b \in BOOLEAN : [srv EXCEPT ![p].step = "probed", ![p].active = b] \in [Servers -> Deliveries]
    BY <1>0, Types DEF Deliveries
  <2>3. srv' = [srv EXCEPT ![p].step = "probed", ![p].active = HasActiveRun(srv[p].target)]
    BY <1>5 DEF ProbeActive
  <2>4. srv' \in [Servers -> Deliveries]
    BY <2>1, <2>2, <2>3, Zenon
  <2> QED
    BY <1>0, <1>5, <2>4, Types DEF ProbeActive, storeVars
<1>6. ASSUME CommitRun(p) PROVE Typed
  <2>0. /\ srv[p].target \in Schedules /\ srv[p].message \in Messages /\ Len(runs) + 1 \in Nat
        /\ inbox' = [inbox EXCEPT ![srv[p].message] =
                        [owner |-> srv[p].target, status |-> "PROCESSED", run |-> Len(runs) + 1]]
        /\ answers' = [answers EXCEPT ![srv[p].message] =
                          @ \union {<<srv[p].target, Len(runs) + 1>>}]
    BY <1>0, <1>6, CommitEffect, Types
  <2>1. inbox' \in [Messages -> InboxRows]
    <3>1. [owner |-> srv[p].target, status |-> "PROCESSED", run |-> Len(runs) + 1] \in InboxRows
      BY <2>0 DEF InboxRows
    <3> QED
      BY <1>0, <2>0, <3>1, Types
  <2>2. answers' \in [Messages -> SUBSET (Schedules \X Nat)]
    BY <1>0, <2>0, Types
  <2> QED
    BY <1>0, <1>6, <2>1, <2>2, CommitEffect, UnlockTypes
<1>7. ASSUME ServerCrash(p) PROVE Typed
  BY <1>0, <1>7, UnlockTypes, Types DEF ServerCrash, tableVars
<1>8. Typed
  BY <1>1, <1>2, <1>3, <1>4, <1>5, <1>6, <1>7 DEF AdmissionStep
<1> QED
  BY <1>0, <1>8, Types DEF TypeOK, StoreTypeOK, ControlTypeOK, AdmissionTypeOK

-----------------------------------------------------------------------------
(* What a control action does to the schedules and their history: it leaves *)
(* the versions and the pointers alone, starts the history of a schedule    *)
(* that was not there, or appends to the history of one that no delivery    *)
(* holds.                                                                   *)
KeepsHistory ==
    /\ versions' = versions
    /\ \A s \in Schedules :
          /\ schedule'[s].version = schedule[s].version /\ (Exists(s)' <=> Exists(s))
          /\ rowLock[s] # None => schedule'[s] = schedule[s]

StartsHistory(s, c) ==
    /\ ~Exists(s)
    /\ versions' = Append(versions, VersionRow(s, c))
    /\ PointTo(s, "DRAFT")

ExtendsHistory(s, v, c) ==
    /\ Exists(s) /\ rowLock[s] = None
    /\ v \in 1 .. Len(versions) /\ versions[v].owner = s /\ Supersedes(v)
    /\ versions' = Append([versions EXCEPT ![v].next = NewVersion], VersionRow(s, c))
    /\ PointTo(s, schedule[s].status)

(* The call of an admin ends, moves on with the row it loaded, or loads one. *)
CallMoves(a) ==
    \/ ctl' = ctl
    \/ Done(a)
    \/ ctl[a].action # "NONE" /\ \E action \in {"ACTIVATE", "TOMBSTONE"} :
          ctl' = [ctl EXCEPT ![a].action = action]
    \/ \E action \in Actions, s \in Schedules, at \in 0 .. MaxTime :
          /\ Exists(s)
          /\ ctl' = [ctl EXCEPT ![a] = [action |-> action, target |-> s,
                                        row |-> schedule[s], at |-> at]]

LEMMA ControlEffect ==
    ASSUME RefInv, NEW a \in Admins, ControlStep(a)
    PROVE  /\ \/ KeepsHistory
              \/ \E s \in Schedules, c \in Configs : StartsHistory(s, c)
              \/ \E s \in Schedules, v \in 1 .. Len(versions), c \in Configs : ExtendsHistory(s, v, c)
           /\ CallMoves(a) /\ UNCHANGED <<now, inbox, runs, rowLock>>
<1>0. TypeOK /\ CallsRefer /\ CurrentVersionExists
  BY DEF RefInv
<1>0a. \A s \in Schedules : schedule[s] \in ScheduleRows
  BY <1>0, Types
<1> DEFINE Moved == CallMoves(a) /\ UNCHANGED <<now, inbox, runs, rowLock>>
<1>1. ASSUME NEW s \in Schedules, NEW c \in Configs, CreateSchedule(a, s, c)
      PROVE  StartsHistory(s, c) /\ Moved
  BY <1>1 DEF CreateSchedule, StartsHistory, CallMoves
<1>2. ASSUME NEW action \in Actions, NEW s \in Schedules, NEW at \in 0 .. MaxTime,
             Load(a, action, s, at)
      PROVE  KeepsHistory /\ Moved
  <2>1. CallMoves(a)
    BY <1>2 DEF Load, CallMoves
  <2> QED
    BY <1>2, <2>1 DEF Load, KeepsHistory, storeVars, Exists
<1>3. ASSUME NEW c \in Configs, EditDraft(a, c)
      PROVE  /\ \/ KeepsHistory
                \/ \E s \in Schedules, v \in 1 .. Len(versions) : ExtendsHistory(s, v, c)
             /\ Moved
  <2>1. /\ ctl[a].target \in Schedules /\ Exists(ctl[a].target)
        /\ ctl[a].row.version \in 1 .. Len(versions)
        /\ versions[ctl[a].row.version].owner = ctl[a].target
    BY <1>0, <1>3 DEF EditDraft, MayWrite, CallsRefer
  <2>2. CASE Supersedes(ctl[a].row.version)
    <3>1. ExtendsHistory(ctl[a].target, ctl[a].row.version, c)
      BY <1>3, <2>1, <2>2 DEF EditDraft, MayWrite, ExtendsHistory
    <3> QED
      BY <1>3, <2>1, <3>1 DEF EditDraft, CallMoves
  <2>3. CASE ~Supersedes(ctl[a].row.version)
    BY <1>3, <2>3 DEF EditDraft, CallMoves, KeepsHistory, Exists
  <2> QED
    BY <2>2, <2>3
<1>4. ASSUME NEW s \in Schedules, DuplicateSchedule(a, s)
      PROVE  (\E c \in Configs : StartsHistory(s, c)) /\ Moved
  <2>1. versions[ctl[a].row.version] \in VersionRows
    BY <1>0, <1>4, Types DEF DuplicateSchedule, CallsRefer
  <2>2. versions[ctl[a].row.version].config \in Configs
    BY <2>1 DEF VersionRows
  <2>3. StartsHistory(s, versions[ctl[a].row.version].config)
    BY <1>4 DEF DuplicateSchedule, StartsHistory
  <2> QED
    BY <1>4, <2>2, <2>3 DEF DuplicateSchedule, CallMoves
<1>5. ASSUME NEW st \in {"ACTIVE", "PAUSED", "DISABLED"}, SetStatus(a, st),
             ctl[a].action # "NONE", rowLock[ctl[a].target] = None
      PROVE  KeepsHistory /\ Moved
  <2>1. ctl[a].target \in Schedules /\ Exists(ctl[a].target)
    BY <1>0, <1>5 DEF CallsRefer
  <2>2. KeepsHistory
    BY <1>0, <1>0a, <1>5, <2>1, Types DEF SetStatus, KeepsHistory, Exists, ScheduleRows
  <2> QED
    BY <1>5, <2>2 DEF SetStatus, CallMoves
<1>6. ASSUME EnableSchedule(a) \/ PauseSchedule(a) \/ DisableSchedule(a) \/ ResumeSchedule(a)
      PROVE  KeepsHistory /\ Moved
  BY <1>5, <1>6 DEF EnableSchedule, PauseSchedule, DisableSchedule, ResumeSchedule, MayWrite
<1>7. ASSUME ResumeCheck(a) \/ DeleteProbe(a) \/ AdminCrash(a) PROVE KeepsHistory /\ Moved
  <2>1. UNCHANGED storeVars
    BY <1>7 DEF ResumeCheck, DeleteProbe, AdminCrash
  <2>2. CallMoves(a)
    BY <1>7 DEF ResumeCheck, DeleteProbe, AdminCrash, CallMoves
  <2> QED
    BY <2>1, <2>2 DEF KeepsHistory, storeVars, Exists
<1>8. ASSUME DeleteSchedule(a) PROVE KeepsHistory /\ Moved
  <2>1. ctl[a].target \in Schedules /\ Exists(ctl[a].target) /\ rowLock[ctl[a].target] = None
    BY <1>0, <1>8 DEF CallsRefer, DeleteSchedule, MayWrite
  <2>2. KeepsHistory
    BY <1>0, <1>0a, <1>8, <2>1, Types DEF DeleteSchedule, KeepsHistory, Exists, ScheduleRows
  <2> QED
    BY <1>8, <2>2 DEF DeleteSchedule, CallMoves
<1>9. CASE \E s \in Schedules, c \in Configs : CreateSchedule(a, s, c)
  BY <1>1, <1>9
<1>10. CASE \E c \in Configs : EditDraft(a, c)
  BY <1>3, <1>10
<1>11. CASE \E s \in Schedules : DuplicateSchedule(a, s)
  BY <1>4, <1>11
<1>12. CASE \E action \in Actions, s \in Schedules, at \in 0 .. MaxTime : Load(a, action, s, at)
  BY <1>2, <1>12
<1> QED
  BY <1>6, <1>7, <1>8, <1>9, <1>10, <1>11, <1>12 DEF ControlStep

(* Whatever happens, versions keep their owner and configuration, schedules *)
(* stay, and a row that a delivery holds is not written.                    *)
HistoryGrows ==
    /\ Len(versions') \in Nat /\ Len(versions) <= Len(versions')
    /\ \A v \in 1 .. Len(versions) :
          versions'[v].owner = versions[v].owner /\ versions'[v].config = versions[v].config
    /\ \A s \in Schedules :
          /\ Exists(s) => Exists(s)'
          /\ Exists(s) /\ rowLock[s] # None => schedule'[s] = schedule[s]

LEMMA ControlGrows ==
    ASSUME RefInv, NEW a \in Admins, ControlStep(a)
    PROVE  HistoryGrows /\ CurrentVersionExists'
<1>0. TypeOK /\ CurrentVersionExists /\ Len(versions) \in Nat
  BY Types DEF RefInv
<1>1. CASE KeepsHistory
  BY <1>0, <1>1 DEF KeepsHistory, HistoryGrows, CurrentVersionExists
<1>2. ASSUME NEW s \in Schedules, NEW c \in Configs, StartsHistory(s, c)
      PROVE  HistoryGrows /\ CurrentVersionExists'
  <2>1. VersionRow(s, c) \in VersionRows
    BY DEF VersionRow, VersionRows, Null
  <2>2. /\ Len(versions') = Len(versions) + 1
        /\ \A i \in 1 .. Len(versions) : versions'[i] = versions[i]
        /\ versions'[Len(versions) + 1] = VersionRow(s, c)
    BY <1>0, <1>2, <2>1, AppendRow, Types DEF StartsHistory
  <2>3. \A t \in Schedules : schedule'[t] = IF t = s
            THEN [status |-> "DRAFT", deleted |-> FALSE, version |-> Len(versions) + 1]
            ELSE schedule[t]
    BY <1>0, <1>2, Types DEF StartsHistory, PointTo, NewVersion
  <2>4. HistoryGrows
    BY <1>0, <1>2, <2>2, <2>3 DEF StartsHistory, HistoryGrows, Exists
  <2>5. CurrentVersionExists'
    <3> SUFFICES ASSUME NEW t \in Schedules, Exists(t)'
                 PROVE  /\ schedule'[t].version \in 1 .. Len(versions')
                        /\ versions'[schedule'[t].version].owner = t
      BY DEF CurrentVersionExists
    <3>1. CASE t = s
      BY <1>0, <2>2, <2>3, <3>1 DEF VersionRow
    <3>2. CASE t # s
      BY <1>0, <2>2, <2>3, <3>2 DEF CurrentVersionExists, Exists
    <3> QED
      BY <3>1, <3>2
  <2> QED
    BY <2>4, <2>5
<1>3. ASSUME NEW s \in Schedules, NEW v \in 1 .. Len(versions), NEW c \in Configs,
             ExtendsHistory(s, v, c)
      PROVE  HistoryGrows /\ CurrentVersionExists'
  <2>1. VersionRow(s, c) \in VersionRows
    BY DEF VersionRow, VersionRows, Null
  <2> DEFINE e == [versions[v] EXCEPT !.next = NewVersion]
  <2>2. versions[v] \in VersionRows /\ e \in VersionRows
    <3>1. versions[v] \in VersionRows
      BY <1>0, Types
    <3> QED
      BY <1>0, <3>1 DEF VersionRows, NewVersion
  <2>3. /\ [versions EXCEPT ![v].next = NewVersion] \in Seq(VersionRows)
        /\ Len([versions EXCEPT ![v].next = NewVersion]) = Len(versions)
        /\ \A i \in 1 .. Len(versions) :
              [versions EXCEPT ![v].next = NewVersion][i] = IF i = v THEN e ELSE versions[i]
    <3>1. [versions EXCEPT ![v].next = NewVersion] = [versions EXCEPT ![v] = e]
      OBVIOUS
    <3> HIDE DEF e
    <3>2. versions \in Seq(VersionRows)
      BY <1>0, Types
    <3> QED
      BY <2>2, <3>1, <3>2, ExceptSeq
  <2>4. /\ Len(versions') = Len(versions) + 1
        /\ \A i \in 1 .. Len(versions) : versions'[i] = [versions EXCEPT ![v].next = NewVersion][i]
        /\ versions'[Len(versions) + 1] = VersionRow(s, c)
    BY <1>0, <1>3, <2>1, <2>3, AppendRow DEF ExtendsHistory
  <2>5. \A i \in 1 .. Len(versions) : /\ versions'[i].owner = versions[i].owner
                                      /\ versions'[i].config = versions[i].config
    BY <2>2, <2>3, <2>4 DEF VersionRows
  <2>6. \A t \in Schedules : schedule'[t] = IF t = s
            THEN [status |-> schedule[s].status, deleted |-> FALSE, version |-> Len(versions) + 1]
            ELSE schedule[t]
    BY <1>0, <1>3, Types DEF ExtendsHistory, PointTo, NewVersion
  <2>7. HistoryGrows
    BY <1>0, <1>3, <2>4, <2>5, <2>6 DEF ExtendsHistory, HistoryGrows, Exists
  <2>8. CurrentVersionExists'
    <3> SUFFICES ASSUME NEW t \in Schedules, Exists(t)'
                 PROVE  /\ schedule'[t].version \in 1 .. Len(versions')
                        /\ versions'[schedule'[t].version].owner = t
      BY DEF CurrentVersionExists
    <3>1. CASE t = s
      BY <1>0, <2>4, <2>6, <3>1 DEF VersionRow
    <3>2. CASE t # s
      BY <1>0, <2>4, <2>5, <2>6, <3>2 DEF CurrentVersionExists, Exists
    <3> QED
      BY <3>1, <3>2
  <2> QED
    BY <2>7, <2>8
<1> QED
  BY <1>1, <1>2, <1>3, ControlEffect

(* References survive when the history grows. *)
LEMMA ControlRefs ==
    ASSUME RefInv, NEW a \in Admins, ControlStep(a), UNCHANGED <<srv, answers>>
    PROVE  RefInv'
<1>0. TypeOK /\ CurrentVersionExists /\ CallsRefer /\ LocksHold
  BY DEF RefInv
<1>1. HistoryGrows /\ CurrentVersionExists' /\ CallMoves(a) /\ rowLock' = rowLock /\ TypeOK'
  BY ControlEffect, ControlGrows, ControlTypeStep
<1>2. CallsRefer'
  <2> SUFFICES ASSUME NEW b \in Admins, ctl'[b].action # "NONE"
               PROVE  /\ ctl'[b].target \in Schedules /\ schedule'[ctl'[b].target].status # "ABSENT"
                      /\ ctl'[b].row.version \in 1 .. Len(versions')
                      /\ versions'[ctl'[b].row.version].owner = ctl'[b].target
    BY DEF CallsRefer, Exists
  <2>0. ctl \in [Admins -> Calls] /\ Len(versions) \in Nat
    BY <1>0, Types
  <2>1. CASE ctl[b].action # "NONE" /\ ctl'[b].target = ctl[b].target /\ ctl'[b].row = ctl[b].row
    BY <1>0, <1>1, <2>0, <2>1 DEF CallsRefer, HistoryGrows, Exists
  <2>2. ASSUME NEW s \in Schedules, Exists(s), ctl'[b].target = s, ctl'[b].row = schedule[s]
        PROVE  /\ ctl'[b].target \in Schedules /\ schedule'[ctl'[b].target].status # "ABSENT"
               /\ ctl'[b].row.version \in 1 .. Len(versions')
               /\ versions'[ctl'[b].row.version].owner = ctl'[b].target
    BY <1>0, <1>1, <2>0, <2>2 DEF CurrentVersionExists, HistoryGrows, Exists
  <2>3. CASE b # a
    BY <1>1, <2>0, <2>1, <2>3 DEF CallMoves, Done
  <2>4. CASE b = a
    BY <1>1, <2>0, <2>1, <2>2, <2>4 DEF CallMoves, Done, NoAction, Calls
  <2> QED
    BY <2>3, <2>4
<1>3. LocksHold'
  <2> SUFFICES ASSUME NEW p \in Servers
               PROVE  /\ srv[p].step # "idle" => srv[p].target \in Schedules /\ srv[p].message \in Messages
                      /\ srv[p].step \in Locking =>
                            /\ Exists(srv[p].target)' /\ rowLock'[srv[p].target] = p
                            /\ srv[p].row = schedule'[srv[p].target]
                      /\ srv[p].step \in {"inserted", "probed"} => srv[p].row.status = "ACTIVE"
    BY DEF LocksHold
  <2> QED
    BY <1>0, <1>1, StoreAssumption DEF LocksHold, HistoryGrows, Locking
<1> QED
  BY <1>1, <1>2, <1>3 DEF RefInv

(* What one server holds; LocksHold says it of each. *)
Holds(q) ==
    /\ srv[q].step # "idle" => srv[q].target \in Schedules /\ srv[q].message \in Messages
    /\ srv[q].step \in Locking =>
          /\ Exists(srv[q].target) /\ rowLock[srv[q].target] = q
          /\ srv[q].row = schedule[srv[q].target]
    /\ srv[q].step \in {"inserted", "probed"} => srv[q].row.status = "ACTIVE"

(* A delivery that ends takes nothing from the others. *)
LEMMA UnlockHolds ==
    ASSUME RefInv, NEW p \in Servers, Unlock(p), UNCHANGED schedule, NEW q \in Servers
    PROVE  Holds(q)'
<1>0. srv \in [Servers -> Deliveries] /\ rowLock \in [Schedules -> Servers \union {None}] /\ LocksHold
  BY Types DEF RefInv
<1>1. CASE q = p
  BY <1>0, <1>1 DEF Unlock, Holds, NoDelivery, Locking
<1>2. CASE q # p
  <2>1. srv'[q] = srv[q]
    BY <1>0, <1>2 DEF Unlock
  <2>2. \A s \in Schedules : rowLock[s] = q => rowLock'[s] = q
    BY <1>0, <1>2 DEF Unlock
  <2>3. Holds(q)
    BY <1>0 DEF LocksHold, Holds
  <2> QED
    BY <2>1, <2>2, <2>3 DEF Holds, Exists, Locking
<1> QED
  BY <1>1, <1>2

LEMMA AdmissionRefs ==
    ASSUME RefInv, NEW p \in Servers, AdmissionStep(p), UNCHANGED ctl
    PROVE  RefInv' /\ UNCHANGED <<now, schedule, versions, forecasts>>
<1>0. srv \in [Servers -> Deliveries] /\ rowLock \in [Schedules -> Servers \union {None}] /\ LocksHold
  BY Types DEF RefInv
<1>1. UNCHANGED <<now, schedule, versions, forecasts>>
  BY DEF AdmissionStep, RunNow, LockSchedule, Redelivered, InsertInbox, ProbeActive, CommitRun,
         ServerCrash, storeVars, tableVars
<1>2. CurrentVersionExists' /\ CallsRefer'
  BY <1>1 DEF RefInv, CurrentVersionExists, CallsRefer, Exists
<1>3. LocksHold'
  <2> SUFFICES ASSUME NEW q \in Servers PROVE Holds(q)'
    BY DEF LocksHold, Holds
  <2>0. Holds(q) /\ Holds(p)
    BY <1>0 DEF LocksHold, Holds
  <2>1. CASE Unlock(p)
    BY <1>1, <2>1, UnlockHolds
  <2>2. ASSUME NEW d \in Messages, NEW s \in Schedules, RunNow(p, d, s) PROVE Holds(q)'
    <3>1. CASE q = p
      BY <1>0, <2>2, <3>1 DEF RunNow, Holds, NoDelivery, Locking
    <3>2. CASE q # p
      BY <1>0, <1>1, <2>0, <2>2, <3>2 DEF RunNow, Holds, storeVars, Exists
    <3> QED
      BY <3>1, <3>2
  <2>3. ASSUME NEW d \in Messages, NEW s \in Schedules, LockSchedule(p, d, s) PROVE Holds(q)'
    <3>1. CASE q = p
      BY <1>0, <1>1, <2>3, <3>1 DEF LockSchedule, Holds, Exists, Locking
    <3>2. CASE q # p
      <4>1. srv'[q] = srv[q] /\ \A t \in Schedules : rowLock[t] = q => rowLock'[t] = q
        BY <1>0, <2>3, <3>2, StoreAssumption DEF LockSchedule
      <4> QED
        BY <1>1, <2>0, <4>1 DEF Holds, Exists, Locking
    <3> QED
      BY <3>1, <3>2
  <2>4. CASE InsertInbox(p) /\ srv[p].row.status = "ACTIVE"
    <3>1. CASE q = p
      BY <1>0, <1>1, <2>0, <2>4, <3>1 DEF InsertInbox, Holds, Exists, Locking, Deliveries
    <3>2. CASE q # p
      BY <1>0, <1>1, <2>0, <2>4, <3>2 DEF InsertInbox, Holds, Exists
    <3> QED
      BY <3>1, <3>2
  <2>5. CASE ProbeActive(p)
    <3>1. CASE q = p
      BY <1>0, <1>1, <2>0, <2>5, <3>1 DEF ProbeActive, storeVars, Holds, Exists, Locking, Deliveries
    <3>2. CASE q # p
      BY <1>0, <1>1, <2>0, <2>5, <3>2 DEF ProbeActive, storeVars, Holds, Exists
    <3> QED
      BY <3>1, <3>2
  <2> QED
    BY <2>1, <2>2, <2>3, <2>4, <2>5 DEF AdmissionStep, Redelivered, InsertInbox, CommitRun, ServerCrash
<1> QED
  BY <1>1, <1>2, <1>3, AdmissionTypeStep DEF RefInv

(* What the driver does to the table of runs: one active run moves. *)
LEMMA DriveEffect ==
    ASSUME TypeOK, NEW r \in DOMAIN runs, NEW to \in {"RUNNING", "WAITING", "SUCCEEDED", "FAILED"},
           Drive(r, to)
    PROVE  /\ runs[r].status \in ActiveStatuses
           /\ runs' \in Seq(RunRows) /\ Len(runs') = Len(runs)
           /\ \A q \in 1 .. Len(runs) :
                 runs'[q] = IF q = r THEN [runs[q] EXCEPT !.status = to] ELSE runs[q]
<1>1. runs \in Seq(RunRows) /\ r \in 1 .. Len(runs) /\ runs[r] \in RunRows
  BY Types
<1>2. [runs[r] EXCEPT !.status = to] \in RunRows
  BY <1>1 DEF RunRows
<1>3. runs' = [runs EXCEPT ![r] = [runs[r] EXCEPT !.status = to]]
  BY DEF Drive
<1> QED
  BY <1>1, <1>2, <1>3, ExceptSeq DEF Drive, ActiveStatuses

Environment ==
    /\ \/ Tick
       \/ \E r \in DOMAIN runs, to \in {"RUNNING", "WAITING", "SUCCEEDED", "FAILED"} : Drive(r, to)
    /\ UNCHANGED <<ctl, srv, answers>>

LEMMA EnvironmentRefs ==
    ASSUME RefInv, Environment
    PROVE  RefInv'
<1>0. TypeOK
  BY DEF RefInv
<1>1. UNCHANGED <<schedule, versions, forecasts, inbox, rowLock, ctl, srv, answers>>
  BY DEF Environment, Tick, Drive
<1>2. now' \in 0 .. MaxTime
  BY <1>0, StoreAssumption, Types DEF Environment, Tick, Drive
<1>3. runs' \in Seq(RunRows)
  BY <1>0, DriveEffect, Types DEF Environment, Tick
<1>4. TypeOK'
  BY <1>0, <1>1, <1>2, <1>3, Types DEF TypeOK, StoreTypeOK, ControlTypeOK, AdmissionTypeOK
<1> QED
  BY <1>1, <1>4 DEF RefInv, CurrentVersionExists, CallsRefer, LocksHold, Exists

LEMMA RefInit == Init => RefInv
<1> SUFFICES ASSUME Init PROVE RefInv
  OBVIOUS
<1>1. TypeOK
  BY EmptyRows, StoreAssumption
     DEF Init, StoreInit, ControlInit, AdmissionInit, TypeOK, StoreTypeOK, ControlTypeOK, AdmissionTypeOK
<1> QED
  BY <1>1 DEF Init, StoreInit, ControlInit, AdmissionInit, RefInv, CurrentVersionExists, CallsRefer,
              LocksHold, Exists, NoSchedule, NoAction, NoDelivery, Locking

LEMMA RefStep == RefInv /\ [Next]_vars => RefInv'
<1> SUFFICES ASSUME RefInv, [Next]_vars PROVE RefInv'
  OBVIOUS
<1>1. CASE UNCHANGED vars
  BY <1>1 DEF vars, storeVars, RefInv, CurrentVersionExists, CallsRefer, LocksHold, Exists,
              TypeOK, StoreTypeOK, ControlTypeOK, AdmissionTypeOK
<1> QED
  BY <1>1, ControlRefs, AdmissionRefs, EnvironmentRefs DEF Next, Environment

(* Every table keeps its type and every reference its target: schedules    *)
(* point to versions of their own, calls and deliveries under way hold     *)
(* rows that exist, and a delivery's copy is the row it holds FOR UPDATE.  *)
THEOREM References == Spec => []RefInv
  BY RefInit, RefStep, PTL DEF Spec

(* TypeOK is an invariant of the tables and transactions (schedules.ts,    *)
(* trigger-inbox.ts) for every set of admins, servers and messages.        *)
THEOREM TypeCorrect == Spec => []TypeOK
<1>1. RefInv => TypeOK
  BY DEF RefInv
<1> QED
  BY <1>1, References, PTL

-----------------------------------------------------------------------------
(* The version history *)

(* A superseded version names a version that was inserted, and a version is *)
(* inserted together with its schedule or after it.                         *)
HistoryClosed ==
    \A v \in 1 .. Len(versions) :
        versions[v].next \in 0 .. Len(versions) /\ Exists(versions[v].owner)

(* The two parts of LinearHistory, over 1 to the length of the table. *)
LastIsCurrent ==
    \A s \in Schedules : Exists(s) =>
        \A v \in 1 .. Len(versions) :
            (versions[v].owner = s /\ versions[v].next = Null) <=> v = schedule[s].version

OneSuccessor ==
    \A v, w \in 1 .. Len(versions) :
        versions[v].next = w =>
            /\ v < w /\ versions[w].owner = versions[v].owner
            /\ \A u \in 1 .. Len(versions) : versions[u].next = w => u = v

HistoryInv == RefInv /\ HistoryClosed /\ LastIsCurrent /\ OneSuccessor

LEMMA LinearParts == HistoryInv => LinearHistory
<1> SUFFICES ASSUME HistoryInv PROVE LinearHistory
  OBVIOUS
<1>0. TypeOK /\ CurrentVersionExists /\ LastIsCurrent /\ OneSuccessor
  BY DEF HistoryInv, RefInv
<1>1. DOMAIN versions = 1 .. Len(versions)
  BY <1>0, Types
<1>2. ASSUME NEW s \in Schedules, Exists(s)
      PROVE  {v \in DOMAIN versions : versions[v].owner = s /\ versions[v].next = Null}
                 = {schedule[s].version}
  BY <1>0, <1>1, <1>2 DEF LastIsCurrent, CurrentVersionExists
<1> QED
  BY <1>0, <1>1, <1>2 DEF LinearHistory, OneSuccessor

(* A new schedule starts a chain of its own. *)
LEMMA StartKeepsHistory ==
    ASSUME HistoryInv, RefInv', NEW s \in Schedules, NEW c \in Configs, StartsHistory(s, c)
    PROVE  HistoryInv'
<1> DEFINE n == Len(versions) + 1
<1>0. TypeOK /\ CurrentVersionExists /\ HistoryClosed /\ LastIsCurrent /\ OneSuccessor /\ Len(versions) \in Nat
  BY Types DEF HistoryInv, RefInv
<1>1. VersionRow(s, c) \in VersionRows
  BY DEF VersionRow, VersionRows, Null
<1>2. /\ Len(versions') = n
      /\ \A i \in 1 .. Len(versions) : versions'[i] = versions[i]
      /\ versions'[n].owner = s /\ versions'[n].next = 0
  BY <1>0, <1>1, AppendRow, Types DEF StartsHistory, VersionRow, Null
<1>3. \A t \in Schedules : /\ t = s => schedule'[t].version = n /\ schedule'[t].status = "DRAFT"
                           /\ t # s => schedule'[t] = schedule[t]
  BY <1>0, Types DEF StartsHistory, PointTo, NewVersion
<1>4. \A v \in 1 .. Len(versions) : versions[v].owner \in Schedules /\ versions[v].owner # s
  BY <1>0, RowOwners DEF StartsHistory, HistoryClosed
<1>5. HistoryClosed'
  BY <1>0, <1>2, <1>3, <1>4 DEF HistoryClosed, Exists
<1>6. LastIsCurrent'
  <2> SUFFICES ASSUME NEW t \in Schedules, Exists(t)', NEW v \in 1 .. n
               PROVE  (versions'[v].owner = t /\ versions'[v].next = Null) <=> v = schedule'[t].version
    BY <1>2 DEF LastIsCurrent
  <2>1. CASE t = s
    BY <1>0, <1>2, <1>3, <1>4, <2>1 DEF Null
  <2>2. CASE t # s
    <3>1. Exists(t) /\ schedule'[t].version \in 1 .. Len(versions)
      BY <1>0, <1>3, <2>2 DEF Exists, CurrentVersionExists
    <3> QED
      BY <1>0, <1>2, <1>3, <2>2, <3>1 DEF LastIsCurrent, Null
  <2> QED
    BY <2>1, <2>2
<1>7. OneSuccessor'
  <2> SUFFICES ASSUME NEW v \in 1 .. n, NEW w \in 1 .. n, versions'[v].next = w
               PROVE  /\ v < w /\ versions'[w].owner = versions'[v].owner
                      /\ \A u \in 1 .. n : versions'[u].next = w => u = v
    BY <1>2 DEF OneSuccessor
  <2>1. v \in 1 .. Len(versions) /\ versions[v].next = w /\ w \in 1 .. Len(versions)
    BY <1>0, <1>2 DEF HistoryClosed
  <2> QED
    BY <1>0, <1>2, <2>1 DEF OneSuccessor
<1> QED
  BY <1>5, <1>6, <1>7 DEF HistoryInv

(* An edit moves the end of the chain of its schedule. *)
LEMMA EditKeepsHistory ==
    ASSUME HistoryInv, RefInv', NEW s \in Schedules, NEW v \in 1 .. Len(versions), NEW c \in Configs,
           ExtendsHistory(s, v, c)
    PROVE  HistoryInv'
<1> DEFINE n == Len(versions) + 1
           e == [versions[v] EXCEPT !.next = n]
<1>0. TypeOK /\ CurrentVersionExists /\ HistoryClosed /\ LastIsCurrent /\ OneSuccessor /\ Len(versions) \in Nat
  BY Types DEF HistoryInv, RefInv
<1>1. VersionRow(s, c) \in VersionRows
  BY DEF VersionRow, VersionRows, Null
<1>2. versions[v] \in VersionRows /\ e \in VersionRows
  <2>1. versions[v] \in VersionRows
    BY <1>0, Types
  <2> QED
    BY <1>0, <2>1 DEF VersionRows
<1>3. /\ versions' = Append([versions EXCEPT ![v] = e], VersionRow(s, c))
      /\ [versions EXCEPT ![v] = e] \in Seq(VersionRows)
      /\ Len([versions EXCEPT ![v] = e]) = Len(versions)
      /\ \A i \in 1 .. Len(versions) : [versions EXCEPT ![v] = e][i] = IF i = v THEN e ELSE versions[i]
  <2>1. versions' = Append([versions EXCEPT ![v] = e], VersionRow(s, c))
    BY DEF ExtendsHistory, NewVersion
  <2> HIDE DEF e
  <2>2. versions \in Seq(VersionRows)
    BY <1>0, Types
  <2> QED
    BY <1>2, <2>1, <2>2, ExceptSeq
<1>4. /\ Len(versions') = n
      /\ \A i \in 1 .. Len(versions) : i # v => versions'[i] = versions[i]
      /\ versions'[v].owner = s /\ versions'[v].next = n
      /\ versions'[n].owner = s /\ versions'[n].next = 0
  <2>1. e.owner = versions[v].owner /\ e.next = n /\ versions[v].owner = s
    BY <1>2 DEF VersionRows, ExtendsHistory
  <2> HIDE DEF e
  <2>2. /\ Len(versions') = Len(versions) + 1
        /\ \A i \in 1 .. Len(versions) : versions'[i] = [versions EXCEPT ![v] = e][i]
        /\ versions'[Len(versions) + 1] = VersionRow(s, c)
    BY <1>0, <1>1, <1>3, AppendRow
  <2> QED
    BY <1>3, <2>1, <2>2 DEF VersionRow, Null
<1> HIDE DEF e
<1>5. \A t \in Schedules : /\ t = s => /\ schedule'[t].version = n
                                       /\ schedule'[t].status = schedule[t].status
                           /\ t # s => schedule'[t] = schedule[t]
  BY <1>0, Types DEF ExtendsHistory, PointTo, NewVersion
<1>6. Exists(s) /\ v = schedule[s].version /\ versions[v].owner = s /\ versions[v].next = 0
  BY <1>0 DEF ExtendsHistory, Supersedes, LastIsCurrent, Null
<1>7. \A i \in 1 .. Len(versions) : versions[i].owner \in Schedules
  BY <1>0, RowOwners
<1>8. HistoryClosed'
  BY <1>0, <1>4, <1>5, <1>6, <1>7 DEF HistoryClosed, Exists
<1>9. LastIsCurrent'
  <2> SUFFICES ASSUME NEW t \in Schedules, Exists(t)', NEW i \in 1 .. n
               PROVE  (versions'[i].owner = t /\ versions'[i].next = Null) <=> i = schedule'[t].version
    BY <1>4 DEF LastIsCurrent
  <2>1. CASE t = s
    <3>1. \A j \in 1 .. Len(versions) : j # v => ~(versions[j].owner = s /\ versions[j].next = 0)
      BY <1>0, <1>6 DEF LastIsCurrent, Null
    <3> QED
      BY <1>0, <1>4, <1>5, <2>1, <3>1 DEF Null
  <2>2. CASE t # s
    <3>1. Exists(t) /\ schedule'[t].version \in 1 .. Len(versions) /\ versions[schedule'[t].version].owner = t
      BY <1>0, <1>5, <2>2 DEF Exists, CurrentVersionExists
    <3>2. i # v /\ i # n => ((versions[i].owner = t /\ versions[i].next = 0) <=> i = schedule[t].version)
      BY <1>0, <3>1 DEF LastIsCurrent, Null
    <3> QED
      BY <1>0, <1>4, <1>5, <1>6, <2>2, <3>1, <3>2 DEF Null
  <2> QED
    BY <2>1, <2>2
<1>10. OneSuccessor'
  <2> SUFFICES ASSUME NEW x \in 1 .. n, NEW w \in 1 .. n, versions'[x].next = w
               PROVE  /\ x < w /\ versions'[w].owner = versions'[x].owner
                      /\ \A u \in 1 .. n : versions'[u].next = w => u = x
    BY <1>4 DEF OneSuccessor
  <2>1. CASE x = v
    BY <1>0, <1>4, <2>1 DEF HistoryClosed
  <2>2. CASE x # v
    <3>0. x # n
      BY <1>0, <1>4
    <3>1a. x \in 1 .. Len(versions) /\ versions[x].next = w
      BY <1>0, <1>4, <2>2, <3>0
    <3>1. x \in 1 .. Len(versions) /\ versions[x].next = w /\ w \in 1 .. Len(versions)
      BY <1>0, <3>1a DEF HistoryClosed
    <3>2. /\ x < w /\ versions[w].owner = versions[x].owner
          /\ \A u \in 1 .. Len(versions) : versions[u].next = w => u = x
      BY <1>0, <3>1 DEF OneSuccessor
    <3>3. versions'[w].owner = versions[w].owner /\ versions'[x].owner = versions[x].owner
      BY <1>4, <1>6, <2>2, <3>1
    <3> QED
      BY <1>0, <1>4, <3>1, <3>2, <3>3
  <2> QED
    BY <2>1, <2>2
<1> QED
  BY <1>8, <1>9, <1>10 DEF HistoryInv

LEMMA HistoryStep == HistoryInv /\ [Next]_vars => HistoryInv'
<1> SUFFICES ASSUME HistoryInv, [Next]_vars PROVE HistoryInv'
  OBVIOUS
<1>0. RefInv /\ RefInv'
  BY RefStep DEF HistoryInv
<1>1. CASE /\ versions' = versions
           /\ \A s \in Schedules : schedule'[s].version = schedule[s].version /\ (Exists(s)' <=> Exists(s))
  <2>1. \A v \in 1 .. Len(versions) : versions[v].owner \in Schedules
    BY <1>0, RowOwners DEF RefInv
  <2>2. HistoryClosed'
    BY <1>1, <2>1 DEF HistoryInv, HistoryClosed
  <2>3. LastIsCurrent' /\ OneSuccessor'
    BY <1>1 DEF HistoryInv, LastIsCurrent, OneSuccessor
  <2> QED
    BY <1>0, <2>2, <2>3 DEF HistoryInv
<1>2. ASSUME NEW a \in Admins, ControlStep(a) PROVE HistoryInv'
  BY <1>0, <1>1, <1>2, ControlEffect, StartKeepsHistory, EditKeepsHistory DEF KeepsHistory
<1>3. ASSUME NEW p \in Servers, AdmissionStep(p), UNCHANGED ctl PROVE HistoryInv'
  BY <1>0, <1>1, <1>3, AdmissionRefs DEF Exists
<1>4. CASE Environment \/ UNCHANGED vars
  BY <1>1, <1>4 DEF Environment, Tick, Drive, vars, storeVars, Exists
<1> QED
  BY <1>2, <1>3, <1>4 DEF Next, Environment

LEMMA HistoryInit == Init => HistoryInv
<1> SUFFICES ASSUME Init PROVE HistoryInv
  OBVIOUS
<1>1. RefInv
  BY RefInit
<1>2. versions = <<>> /\ \A s \in Schedules : ~Exists(s)
  BY DEF Init, StoreInit, Exists, NoSchedule
<1> QED
  BY <1>1, <1>2 DEF HistoryInv, HistoryClosed, LastIsCurrent, OneSuccessor

(* The versions of every schedule form one chain that ends in its current  *)
(* version, for any number of admins that edit at once (appendVersion,     *)
(* schedules.ts): the guard of the supersede UPDATE is what carries it.    *)
THEOREM HistoryIsLinear == Spec => []LinearHistory
  BY HistoryInit, HistoryStep, LinearParts, PTL DEF Spec

-----------------------------------------------------------------------------
(* One run per message *)

(* Of the deliveries of one message at most one is past its insert, and     *)
(* until it commits nobody sees an inbox row.                               *)
InsertsAlone ==
    \A p \in Servers : srv[p].step \in {"inserted", "probed"} =>
        /\ inbox[srv[p].message].status = "ABSENT"
        /\ \A q \in Servers : (/\ srv[q].step \in {"inserted", "probed"}
                               /\ srv[q].message = srv[p].message) => q = p

(* Every run is the one its message's inbox row names, and every inbox row  *)
(* names a run of its message.                                              *)
RunsRecorded ==
    /\ \A r \in 1 .. Len(runs) :
          LET row == inbox[runs[r].message]
          IN  row.status # "ABSENT" /\ row.run = r /\ row.owner = runs[r].owner
    /\ \A d \in Messages : inbox[d].status # "ABSENT" =>
          inbox[d].run \in 1 .. Len(runs) /\ runs[inbox[d].run].message = d

(* An answer repeats what the inbox row says. *)
AnswersBacked ==
    \A d \in Messages : \A x \in answers[d] :
        inbox[d].status # "ABSENT" /\ x = <<inbox[d].owner, inbox[d].run>>

InboxInv == RefInv /\ InsertsAlone /\ RunsRecorded /\ AnswersBacked

LEMMA InboxGivesOneRun == InboxInv => OneRunPerMessage
<1> SUFFICES ASSUME InboxInv PROVE OneRunPerMessage
  OBVIOUS
<1>1. DOMAIN runs = 1 .. Len(runs)
  BY Types DEF InboxInv, RefInv
<1>2. \A q, r \in DOMAIN runs : runs[q].message = runs[r].message => q = r
  BY <1>1 DEF InboxInv, RunsRecorded
<1>3. ASSUME NEW d \in Messages, NEW x \in answers[d]
      PROVE  /\ answers[d] = {x} /\ x[2] \in DOMAIN runs
             /\ runs[x[2]].message = d /\ runs[x[2]].owner = x[1]
  <2>1. inbox[d].status # "ABSENT" /\ x = <<inbox[d].owner, inbox[d].run>> /\ answers[d] = {x}
    BY DEF InboxInv, AnswersBacked
  <2>2. inbox[d].run \in 1 .. Len(runs) /\ runs[inbox[d].run].message = d
    BY <2>1 DEF InboxInv, RunsRecorded
  <2> QED
    BY <1>1, <2>1, <2>2 DEF InboxInv, RunsRecorded
<1> QED
  BY <1>2, <1>3 DEF OneRunPerMessage

(* Steps that write neither the inbox nor what a run is about keep the      *)
(* record; so does a server that is not past its insert.                    *)
LEMMA RecordKept ==
    ASSUME InboxInv, UNCHANGED <<inbox, answers>>, Len(runs') = Len(runs),
           \A r \in 1 .. Len(runs) : runs'[r].message = runs[r].message /\ runs'[r].owner = runs[r].owner
    PROVE  RunsRecorded' /\ AnswersBacked'
<1>1. RunsRecorded'
  <2>1. \A r \in 1 .. Len(runs) :
          LET row == inbox[runs[r].message]
          IN  row.status # "ABSENT" /\ row.run = r /\ row.owner = runs[r].owner
    BY DEF InboxInv, RunsRecorded
  <2>2. \A d \in Messages : inbox[d].status # "ABSENT" =>
          inbox[d].run \in 1 .. Len(runs) /\ runs[inbox[d].run].message = d
    BY DEF InboxInv, RunsRecorded
  <2> QED
    BY <2>1, <2>2 DEF RunsRecorded
<1> QED
  BY <1>1 DEF InboxInv, AnswersBacked

LEMMA FewerInserts ==
    ASSUME InboxInv, NEW p \in Servers, \A q \in Servers : q # p => srv'[q] = srv[q],
           srv'[p].step \notin {"inserted", "probed"},
           \A q \in Servers : (q # p /\ srv[q].step \in {"inserted", "probed"}) =>
               inbox'[srv[q].message].status = "ABSENT"
    PROVE  InsertsAlone'
  BY DEF InboxInv, InsertsAlone

LEMMA RedeliveredInbox ==
    ASSUME InboxInv, NEW p \in Servers, Redelivered(p)
    PROVE  InsertsAlone' /\ RunsRecorded' /\ AnswersBacked'
<1> DEFINE d == srv[p].message
<1>0. TypeOK /\ LocksHold /\ InsertsAlone /\ RunsRecorded /\ AnswersBacked
  BY DEF InboxInv, RefInv
<1>1. d \in Messages /\ inbox[d].status # "ABSENT" /\ inbox[d] \in InboxRows /\ runs' = runs
  BY <1>0, Types DEF Redelivered, LocksHold
<1>2. \A e \in Messages : /\ inbox'[e].owner = inbox[e].owner /\ inbox'[e].run = inbox[e].run
                          /\ (inbox'[e].status = "ABSENT" <=> inbox[e].status = "ABSENT")
  <2>1. CASE inbox[d].owner = srv[p].target
    <3>1. inbox' = [inbox EXCEPT ![d].status = "DUPLICATE_COLLAPSED"] /\ inbox \in [Messages -> InboxRows]
      BY <1>0, <2>1, Types DEF Redelivered
    <3> QED
      BY <1>1, <3>1 DEF InboxRows
  <2>2. CASE inbox[d].owner # srv[p].target
    BY <2>2 DEF Redelivered
  <2> QED
    BY <2>1, <2>2
<1>3. InsertsAlone'
  <2>1. (\A q \in Servers : q # p => srv'[q] = srv[q]) /\ srv'[p] = NoDelivery
    BY <1>0, Types DEF Redelivered, Unlock
  <2>2. \A q \in Servers : srv[q].step \in {"inserted", "probed"} =>
            srv[q].message \in Messages /\ inbox[srv[q].message].status = "ABSENT"
    BY <1>0 DEF LocksHold, InsertsAlone
  <2> QED
    BY <1>2, <2>1, <2>2, FewerInserts DEF NoDelivery
<1>4. RunsRecorded'
  <2>1. \A r \in 1 .. Len(runs) : runs[r].message \in Messages
    BY <1>0, RowOwners
  <2> QED
    BY <1>0, <1>1, <1>2, <2>1 DEF RunsRecorded
<1>5. AnswersBacked'
  <2> SUFFICES ASSUME NEW e \in Messages, NEW x \in answers'[e]
               PROVE  inbox'[e].status # "ABSENT" /\ x = <<inbox'[e].owner, inbox'[e].run>>
    BY DEF AnswersBacked
  <2>1. CASE x \in answers[e]
    BY <1>0, <1>2, <2>1 DEF AnswersBacked
  <2>2. CASE x \notin answers[e]
    <3>1. e = d /\ inbox[d].owner = srv[p].target /\ x = <<srv[p].target, inbox[d].run>>
      BY <1>0, <1>1, <2>2, Types DEF Redelivered
    <3> QED
      BY <1>1, <1>2, <3>1
  <2> QED
    BY <2>1, <2>2
<1> QED
  BY <1>3, <1>4, <1>5

LEMMA CommitInbox ==
    ASSUME InboxInv, NEW p \in Servers, CommitRun(p)
    PROVE  InsertsAlone' /\ RunsRecorded' /\ AnswersBacked'
<1> DEFINE d == srv[p].message
           n == Len(runs) + 1
<1>0. TypeOK /\ RefInv /\ LocksHold /\ InsertsAlone /\ RunsRecorded /\ AnswersBacked /\ Len(runs) \in Nat
  BY Types DEF InboxInv, RefInv
<1>1. /\ d \in Messages /\ srv[p].target \in Schedules
      /\ \A q \in Servers : q # p => srv'[q] = srv[q]
      /\ srv'[p] = NoDelivery
      /\ Len(runs') = n
      /\ runs'[n].message = d /\ runs'[n].owner = srv[p].target
      /\ \A e \in Messages : e # d => inbox'[e] = inbox[e] /\ answers'[e] = answers[e]
      /\ inbox'[d] = [owner |-> srv[p].target, status |-> "PROCESSED", run |-> n]
      /\ answers'[d] = answers[d] \union {<<srv[p].target, n>>}
  <2>1. /\ d \in Messages /\ srv[p].target \in Schedules /\ Len(runs') = n /\ runs'[n] = NewRun(p)
        /\ inbox' = [inbox EXCEPT ![d] = [owner |-> srv[p].target, status |-> "PROCESSED", run |-> n]]
        /\ answers' = [answers EXCEPT ![d] = @ \union {<<srv[p].target, n>>}]
        /\ Unlock(p)
    BY <1>0, CommitEffect
  <2>2. NewRun(p).message = d /\ NewRun(p).owner = srv[p].target
    BY DEF NewRun
  <2>3. (\A q \in Servers : q # p => srv'[q] = srv[q]) /\ srv'[p] = NoDelivery
    BY <1>0, <2>1, Types DEF Unlock
  <2>4. inbox \in [Messages -> InboxRows] /\ answers \in [Messages -> SUBSET (Schedules \X Nat)]
    BY <1>0, Types
  <2> QED
    BY <2>1, <2>2, <2>3, <2>4
<1>2. \A r \in 1 .. Len(runs) : runs'[r].message = runs[r].message /\ runs'[r].owner = runs[r].owner
  <2> SUFFICES ASSUME NEW r \in 1 .. Len(runs)
               PROVE  runs'[r].message = runs[r].message /\ runs'[r].owner = runs[r].owner
    OBVIOUS
  <2>1. runs'[r] = OldRuns(p)[r]
    BY <1>0, CommitEffect
  <2> QED
    BY <1>0, <2>1, OldRunRows DEF SameRun
<1>3. inbox[d].status = "ABSENT" /\ \A q \in Servers :
          (srv[q].step \in {"inserted", "probed"} /\ srv[q].message = d) => q = p
  BY <1>0 DEF CommitRun, InsertsAlone
<1>4. InsertsAlone'
  <2>1. \A q \in Servers : srv[q].step \in {"inserted", "probed"} =>
            srv[q].message \in Messages /\ inbox[srv[q].message].status = "ABSENT"
    BY <1>0 DEF LocksHold, InsertsAlone
  <2> QED
    BY <1>1, <1>3, <2>1, FewerInserts DEF NoDelivery
<1>5. RunsRecorded'
  <2>1. ASSUME NEW r \in 1 .. n
        PROVE  LET row == inbox'[runs'[r].message]
               IN  row.status # "ABSENT" /\ row.run = r /\ row.owner = runs'[r].owner
    <3>1. CASE r = n
      BY <1>1, <3>1
    <3>2. CASE r \in 1 .. Len(runs)
      <4>1. runs[r].message \in Messages /\ runs[r].message # d
        BY <1>0, <1>3, <3>2, RowOwners DEF RunsRecorded
      <4> QED
        BY <1>0, <1>1, <1>2, <3>2, <4>1 DEF RunsRecorded
    <3> QED
      BY <1>0, <3>1, <3>2
  <2>2. ASSUME NEW e \in Messages, inbox'[e].status # "ABSENT"
        PROVE  inbox'[e].run \in 1 .. n /\ runs'[inbox'[e].run].message = e
    <3>1. CASE e = d
      BY <1>0, <1>1, <3>1
    <3>2. CASE e # d
      <4>1. inbox[e].run \in 1 .. Len(runs) /\ runs[inbox[e].run].message = e /\ inbox'[e] = inbox[e]
        BY <1>0, <1>1, <2>2, <3>2 DEF RunsRecorded
      <4> QED
        BY <1>0, <1>2, <4>1
    <3> QED
      BY <3>1, <3>2
  <2> QED
    BY <1>1, <2>1, <2>2 DEF RunsRecorded
<1>6. AnswersBacked'
  <2>1. answers[d] = {}
    BY <1>0, <1>1, <1>3 DEF AnswersBacked
  <2> QED
    BY <1>0, <1>1, <2>1 DEF AnswersBacked
<1> QED
  BY <1>4, <1>5, <1>6

LEMMA InboxStep == InboxInv /\ [Next]_vars => InboxInv'
<1> SUFFICES ASSUME InboxInv, [Next]_vars PROVE InsertsAlone' /\ RunsRecorded' /\ AnswersBacked'
  BY RefStep DEF InboxInv
<1>0. RefInv /\ TypeOK /\ InsertsAlone /\ RunsRecorded /\ AnswersBacked
  BY DEF InboxInv, RefInv
<1>1. ASSUME UNCHANGED <<inbox, runs, srv, answers>> PROVE InsertsAlone' /\ RunsRecorded' /\ AnswersBacked'
  BY <1>0, <1>1 DEF InsertsAlone, RunsRecorded, AnswersBacked
<1>2. ASSUME NEW a \in Admins, ControlStep(a), UNCHANGED <<srv, answers>>
      PROVE  InsertsAlone' /\ RunsRecorded' /\ AnswersBacked'
  BY <1>0, <1>1, <1>2, ControlEffect
<1>3. ASSUME NEW r \in DOMAIN runs, NEW to \in {"RUNNING", "WAITING", "SUCCEEDED", "FAILED"},
             Drive(r, to), UNCHANGED <<srv, answers>>
      PROVE  InsertsAlone' /\ RunsRecorded' /\ AnswersBacked'
  <2>1. \A q \in 1 .. Len(runs) : runs'[q].message = runs[q].message /\ runs'[q].owner = runs[q].owner
    <3> SUFFICES ASSUME NEW q \in 1 .. Len(runs)
                 PROVE  runs'[q].message = runs[q].message /\ runs'[q].owner = runs[q].owner
      OBVIOUS
    <3>1. runs'[q] = IF q = r THEN [runs[q] EXCEPT !.status = to] ELSE runs[q]
      BY <1>0, <1>3, DriveEffect
    <3> QED
      BY <1>0, <3>1, StatusWrite DEF SameRun
  <2>2. Len(runs') = Len(runs) /\ UNCHANGED inbox
    BY <1>0, <1>3, DriveEffect DEF Drive
  <2>3. RunsRecorded' /\ AnswersBacked'
    BY <1>3, <2>1, <2>2, RecordKept
  <2> QED
    BY <1>0, <1>3, <2>2, <2>3 DEF InsertsAlone
<1>4. ASSUME NEW p \in Servers, AdmissionStep(p)
      PROVE  InsertsAlone' /\ RunsRecorded' /\ AnswersBacked'
  <2>0. srv \in [Servers -> Deliveries]
    BY <1>0, Types
  <2>1. CASE Redelivered(p) \/ CommitRun(p)
    BY <2>1, RedeliveredInbox, CommitInbox
  <2>2. ASSUME UNCHANGED <<inbox, runs, answers>>, \A q \in Servers : q # p => srv'[q] = srv[q],
               srv'[p].step \notin {"inserted", "probed"}
        PROVE  InsertsAlone' /\ RunsRecorded' /\ AnswersBacked'
    BY <1>0, <2>2 DEF InsertsAlone, RunsRecorded, AnswersBacked
  <2>3. ASSUME NEW d \in Messages, NEW s \in Schedules, RunNow(p, d, s) \/ LockSchedule(p, d, s)
        PROVE  InsertsAlone' /\ RunsRecorded' /\ AnswersBacked'
    <3>1. UNCHANGED <<inbox, runs, answers>>
      BY <2>3 DEF RunNow, LockSchedule, storeVars, tableVars
    <3>2. (\A q \in Servers : q # p => srv'[q] = srv[q]) /\ srv'[p].step \in {"checked", "locked"}
      <4>1. CASE RunNow(p, d, s)
        BY <2>0, <4>1 DEF RunNow, NoDelivery
      <4>2. CASE LockSchedule(p, d, s)
        BY <2>0, <4>2 DEF LockSchedule
      <4> QED
        BY <2>3, <4>1, <4>2
    <3> QED
      BY <2>2, <3>1, <3>2
  <2>4. CASE Unlock(p) /\ UNCHANGED <<inbox, runs, answers>>
    BY <2>0, <2>2, <2>4 DEF Unlock, NoDelivery
  <2>5. CASE InsertInbox(p) /\ srv[p].row.status = "ACTIVE"
    <3>1. /\ UNCHANGED <<inbox, runs, answers>>
          /\ inbox[srv[p].message].status = "ABSENT" /\ ~InFlight(srv[p].message)
      BY <2>5 DEF InsertInbox, tableVars
    <3>2. \A q \in Servers : srv'[q].message = srv[q].message /\ (q # p => srv'[q] = srv[q])
      BY <2>0, <2>5 DEF InsertInbox, Deliveries
    <3>3. InsertsAlone'
      BY <1>0, <3>1, <3>2 DEF InsertsAlone, InFlight
    <3> QED
      BY <1>0, <3>1, <3>3 DEF RunsRecorded, AnswersBacked
  <2>6. CASE ProbeActive(p)
    <3>1. UNCHANGED <<inbox, runs, answers>>
      BY <2>6 DEF ProbeActive, storeVars
    <3>2. \A q \in Servers : /\ srv'[q].message = srv[q].message
                             /\ srv'[q].step \in {"inserted", "probed"} => srv[q].step \in {"inserted", "probed"}
      BY <2>0, <2>6 DEF ProbeActive, Deliveries
    <3>3. InsertsAlone'
      BY <1>0, <3>1, <3>2 DEF InsertsAlone
    <3> QED
      BY <1>0, <3>1, <3>3 DEF RunsRecorded, AnswersBacked
  <2> QED
    BY <1>4, <2>1, <2>3, <2>4, <2>5, <2>6 DEF AdmissionStep, InsertInbox, ServerCrash, tableVars
<1> QED
  BY <1>1, <1>2, <1>3, <1>4 DEF Next, Tick, vars, storeVars

LEMMA InboxInit == Init => InboxInv
  BY RefInit DEF Init, StoreInit, AdmissionInit, InboxInv, InsertsAlone, RunsRecorded, AnswersBacked,
                 NoInbox, NoDelivery

(* However often a message is delivered, to whichever schedule and to      *)
(* however many servers, with crashes between, there is at most one run    *)
(* for it and every answer names that run (recordTriggerDelivery).         *)
THEOREM OneRunEach == Spec => []OneRunPerMessage
  BY InboxInit, InboxStep, InboxGivesOneRun, PTL DEF Spec

-----------------------------------------------------------------------------
(* The concurrency policies *)

Active(r) == runs[r].status \in ActiveStatuses

(* What a delivery saw when it probed is still so: no other delivery to the *)
(* schedule gets past the row lock, and no run that has ended comes back.   *)
ProbeStands ==
    \A p \in Servers : (srv[p].step = "probed" /\ ~srv[p].active) => ~HasActiveRun(srv[p].target)

(* OverlapOnlyByPolicy, over 1 to the length of the table. *)
OverlapAllowed ==
    \A q, r \in 1 .. Len(runs) :
        (q < r /\ runs[q].owner = runs[r].owner /\ Active(q) /\ Active(r))
            => runs[r].policy \in {"QUEUE_AFTER_RUNNING", "ALLOW_PARALLEL"}

OverlapInv == RefInv /\ ProbeStands /\ OverlapAllowed

LEMMA OverlapParts == OverlapInv => OverlapOnlyByPolicy
<1> SUFFICES ASSUME OverlapInv PROVE OverlapOnlyByPolicy
  OBVIOUS
<1>1. DOMAIN runs = 1 .. Len(runs)
  BY Types DEF OverlapInv, RefInv
<1> QED
  BY <1>1 DEF OverlapOnlyByPolicy, OverlapInv, OverlapAllowed, Active

(* A step that starts no run and revives none makes no overlap. *)
LEMMA NoRevival ==
    ASSUME OverlapInv, TypeOK', Len(runs') = Len(runs),
           \A r \in 1 .. Len(runs) : SameRun(runs[r], runs'[r]) /\ (Active(r)' => Active(r))
    PROVE  OverlapAllowed' /\ \A s : HasActiveRun(s)' => HasActiveRun(s)
<1>1. OverlapAllowed'
  BY DEF OverlapInv, OverlapAllowed, SameRun
<1>2. DOMAIN runs = 1 .. Len(runs) /\ DOMAIN runs' = 1 .. Len(runs)
  <2>1. runs' \in Seq(RunRows)
    BY DEF TypeOK, StoreTypeOK
  <2> QED
    BY <2>1, Types DEF OverlapInv, RefInv
<1> QED
  BY <1>1, <1>2 DEF HasActiveRun, Active, SameRun

LEMMA CommitOverlap ==
    ASSUME OverlapInv, RefInv', NEW p \in Servers, CommitRun(p)
    PROVE  ProbeStands' /\ OverlapAllowed'
<1> DEFINE n == Len(runs) + 1
           t == srv[p].target
           policy == PolicyOf(srv[p].row.version)
<1>0. RefInv /\ TypeOK /\ LocksHold /\ ProbeStands /\ OverlapAllowed
  BY DEF OverlapInv, RefInv
<1>1. /\ Len(runs) \in Nat /\ Len(runs') = n /\ runs'[n] = NewRun(p) /\ Unlock(p)
      /\ DOMAIN runs = 1 .. Len(runs) /\ DOMAIN runs' = 1 .. n
      /\ NewRun(p).owner = t /\ NewRun(p).policy = policy /\ NewRun(p).policy \in ConcurrencyPolicies
      /\ NewRun(p).status = IF srv[p].active /\ policy = "SKIP_IF_RUNNING" THEN "CANCELLED" ELSE "PENDING"
  <2>1. Len(runs') = n /\ runs'[n] = NewRun(p) /\ Unlock(p) /\ runs' \in Seq(RunRows) /\ NewRun(p) \in RunRows
    BY <1>0, CommitEffect
  <2>2. NewRun(p).policy \in ConcurrencyPolicies
    BY <2>1 DEF RunRows
  <2>3. /\ Len(runs) \in Nat /\ DOMAIN runs = 1 .. Len(runs)
    BY <1>0, Types
  <2>4. DOMAIN runs' = 1 .. n
    BY <2>1, TableRows
  <2> QED
    BY <2>1, <2>2, <2>3, <2>4 DEF NewRun
<1>2. \A r \in 1 .. Len(runs) :
          /\ SameRun(runs[r], runs'[r]) /\ (Active(r)' => Active(r))
          /\ srv[p].active /\ policy = "CANCEL_PREVIOUS" /\ runs[r].owner = t => ~Active(r)'
  <2> SUFFICES ASSUME NEW r \in 1 .. Len(runs)
               PROVE  /\ SameRun(runs[r], runs'[r]) /\ (Active(r)' => Active(r))
                      /\ srv[p].active /\ policy = "CANCEL_PREVIOUS" /\ runs[r].owner = t => ~Active(r)'
    OBVIOUS
  <2>1. runs'[r] = OldRuns(p)[r]
    BY <1>0, CommitEffect
  <2> QED
    BY <1>0, <2>1, OldRunRows DEF Active, ActiveStatuses
<1>3. srv[p].step = "probed" /\ rowLock[t] = p
  BY <1>0 DEF CommitRun, LocksHold, Locking
<1>4. ProbeStands'
  <2> SUFFICES ASSUME NEW q \in Servers, srv'[q].step = "probed", ~srv'[q].active,
                      NEW r \in 1 .. n, runs'[r].owner = srv'[q].target, Active(r)'
               PROVE  FALSE
    BY <1>1 DEF ProbeStands, HasActiveRun, Active
  <2>1. q # p /\ srv'[q] = srv[q]
    BY <1>0, <1>1, Types DEF Unlock, NoDelivery
  <2>2. srv[q].target # t /\ ~HasActiveRun(srv[q].target)
    BY <1>0, <1>3, <2>1 DEF LocksHold, Locking, ProbeStands
  <2>3. r \in 1 .. Len(runs)
    BY <1>1, <2>1, <2>2
  <2> QED
    BY <1>1, <1>2, <2>1, <2>2, <2>3 DEF HasActiveRun, Active, SameRun
<1>5. OverlapAllowed'
  <2> SUFFICES ASSUME NEW q \in 1 .. n, NEW r \in 1 .. n, q < r, runs'[q].owner = runs'[r].owner,
                      Active(q)', Active(r)'
               PROVE  runs'[r].policy \in {"QUEUE_AFTER_RUNNING", "ALLOW_PARALLEL"}
    BY <1>1 DEF OverlapAllowed
  <2>1. CASE r = n
    <3>1. q \in 1 .. Len(runs) /\ runs[q].owner = t /\ Active(q)
      BY <1>1, <1>2, <2>1 DEF SameRun
    <3>2. HasActiveRun(t)
      BY <1>1, <3>1 DEF HasActiveRun, Active
    <3>3. srv[p].active
      BY <1>0, <1>3, <3>2 DEF ProbeStands
    <3>4. policy # "CANCEL_PREVIOUS"
      BY <1>2, <3>1, <3>3
    <3>5. policy # "SKIP_IF_RUNNING"
      BY <1>1, <2>1, <3>3 DEF Active, ActiveStatuses
    <3> QED
      BY <1>1, <2>1, <3>4, <3>5 DEF ConcurrencyPolicies
  <2>2. CASE r # n
    <3>1. q \in 1 .. Len(runs) /\ r \in 1 .. Len(runs)
      BY <1>1, <2>2
    <3> QED
      BY <1>0, <1>2, <3>1 DEF OverlapAllowed, SameRun
  <2> QED
    BY <2>1, <2>2
<1> QED
  BY <1>4, <1>5

LEMMA OverlapStep == OverlapInv /\ [Next]_vars => OverlapInv'
<1> SUFFICES ASSUME OverlapInv, [Next]_vars PROVE ProbeStands' /\ OverlapAllowed'
  BY RefStep DEF OverlapInv
<1>0. RefInv /\ TypeOK /\ ProbeStands /\ OverlapAllowed /\ RefInv' /\ TypeOK'
  BY RefStep DEF OverlapInv, RefInv
<1>1. ASSUME UNCHANGED <<runs, srv>> PROVE ProbeStands' /\ OverlapAllowed'
  BY <1>0, <1>1 DEF ProbeStands, OverlapAllowed, HasActiveRun, Active
<1>2. ASSUME NEW a \in Admins, ControlStep(a), UNCHANGED <<srv, answers>>
      PROVE  ProbeStands' /\ OverlapAllowed'
  BY <1>0, <1>1, <1>2, ControlEffect
<1>3. ASSUME NEW r \in DOMAIN runs, NEW to \in {"RUNNING", "WAITING", "SUCCEEDED", "FAILED"},
             Drive(r, to), UNCHANGED <<srv, answers>>
      PROVE  ProbeStands' /\ OverlapAllowed'
  <2>1. \A q \in 1 .. Len(runs) : SameRun(runs[q], runs'[q]) /\ (Active(q)' => Active(q))
    <3> SUFFICES ASSUME NEW q \in 1 .. Len(runs)
                 PROVE  SameRun(runs[q], runs'[q]) /\ (Active(q)' => Active(q))
      OBVIOUS
    <3>1. /\ runs'[q] = IF q = r THEN [runs[q] EXCEPT !.status = to] ELSE runs[q]
          /\ runs[r].status \in ActiveStatuses
      BY <1>0, <1>3, DriveEffect
    <3>2. SameRun(runs[q], runs[q]) /\ SameRun(runs[q], [runs[q] EXCEPT !.status = to])
      BY <1>0, StatusWrite
    <3>3. CASE q = r
      BY <3>1, <3>2, <3>3 DEF Active
    <3>4. CASE q # r
      BY <3>1, <3>2, <3>4 DEF Active
    <3> QED
      BY <3>3, <3>4
  <2>2. Len(runs') = Len(runs)
    BY <1>0, <1>3, DriveEffect
  <2>3. OverlapAllowed' /\ \A s : HasActiveRun(s)' => HasActiveRun(s)
    BY <1>0, <2>1, <2>2, NoRevival
  <2> QED
    BY <1>0, <1>3, <2>3 DEF ProbeStands, HasActiveRun
<1>4. ASSUME NEW p \in Servers, AdmissionStep(p)
      PROVE  ProbeStands' /\ OverlapAllowed'
  <2>0. srv \in [Servers -> Deliveries]
    BY <1>0, Types
  <2>1. CASE CommitRun(p)
    BY <1>0, <2>1, CommitOverlap
  <2>2. ASSUME UNCHANGED runs, \A q \in Servers : q # p => srv'[q] = srv[q], srv'[p].step # "probed"
        PROVE  ProbeStands' /\ OverlapAllowed'
    BY <1>0, <2>2 DEF ProbeStands, OverlapAllowed, HasActiveRun, Active
  <2>3. ASSUME NEW d \in Messages, NEW s \in Schedules, RunNow(p, d, s)
        PROVE  ProbeStands' /\ OverlapAllowed'
    <3>1. /\ UNCHANGED runs /\ \A q \in Servers : q # p => srv'[q] = srv[q]
          /\ srv'[p].step = "checked"
      BY <2>0, <2>3 DEF RunNow, storeVars, NoDelivery
    <3> QED
      BY <2>2, <3>1
  <2>4. ASSUME NEW d \in Messages, NEW s \in Schedules, LockSchedule(p, d, s)
        PROVE  ProbeStands' /\ OverlapAllowed'
    <3>1. /\ UNCHANGED runs /\ \A q \in Servers : q # p => srv'[q] = srv[q]
          /\ srv'[p].step = "locked"
      BY <2>0, <2>4 DEF LockSchedule, tableVars
    <3> QED
      BY <2>2, <3>1
  <2>5. CASE Unlock(p) /\ UNCHANGED runs
    BY <2>0, <2>2, <2>5 DEF Unlock, NoDelivery
  <2>6. CASE InsertInbox(p) /\ srv[p].row.status = "ACTIVE"
    <3>1. /\ UNCHANGED runs /\ \A q \in Servers : q # p => srv'[q] = srv[q]
          /\ srv'[p].step = "inserted"
      BY <2>0, <2>6 DEF InsertInbox, tableVars, Deliveries
    <3> QED
      BY <2>2, <3>1
  <2>7. CASE ProbeActive(p)
    <3>1. UNCHANGED runs /\ \A q \in Servers : q # p => srv'[q] = srv[q]
      BY <2>0, <2>7 DEF ProbeActive, storeVars
    <3>2. srv'[p].target = srv[p].target /\ srv'[p].active = HasActiveRun(srv[p].target)
      BY <2>0, <2>7 DEF ProbeActive, Deliveries
    <3> QED
      BY <1>0, <3>1, <3>2 DEF ProbeStands, OverlapAllowed, HasActiveRun, Active
  <2> QED
    BY <1>4, <2>1, <2>3, <2>4, <2>5, <2>6, <2>7
       DEF AdmissionStep, InsertInbox, Redelivered, ServerCrash, tableVars
<1> QED
  BY <1>1, <1>2, <1>3, <1>4 DEF Next, Tick, vars, storeVars

LEMMA OverlapInit == Init => OverlapInv
  BY RefInit DEF Init, StoreInit, AdmissionInit, OverlapInv, ProbeStands, OverlapAllowed, NoDelivery

(* Two runs of a schedule are active together only if the policy the       *)
(* younger one pinned allows it, for any number of servers: the row lock   *)
(* from the probe to the commit is what carries it (recordTriggerDelivery, *)
(* resolveConcurrencyPolicy).                                              *)
THEOREM PoliciesHold == Spec => []OverlapOnlyByPolicy
  BY OverlapInit, OverlapStep, OverlapParts, PTL DEF Spec

-----------------------------------------------------------------------------
(* What a run pins *)

RunsRefer == \A r \in 1 .. Len(runs) : runs[r].version \in 1 .. Len(versions)

PinInv == RefInv /\ RunsRefer

(* The body of RunsPinTheirVersion: what new runs pin, and what old runs keep. *)
NewRunsPin ==
    \A r \in DOMAIN runs' \ DOMAIN runs :
        LET s == runs'[r].owner
            v == runs'[r].version
        IN  /\ schedule[s].status = "ACTIVE" /\ schedule[s].version = v
            /\ runs'[r].policy = versions[v].config.policy
            /\ runs'[r].shadow = versions[v].config.shadow

OldRunsKeep ==
    \A r \in DOMAIN runs :
        /\ runs'[r].version = runs[r].version
        /\ versions'[runs[r].version].config = versions[runs[r].version].config
        /\ runs[r].status \notin ActiveStatuses => runs'[r] = runs[r]

(* A step that starts no run. *)
LEMMA NoNewRun ==
    ASSUME PinInv, RefInv', HistoryGrows, Len(runs') = Len(runs),
           \A r \in 1 .. Len(runs) : /\ SameRun(runs[r], runs'[r])
                                     /\ ~Active(r) => runs'[r] = runs[r]
    PROVE  RunsRefer' /\ NewRunsPin /\ OldRunsKeep
<1>1. DOMAIN runs = 1 .. Len(runs) /\ DOMAIN runs' = 1 .. Len(runs) /\ Len(versions) \in Nat
  <2>1. runs' \in Seq(RunRows)
    BY DEF RefInv, TypeOK, StoreTypeOK
  <2> QED
    BY <2>1, Types DEF PinInv, RefInv
<1>2. RunsRefer'
  BY <1>1 DEF PinInv, RunsRefer, HistoryGrows, SameRun
<1>3. OldRunsKeep
  BY <1>1 DEF PinInv, RunsRefer, HistoryGrows, SameRun, OldRunsKeep, Active
<1> QED
  BY <1>1, <1>2, <1>3 DEF NewRunsPin

LEMMA CommitPins ==
    ASSUME PinInv, NEW p \in Servers, CommitRun(p)
    PROVE  RunsRefer' /\ NewRunsPin /\ OldRunsKeep
<1> DEFINE n == Len(runs) + 1
           v == srv[p].row.version
<1>0. RefInv /\ TypeOK /\ RunsRefer
  BY DEF PinInv, RefInv
<1>1. /\ Len(runs) \in Nat /\ Len(runs') = n /\ runs'[n] = NewRun(p) /\ runs' \in Seq(RunRows)
      /\ srv[p].row = schedule[srv[p].target] /\ v \in 1 .. Len(versions)
      /\ UNCHANGED <<schedule, versions>>
  <2>1. Len(runs) \in Nat
    BY <1>0, Types
  <2> QED
    BY <1>0, <2>1, CommitEffect
<1>2. DOMAIN runs = 1 .. Len(runs) /\ DOMAIN runs' = 1 .. n
  BY <1>0, <1>1, Types, TableRows
<1>3. /\ NewRun(p).owner = srv[p].target /\ NewRun(p).version = v
      /\ NewRun(p).policy = versions[v].config.policy /\ NewRun(p).shadow = versions[v].config.shadow
  BY DEF NewRun, PolicyOf
<1>4. srv[p].row.status = "ACTIVE"
  BY <1>0 DEF CommitRun, RefInv, LocksHold
<1>5. \A r \in 1 .. Len(runs) : runs'[r].version = runs[r].version /\ (~Active(r) => runs'[r] = runs[r])
  <2> SUFFICES ASSUME NEW r \in 1 .. Len(runs)
               PROVE  runs'[r].version = runs[r].version /\ (~Active(r) => runs'[r] = runs[r])
    OBVIOUS
  <2>1. runs'[r] = OldRuns(p)[r]
    BY <1>0, CommitEffect
  <2> QED
    BY <1>0, <2>1, OldRunRows DEF Active, SameRun
<1>6. RunsRefer'
  <2> SUFFICES ASSUME NEW r \in 1 .. n PROVE runs'[r].version \in 1 .. Len(versions)
    BY <1>1 DEF RunsRefer
  <2>1. CASE r = n
    BY <1>1, <1>3, <2>1
  <2>2. CASE r \in 1 .. Len(runs)
    BY <1>0, <1>5, <2>2 DEF RunsRefer
  <2> QED
    BY <1>1, <2>1, <2>2
<1>7. NewRunsPin
  BY <1>1, <1>2, <1>3, <1>4 DEF NewRunsPin
<1>8. OldRunsKeep
  BY <1>1, <1>2, <1>5 DEF OldRunsKeep, Active
<1> QED
  BY <1>6, <1>7, <1>8

LEMMA PinStep == PinInv /\ [Next]_vars => PinInv' /\ NewRunsPin /\ OldRunsKeep
<1> SUFFICES ASSUME PinInv, [Next]_vars PROVE RunsRefer' /\ NewRunsPin /\ OldRunsKeep
  BY RefStep DEF PinInv
<1>0. RefInv /\ TypeOK /\ RefInv' /\ Len(versions) \in Nat
  BY RefStep, Types DEF PinInv, RefInv
<1>1. \A r \in 1 .. Len(runs) : SameRun(runs[r], runs[r])
  BY DEF SameRun
<1>2. UNCHANGED <<versions, schedule>> => HistoryGrows
  BY <1>0 DEF HistoryGrows, Exists
<1>3. ASSUME NEW a \in Admins, ControlStep(a) PROVE RunsRefer' /\ NewRunsPin /\ OldRunsKeep
  <2>1. HistoryGrows /\ runs' = runs
    BY <1>0, <1>3, ControlGrows, ControlEffect
  <2> QED
    BY <1>0, <1>1, <2>1, NoNewRun
<1>4. ASSUME NEW r \in DOMAIN runs, NEW to \in {"RUNNING", "WAITING", "SUCCEEDED", "FAILED"},
             Drive(r, to)
      PROVE  RunsRefer' /\ NewRunsPin /\ OldRunsKeep
  <2>1. \A q \in 1 .. Len(runs) : SameRun(runs[q], runs'[q]) /\ (~Active(q) => runs'[q] = runs[q])
    <3> SUFFICES ASSUME NEW q \in 1 .. Len(runs)
                 PROVE  SameRun(runs[q], runs'[q]) /\ (~Active(q) => runs'[q] = runs[q])
      OBVIOUS
    <3>1. /\ runs'[q] = IF q = r THEN [runs[q] EXCEPT !.status = to] ELSE runs[q]
          /\ runs[r].status \in ActiveStatuses
      BY <1>0, <1>4, DriveEffect
    <3>2. SameRun(runs[q], runs[q]) /\ SameRun(runs[q], [runs[q] EXCEPT !.status = to])
      BY <1>0, StatusWrite
    <3>3. CASE q = r
      BY <3>1, <3>2, <3>3 DEF Active
    <3>4. CASE q # r
      BY <3>1, <3>2, <3>4
    <3> QED
      BY <3>3, <3>4
  <2>2. Len(runs') = Len(runs) /\ HistoryGrows
    BY <1>0, <1>2, <1>4, DriveEffect DEF Drive
  <2> QED
    BY <1>0, <2>1, <2>2, NoNewRun
<1>5. ASSUME NEW p \in Servers, AdmissionStep(p), UNCHANGED ctl
      PROVE  RunsRefer' /\ NewRunsPin /\ OldRunsKeep
  <2>1. CASE CommitRun(p)
    BY <2>1, CommitPins
  <2>2. CASE ~CommitRun(p)
    <3>1. runs' = runs
      BY <1>5, <2>2 DEF AdmissionStep, RunNow, LockSchedule, Redelivered, InsertInbox, ProbeActive,
                        ServerCrash, storeVars, tableVars
    <3>2. HistoryGrows
      BY <1>0, <1>2, <1>5, AdmissionRefs
    <3> QED
      BY <1>0, <1>1, <3>1, <3>2, NoNewRun
  <2> QED
    BY <2>1, <2>2
<1>6. CASE Tick \/ UNCHANGED vars
  <2>1. runs' = runs /\ HistoryGrows
    BY <1>2, <1>6 DEF Tick, vars, storeVars
  <2> QED
    BY <1>0, <1>1, <2>1, NoNewRun
<1> QED
  BY <1>3, <1>4, <1>5, <1>6 DEF Next

LEMMA PinInit == Init => PinInv
  BY RefInit DEF Init, StoreInit, PinInv, RunsRefer

(* At the instant a run appears its schedule is ACTIVE and the run pins    *)
(* what is current, and afterwards neither the run's pins nor a run that   *)
(* has ended change (recordTriggerDelivery, CANCEL_PREVIOUS, appendVersion).*)
THEOREM PinsHold == Spec => RunsPinTheirVersion
<1>1. NewRunsPin /\ OldRunsKeep <=>
        /\ \A r \in DOMAIN runs' \ DOMAIN runs :
             LET s == runs'[r].owner
                 v == runs'[r].version
             IN  /\ schedule[s].status = "ACTIVE" /\ schedule[s].version = v
                 /\ runs'[r].policy = versions[v].config.policy
                 /\ runs'[r].shadow = versions[v].config.shadow
        /\ \A r \in DOMAIN runs :
             /\ runs'[r].version = runs[r].version
             /\ versions'[runs[r].version].config = versions[runs[r].version].config
             /\ runs[r].status \notin ActiveStatuses => runs'[r] = runs[r]
  BY DEF NewRunsPin, OldRunsKeep
<1> QED
  BY <1>1, PinInit, PinStep, PTL DEF Spec, RunsPinTheirVersion

-----------------------------------------------------------------------------
(* Deletion, with one admin at a time *)

(* A deleted schedule is disabled and has no live run. *)
DeletedAtRest ==
    \A s \in Schedules : schedule[s].deleted => schedule[s].status = "DISABLED" /\ ~HasActiveRun(s)

(* No other admin acts, so the copy an action of admin a decided on is      *)
(* still the row; past the probe of DELETE the schedule is quiet.           *)
ActsAlone(a) ==
    /\ \A b \in Admins : b # a => ctl[b].action = "NONE"
    /\ ctl[a].action # "NONE" => ctl[a].row = schedule[ctl[a].target]
    /\ ctl[a].action \in Actions => Permits(ctl[a].action, ctl[a].row)
    /\ ctl[a].action = "ACTIVATE" => ctl[a].row.status = "PAUSED"
    /\ ctl[a].action = "TOMBSTONE" =>
          ctl[a].row.status # "ACTIVE" /\ ~HasActiveRun(ctl[a].target)

SerialInv(a) == DeletedAtRest /\ ActsAlone(a)

Kept == \A s \in Schedules : StaysDeleted(s)

(* What the permissions say of the row. *)
LEMMA PermitsSay ==
    ASSUME NEW row
    PROVE  /\ Permits("EDIT_DRAFT", row) <=> row.status # "DISABLED"
           /\ Permits("ENABLE", row) <=> (row.status # "ACTIVE" /\ ~row.deleted)
           /\ Permits("PAUSE", row) <=> row.status = "ACTIVE"
           /\ Permits("RESUME", row) <=> row.status = "PAUSED"
           /\ Permits("DISABLE", row) <=> row.status # "DISABLED"
           /\ Permits("DELETE", row) <=> row.status # "ACTIVE"
  BY DEF Permits

(* The driver and the deliveries start no run of a schedule that is not     *)
(* ACTIVE: the delivery's copy of the row is the row it holds.              *)
LEMMA RunsNeedActive ==
    ASSUME RefInv, RefInv',
           \/ \E p \in Servers : AdmissionStep(p)
           \/ Environment
    PROVE  /\ UNCHANGED schedule
           /\ \A s \in Schedules : HasActiveRun(s)' => HasActiveRun(s) \/ schedule[s].status = "ACTIVE"
<1>0. /\ TypeOK /\ runs \in Seq(RunRows) /\ DOMAIN runs = 1 .. Len(runs) /\ Len(runs) \in Nat
      /\ runs' \in Seq(RunRows) /\ DOMAIN runs' = 1 .. Len(runs')
  <2>1. TypeOK /\ TypeOK'
    BY DEF RefInv
  <2>2. runs \in Seq(RunRows) /\ runs' \in Seq(RunRows)
    BY <2>1 DEF TypeOK, StoreTypeOK
  <2> QED
    BY <2>1, <2>2, TableRows
<1>1. CASE UNCHANGED <<schedule, runs>>
  BY <1>1 DEF HasActiveRun
<1>2. ASSUME NEW p \in Servers, CommitRun(p)
      PROVE  /\ UNCHANGED schedule
             /\ \A s \in Schedules :
                   HasActiveRun(s)' => HasActiveRun(s) \/ schedule[s].status = "ACTIVE"
  <2>1. /\ UNCHANGED schedule /\ Len(runs') = Len(runs) + 1
        /\ \A r \in 1 .. Len(runs) : runs'[r] = OldRuns(p)[r]
        /\ runs'[Len(runs) + 1].owner = srv[p].target
    <3>1. /\ UNCHANGED schedule /\ Len(runs') = Len(runs) + 1
          /\ \A r \in 1 .. Len(runs) : runs'[r] = OldRuns(p)[r]
          /\ runs'[Len(runs) + 1] = NewRun(p)
      BY <1>2, CommitEffect
    <3>2. NewRun(p).owner = srv[p].target
      BY DEF NewRun
    <3> QED
      BY <3>1, <3>2
  <2>2. schedule[srv[p].target].status = "ACTIVE"
    BY <1>2 DEF CommitRun, RefInv, LocksHold, Locking
  <2>3. \A r \in 1 .. Len(runs) : /\ runs'[r].owner = runs[r].owner
                                  /\ runs'[r].status \in ActiveStatuses => runs[r].status \in ActiveStatuses
    BY <1>0, <2>1, OldRunRows DEF SameRun, ActiveStatuses
  <2>4. \A r \in 1 .. Len(runs') : r \in 1 .. Len(runs) \/ r = Len(runs) + 1
    BY <1>0, <2>1
  <2> QED
    BY <1>0, <2>1, <2>2, <2>3, <2>4 DEF HasActiveRun
<1>3. ASSUME NEW r \in DOMAIN runs, NEW to \in {"RUNNING", "WAITING", "SUCCEEDED", "FAILED"},
             Drive(r, to)
      PROVE  /\ UNCHANGED schedule
             /\ \A s \in Schedules : HasActiveRun(s)' => HasActiveRun(s)
  <2>1. /\ runs[r].status \in ActiveStatuses /\ Len(runs') = Len(runs)
        /\ \A q \in 1 .. Len(runs) :
              runs'[q] = IF q = r THEN [runs[q] EXCEPT !.status = to] ELSE runs[q]
    BY <1>0, <1>3, DriveEffect
  <2>2. \A q \in 1 .. Len(runs) : [runs[q] EXCEPT !.status = to].owner = runs[q].owner
    BY <1>0, StatusWrite DEF SameRun
  <2> QED
    BY <1>0, <1>3, <2>1, <2>2 DEF HasActiveRun, Drive
<1>4. ASSUME NEW p \in Servers, AdmissionStep(p), ~CommitRun(p)
      PROVE  UNCHANGED <<schedule, runs>>
  BY <1>4 DEF AdmissionStep, RunNow, LockSchedule, Redelivered, InsertInbox, ProbeActive, ServerCrash,
              storeVars, tableVars
<1> QED
  BY <1>1, <1>2, <1>3, <1>4 DEF Environment, Tick

LEMMA OthersKeepDeletion ==
    ASSUME RefInv, RefInv', NEW a \in Admins, SerialInv(a), UNCHANGED ctl,
           \/ \E p \in Servers : AdmissionStep(p)
           \/ Environment
    PROVE  SerialInv(a)' /\ Kept
<1>1. /\ UNCHANGED schedule
      /\ \A s \in Schedules : HasActiveRun(s)' => HasActiveRun(s) \/ schedule[s].status = "ACTIVE"
  BY RunsNeedActive
<1>2. DeletedAtRest' /\ Kept
  BY <1>1 DEF SerialInv, DeletedAtRest, Kept, StaysDeleted
<1>3. ctl[a].action = "TOMBSTONE" => ~HasActiveRun(ctl[a].target)'
  <2> SUFFICES ASSUME ctl[a].action = "TOMBSTONE" PROVE ~HasActiveRun(ctl[a].target)'
    OBVIOUS
  <2>1. PICK s \in Schedules : s = ctl[a].target
    BY DEF RefInv, CallsRefer
  <2>2. ~HasActiveRun(s) /\ schedule[s].status # "ACTIVE"
    BY <2>1 DEF SerialInv, ActsAlone
  <2>3. ~HasActiveRun(s)'
    BY <1>1, <2>2
  <2> QED
    BY <2>1, <2>3 DEF HasActiveRun
<1>4. ActsAlone(a)'
  BY <1>1, <1>3 DEF SerialInv, ActsAlone
<1> QED
  BY <1>2, <1>4 DEF SerialInv

(* The admin writes and is done: it wrote a schedule that was not deleted,  *)
(* or deleted one that is quiet.                                            *)
LEMMA AdminWrites ==
    ASSUME NEW a \in Admins, SerialInv(a), UNCHANGED runs,
           ctl'[a].action = "NONE", \A b \in Admins : b # a => ctl'[b] = ctl[b],
           \A s \in Schedules :
              \/ schedule'[s] = schedule[s]
              \/ ~schedule[s].deleted /\ ~schedule'[s].deleted
              \/ schedule'[s].status = "DISABLED" /\ schedule'[s].deleted /\ ~HasActiveRun(s)
    PROVE  SerialInv(a)' /\ Kept
<1>1. DeletedAtRest'
  BY DEF SerialInv, DeletedAtRest, HasActiveRun
<1>2. ActsAlone(a)'
  BY DEF SerialInv, ActsAlone, Actions
<1>3. Kept
  BY DEF SerialInv, DeletedAtRest, Kept, StaysDeleted
<1> QED
  BY <1>1, <1>2, <1>3 DEF SerialInv

LEMMA AdminKeepsDeletion ==
    ASSUME RefInv, NEW a \in Admins, SerialInv(a), ControlStep(a)
    PROVE  SerialInv(a)' /\ Kept
<1>0. /\ TypeOK /\ ctl \in [Admins -> Calls] /\ schedule \in [Schedules -> ScheduleRows]
      /\ \A s \in Schedules : schedule[s].deleted => schedule[s].status = "DISABLED"
      /\ UNCHANGED runs
  BY Types, ControlEffect DEF RefInv, SerialInv, DeletedAtRest
<1>1. PICK c \in Calls : c = ctl[a]
  BY <1>0
<1>2. /\ c.action # "NONE" => c.target \in Schedules /\ c.row = schedule[c.target]
      /\ c.action \in Actions => Permits(c.action, c.row)
      /\ c.action = "ACTIVATE" => c.row.status = "PAUSED"
      /\ c.action = "TOMBSTONE" => c.row.status # "ACTIVE" /\ ~HasActiveRun(c.target)
  BY <1>1 DEF SerialInv, ActsAlone, RefInv, CallsRefer
<1>3. ASSUME Done(a) PROVE ctl'[a].action = "NONE" /\ \A b \in Admins : b # a => ctl'[b] = ctl[b]
  BY <1>0, <1>3 DEF Done, NoAction
<1>4. ASSUME Done(a), UNCHANGED schedule PROVE SerialInv(a)' /\ Kept
  BY <1>0, <1>3, <1>4, AdminWrites
<1>5. ASSUME NEW s \in Schedules, ~Exists(s), NEW status, PointTo(s, status),
             ctl'[a].action = "NONE", \A b \in Admins : b # a => ctl'[b] = ctl[b]
      PROVE  SerialInv(a)' /\ Kept
  <2>1. ~schedule[s].deleted /\ ~schedule'[s].deleted /\ \A t \in Schedules : t # s => schedule'[t] = schedule[t]
    BY <1>0, <1>5 DEF Exists, PointTo
  <2> QED
    BY <1>0, <1>5, <2>1, AdminWrites
<1>6. ASSUME NEW s \in Schedules, NEW d \in Configs, CreateSchedule(a, s, d) PROVE SerialInv(a)' /\ Kept
  <2>1. ctl'[a].action = "NONE" /\ \A b \in Admins : b # a => ctl'[b] = ctl[b]
    BY <1>6 DEF CreateSchedule, NoAction
  <2> QED
    BY <1>5, <1>6, <2>1 DEF CreateSchedule
<1>7. ASSUME NEW s \in Schedules, DuplicateSchedule(a, s) PROVE SerialInv(a)' /\ Kept
  BY <1>3, <1>5, <1>7 DEF DuplicateSchedule
<1>8. ASSUME NEW action \in Actions, NEW s \in Schedules, NEW at \in 0 .. MaxTime, Load(a, action, s, at)
      PROVE  SerialInv(a)' /\ Kept
  <2> DEFINE new == [action |-> action, target |-> s, row |-> schedule[s], at |-> at]
  <2>1. ctl' = [ctl EXCEPT ![a] = new] /\ UNCHANGED schedule /\ Permits(action, schedule[s])
    BY <1>8 DEF Load, storeVars
  <2>2. ctl'[a] = new /\ \A b \in Admins : b # a => ctl'[b] = ctl[b]
    BY <1>0, <2>1
  <2>3. /\ ctl'[a].action = action /\ ctl'[a].target = s /\ ctl'[a].row = schedule[s]
        /\ action # "ACTIVATE" /\ action # "TOMBSTONE"
    BY <2>2 DEF Actions
  <2>4. ActsAlone(a)'
    BY <2>1, <2>2, <2>3 DEF SerialInv, ActsAlone, Permits
  <2>5. DeletedAtRest' /\ Kept
    BY <1>0, <2>1 DEF SerialInv, DeletedAtRest, Kept, StaysDeleted, HasActiveRun
  <2> QED
    BY <2>4, <2>5 DEF SerialInv
<1>9. ASSUME NEW d \in Configs, EditDraft(a, d) PROVE SerialInv(a)' /\ Kept
  <2>1. c.action = "EDIT_DRAFT" /\ Done(a)
    BY <1>1, <1>9 DEF EditDraft, MayWrite
  <2>2. c.target \in Schedules /\ ~schedule[c.target].deleted
    BY <1>0, <1>2, <2>1, PermitsSay DEF Actions
  <2>3. CASE UNCHANGED schedule
    BY <1>4, <2>1, <2>3
  <2>4. CASE PointTo(c.target, schedule[c.target].status)
    <3>1. ~schedule'[c.target].deleted /\ \A t \in Schedules : t # c.target => schedule'[t] = schedule[t]
      BY <1>0, <2>2, <2>4 DEF PointTo
    <3> QED
      BY <1>0, <1>3, <2>1, <2>2, <3>1, AdminWrites
  <2> QED
    BY <1>1, <1>9, <2>3, <2>4 DEF EditDraft
<1>10. CASE \/ EnableSchedule(a) \/ PauseSchedule(a) \/ DisableSchedule(a) \/ ResumeSchedule(a)
  <2>1. PICK status : SetStatus(a, status)
    BY <1>10 DEF EnableSchedule, PauseSchedule, DisableSchedule, ResumeSchedule
  <2>2. c.action \in {"ENABLE", "PAUSE", "DISABLE", "ACTIVATE"}
    BY <1>1, <1>10 DEF EnableSchedule, PauseSchedule, DisableSchedule, ResumeSchedule, MayWrite
  <2>3. c.target \in Schedules /\ ~schedule[c.target].deleted
    BY <1>0, <1>2, <2>2, PermitsSay DEF Actions
  <2>4. schedule' = [schedule EXCEPT ![c.target].status = status] /\ Done(a)
    BY <1>1, <2>1 DEF SetStatus
  <2>5. /\ schedule'[c.target].deleted = schedule[c.target].deleted
        /\ \A t \in Schedules : t # c.target => schedule'[t] = schedule[t]
    BY <1>0, <2>3, <2>4 DEF ScheduleRows
  <2> QED
    BY <1>0, <1>3, <2>3, <2>4, <2>5, AdminWrites
<1>11. CASE DeleteSchedule(a)
  <2>1. c.action = "TOMBSTONE" /\ c.target \in Schedules /\ ~HasActiveRun(c.target) /\ Done(a)
    BY <1>1, <1>2, <1>11 DEF DeleteSchedule, MayWrite
  <2>2. schedule' = [schedule EXCEPT ![c.target].status = "DISABLED", ![c.target].deleted = TRUE]
    BY <1>1, <1>11 DEF DeleteSchedule
  <2>3. /\ schedule'[c.target].status = "DISABLED" /\ schedule'[c.target].deleted
        /\ \A t \in Schedules : t # c.target => schedule'[t] = schedule[t]
    BY <1>0, <2>1, <2>2 DEF ScheduleRows
  <2> QED
    BY <1>0, <1>3, <2>1, <2>3, AdminWrites
<1>12. ASSUME NEW to, ctl' = [ctl EXCEPT ![a].action = to], UNCHANGED schedule,
              \/ to = "ACTIVATE" /\ c.action = "RESUME"
              \/ to = "TOMBSTONE" /\ c.action = "DELETE" /\ ~HasActiveRun(c.target)
       PROVE  SerialInv(a)' /\ Kept
  <2>1. /\ ctl'[a].action = to /\ ctl'[a].target = c.target /\ ctl'[a].row = c.row
        /\ \A b \in Admins : b # a => ctl'[b] = ctl[b]
    BY <1>0, <1>1, <1>12 DEF Calls
  <2>2. /\ to \notin Actions /\ c.row = schedule[c.target]
        /\ to = "ACTIVATE" => c.row.status = "PAUSED"
        /\ to = "TOMBSTONE" => c.row.status # "ACTIVE" /\ ~HasActiveRun(c.target)
    BY <1>2, <1>12, PermitsSay DEF Actions
  <2>3. to = "TOMBSTONE" => ~HasActiveRun(ctl[a].target)'
    BY <1>0, <2>1, <2>2 DEF HasActiveRun
  <2>4. ActsAlone(a)'
    BY <1>12, <2>1, <2>2, <2>3 DEF SerialInv, ActsAlone
  <2>5. DeletedAtRest' /\ Kept
    BY <1>0, <1>12 DEF SerialInv, DeletedAtRest, Kept, StaysDeleted, HasActiveRun
  <2> QED
    BY <2>4, <2>5 DEF SerialInv
<1>13. CASE ResumeCheck(a) \/ DeleteProbe(a) \/ AdminCrash(a)
  BY <1>1, <1>4, <1>12, <1>13 DEF ResumeCheck, DeleteProbe, AdminCrash, storeVars
<1> QED
  BY <1>6, <1>7, <1>8, <1>9, <1>10, <1>11, <1>13 DEF ControlStep

LEMMA SerialStart == Init => RefInv /\ \A a \in Admins : SerialInv(a)
  BY RefInit DEF Init, StoreInit, ControlInit, SerialInv, DeletedAtRest, ActsAlone, NoSchedule, NoAction,
                 Actions

(* With a single admin, however many servers deliver, crash and race the    *)
(* probe: a deleted schedule has no live run, keeps its tombstone and is    *)
(* never ACTIVE again (deleteSchedule, enableSchedule).                     *)
THEOREM OneAdminDeletesForGood ==
    ASSUME NEW a \in Admins, Admins = {a}
    PROVE  Spec => DeletedIsTerminal
<1>1. Init => RefInv /\ SerialInv(a)
  BY SerialStart
<1>2. RefInv /\ SerialInv(a) /\ [Next]_vars => RefInv' /\ SerialInv(a)' /\ Kept
  <2> SUFFICES ASSUME RefInv, SerialInv(a), [Next]_vars PROVE RefInv' /\ SerialInv(a)' /\ Kept
    OBVIOUS
  <2>1. RefInv'
    BY RefStep
  <2>2. CASE UNCHANGED vars
    BY <2>1, <2>2 DEF vars, storeVars, SerialInv, DeletedAtRest, ActsAlone, HasActiveRun, Kept, StaysDeleted
  <2>3. ASSUME NEW b \in Admins, ControlStep(b) PROVE SerialInv(a)' /\ Kept
    BY <2>3, AdminKeepsDeletion
  <2> QED
    BY <2>1, <2>2, <2>3, OthersKeepDeletion DEF Next, Environment
<1>3. RefInv /\ SerialInv(a) /\ [Next]_vars => [\A s \in Schedules : StaysDeleted(s)]_vars
  BY <1>2 DEF Kept
<1>4. SerialInv(a) => \A s \in Schedules : DeletedIsQuiet(s)
  BY DEF SerialInv, DeletedAtRest, DeletedIsQuiet
<1> QED
  BY <1>1, <1>2, <1>3, <1>4, PTL DEF Spec, DeletedIsTerminal

LEMMA PartiesAct == party \in Parties => party.admins \subseteq Admins /\ party.servers \subseteq Servers
  BY DEF Parties, Party

(* The same for every party of the instances that has one admin. *)
THEOREM SerialDeletes == PartySpec => SerialDeletionIsTerminal
<1> DEFINE Inv == party \in Parties /\ RefInv /\ \A a \in Admins : party.admins = {a} => SerialInv(a)
<1>1. PartyInit => Inv
  BY SerialStart DEF PartyInit
<1>2. Inv /\ [PartyNext]_<<vars, party>> => Inv' /\ (OneAdmin => Kept)
  <2> SUFFICES ASSUME Inv, [PartyNext]_<<vars, party>> PROVE Inv' /\ (OneAdmin => Kept)
    OBVIOUS
  <2>0. /\ party' = party /\ party.admins \subseteq Admins /\ party.servers \subseteq Servers
        /\ [Next]_vars
    <3>1. party.admins \subseteq Admins /\ party.servers \subseteq Servers
      BY PartiesAct
    <3> QED
      BY <3>1 DEF PartyNext, Next
  <2>1. RefInv'
    BY <2>0, RefStep
  <2>2. ASSUME NEW a \in Admins, party.admins = {a} PROVE SerialInv(a)' /\ Kept
    <3>0. SerialInv(a)
      BY <2>2
    <3>1. CASE UNCHANGED vars
      BY <2>1, <3>0, <3>1 DEF vars, storeVars, SerialInv, DeletedAtRest, ActsAlone, HasActiveRun, Kept,
                              StaysDeleted
    <3>2. CASE ControlStep(a)
      BY <3>0, <3>2, AdminKeepsDeletion
    <3>3. CASE UNCHANGED ctl /\ ((\E p \in Servers : AdmissionStep(p)) \/ Environment)
      BY <2>1, <3>0, <3>3, OthersKeepDeletion
    <3> QED
      BY <2>0, <2>2, <3>1, <3>2, <3>3 DEF PartyNext, Environment
  <2> QED
    BY <2>0, <2>1, <2>2 DEF OneAdmin
<1>3. Inv /\ [PartyNext]_<<vars, party>> => [OneAdmin => \A s \in Schedules : StaysDeleted(s)]_vars
  BY <1>2 DEF Kept
<1>4. Inv => (OneAdmin => \A s \in Schedules : DeletedIsQuiet(s))
  BY DEF OneAdmin, SerialInv, DeletedAtRest, DeletedIsQuiet
<1> HIDE DEF Inv
<1> QED
  BY <1>1, <1>2, <1>3, <1>4, PTL DEF PartySpec, SerialDeletionIsTerminal

=============================================================================
