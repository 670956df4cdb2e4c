--------------------------- MODULE AlertLifecycle ---------------------------
(* Alerts from classification to their last update.  A classified alert is   *)
(* committed with its notification and recorded; sweeps, several of which    *)
(* may run at once with the clock each was given, re-examine the recorded    *)
(* alerts, expire them, or commit one update notification under an           *)
(* idempotency key and a cooldown.  The transaction of an update reads the   *)
(* key and the cooldown without a lock and then writes: two steps.           *)
EXTENDS Integers, FiniteSets, Sequences

CONSTANTS
    Alerts,           \* alert ids: an interval of naturals, so that they have an order
    Sweepers,         \* processes that run sweepAlertLifecycle
    Requests,         \* classification requests
    Recorded,         \* the classes of the alerts that are recorded
    Views,            \* reassessments that occur
    Ttl,              \* validity of a new alert
    ExpiringWindow,   \* ACTIONABILITY_EXPIRING_WINDOW_SECONDS
    Cooldown,         \* cooldownSeconds of the policy of each class of update
    Budget,           \* budgetMs, decision ready to delivery
    SweepLimit,       \* alerts per sweep
    MaxClock,
    MaxUpdates        \* updates committed in a behaviour

UpdateClasses == {"THESIS_WEAKENING", "OPPORTUNITY_EXPIRED", "RISK_ALERT"}

ASSUME AlertAssumption ==
    /\ Alerts \subseteq Nat /\ {Ttl, ExpiringWindow, Budget, MaxClock, MaxUpdates} \subseteq Nat
    /\ Cooldown \in [UpdateClasses -> Nat] /\ SweepLimit \in Nat \ {0}

VARIABLES
    clock,      \* the time injected as `now`
    record,     \* alert.alert_records
    updates,    \* alert.alert_updates, each with its committed notification
    ledger,     \* alert.alert_fingerprints of the prior alert
    sweep       \* sweepAlertLifecycle under way, per sweeper

alertVars == <<clock, record, updates, ledger, sweep>>

Kinds == {"MATERIAL_DETERIORATION", "CANCELLATION", "EXPIRY", "RISK"}

alertClassForPriorEvent(kind) ==
    CASE kind = "MATERIAL_DETERIORATION" -> "THESIS_WEAKENING"
      [] kind = "RISK" -> "RISK_ALERT"
      [] OTHER -> "OPPORTUNITY_EXPIRED"

(* Where the window of an update at that clock ends: the update's own class  *)
(* gives its length, not that of the prior alert.                            *)
cooldownUntilFrom(at, kind) == at + Cooldown[alertClassForPriorEvent(kind)]

NoSweep == [at |-> "idle", now |-> 0, due |-> <<>>, kind |-> "RISK", view |-> {}]
NoRecord == [state |-> "NONE", class |-> "none", until |-> 0]

AlertTypeOK ==
    /\ clock \in 0 .. MaxClock
    /\ \A a \in Alerts :
           /\ record[a].state \in {"NONE", "ACTIONABLE", "EXPIRED"}
           /\ \E k \in Kinds : ledger[a].until <= cooldownUntilFrom(ledger[a].updatedAt, k)
    /\ \A u \in updates : u.prior \in Alerts /\ u.kind \in Kinds /\ u.at <= clock
    /\ \A w \in Sweepers : /\ sweep[w].at \in {"idle", "next", "commit", "write"}
                           /\ sweep[w].at = "idle" \/ sweep[w].now <= clock
                           /\ Len(sweep[w].due) <= SweepLimit

AlertInit ==
    /\ clock = 0
    /\ record = [a \in Alerts |-> NoRecord]
    /\ updates = {}
    /\ ledger = [a \in Alerts |-> [until |-> 0, updatedAt |-> 0]]
    /\ sweep = [w \in Sweepers |-> NoSweep]

-----------------------------------------------------------------------------
(* classifyAlert.  A request carries the decision, the risk and lifecycle    *)
(* state, whether it is about a prior alert and the actionability at its     *)
(* `now` ("unknown" without one), the class the agent recommends ("none"     *)
(* when it recommends none), the confirmed-opportunity gates refused when    *)
(* the gate inputs are evaluated ("absent" when there are no inputs),        *)
(* whether observed gate results were supplied that differ from the          *)
(* evaluation, and whether organic confirmation is claimed without social    *)
(* coverage.  The checks are ordered: the first that applies decides.        *)
RiskStates == {"HIGH", "CRITICAL", "CONFLICTING"}
TerminalLifecycle == {"ARCHIVED", "REJECTED"}
Suppressed == "SUPPRESSED"

routePriorUpdate(q) ==
    IF q.actionability = "EXPIRED" THEN Suppressed
    ELSE IF q.actionability = "EXPIRING" THEN "OPPORTUNITY_EXPIRED"
    ELSE IF q.risk \in RiskStates THEN "RISK_ALERT"
    ELSE IF q.lifecycle \in TerminalLifecycle THEN "OPPORTUNITY_EXPIRED"
    ELSE IF q.lifecycle = "DECAYING" THEN "THESIS_WEAKENING"
    ELSE "THESIS_STRENGTHENING"

wantsConfirmed(q) ==
    \/ q.recommended = "CONFIRMED_OPPORTUNITY"
    \/ q.recommended = "none" /\ q.refused # {"absent"}

(* Mutant: a recommended confirmation with no gate inputs counts as passed. *)
confirmUnevaluated(q) ==
    IF q.refused \subseteq {"absent"} THEN "CONFIRMED_OPPORTUNITY" ELSE Suppressed

(* A gate set that is missing or that refuses suppresses the alert; it is    *)
(* never degraded to a weaker class.                                         *)
confirm(q) == IF q.refused = {} THEN "CONFIRMED_OPPORTUNITY" ELSE Suppressed

routeAlertClass(q) ==
    IF q.organicUnbacked \/ q.decision \in {"IGNORE", "REJECT", "INSUFFICIENT_DATA"} THEN Suppressed
    ELSE IF q.prior THEN routePriorUpdate(q)
    ELSE IF q.actionability = "EXPIRED" THEN Suppressed
    ELSE IF q.lifecycle \in TerminalLifecycle THEN "OPPORTUNITY_EXPIRED"
    ELSE IF q.risk \in RiskStates THEN "RISK_ALERT"
    ELSE IF wantsConfirmed(q) THEN confirm(q)
    ELSE IF q.recommended # "none" THEN q.recommended
    ELSE "EARLY_WATCH"

(* Supplied results that differ from the evaluation are a contract error. *)
GateResultsMatch(q) == q.supplied = "differ" => q.refused = {"absent"}

classifyAlert(q) == IF GateResultsMatch(q) THEN routeAlertClass(q) ELSE Suppressed
DeliverableClasses == {classifyAlert(q) : q \in Requests} \ {Suppressed}

(* recordPriorAlert, for an alert that commitAlert has let out: one that is  *)
(* not suppressed and is within its latency budget.  Nothing here reads what *)
(* the commit itself writes.                                                 *)
recordPriorAlert(a, class) ==
    /\ record[a] = NoRecord
    /\ record' = [record EXCEPT ![a] =
           [state |-> "ACTIONABLE", class |-> class, until |-> clock + Ttl]]
    /\ UNCHANGED <<clock, updates, ledger, sweep>>

-----------------------------------------------------------------------------
(* evaluatePriorAlertUpdate.  A view is a reassessment: the change of the    *)
(* severity, the material evidence, and whether risk, cancellation or expiry *)
(* was observed.                                                             *)
actionabilityFor(a, now) ==
    IF now >= record[a].until THEN "EXPIRED"
    ELSE IF record[a].until - now <= ExpiringWindow THEN "EXPIRING" ELSE "ACTIONABLE"

(* The update is of class THESIS_WEAKENING: for a prior of any other class   *)
(* the class has changed, which counts as deterioration.                     *)
isMaterialDeterioration(a, v) ==
    \/ record[a].class # "THESIS_WEAKENING"
    \/ v.severity = "lower"
    \/ v.severity = "same" /\ v.evidence # "unchanged"

UpdateWarranted(a, kind, v, now) ==
    CASE kind = "MATERIAL_DETERIORATION" -> isMaterialDeterioration(a, v)
      [] kind = "RISK" -> v.risk
      [] kind = "CANCELLATION" -> v.cancelled
      [] kind = "EXPIRY" -> actionabilityFor(a, now) = "EXPIRING" \/ v.expired

(* The idempotency key: the fingerprint leaves the severity and the          *)
(* cancellation of the view out.                                             *)
UpdateKey(a, kind, v) == [prior |-> a, kind |-> kind, evidence |-> v.evidence, risk |-> v.risk]
KeyOf(u) == [prior |-> u.prior, kind |-> u.kind, evidence |-> u.evidence, risk |-> u.risk]
KeyTaken(k) == \E u \in updates : KeyOf(u) = k

-----------------------------------------------------------------------------
(* sweepAlertLifecycle: the actionable alerts, the first to expire first.    *)
DueAlerts == {a \in Alerts : record[a].state = "ACTIONABLE"}
ExpiresBefore(a, b) ==
    record[a].until < record[b].until \/ (record[a].until = record[b].until /\ a < b)

(* A batch in that order: what expires before one of its alerts comes before *)
(* it, and only an alert beyond the limit is left out.                       *)
FirstToExpire(due) ==
    /\ \A i \in DOMAIN due, a \in DueAlerts :
           ExpiresBefore(a, due[i]) <=> \E j \in 1 .. (i - 1) : due[j] = a
    /\ Len(due) < SweepLimit => \A a \in DueAlerts : \E i \in DOMAIN due : due[i] = a

sweepStart(w) ==
    /\ sweep[w].at = "idle"
    /\ \E n \in 1 .. SweepLimit : \E due \in [1 .. n -> DueAlerts] :
           /\ FirstToExpire(due)
           /\ sweep' = [sweep EXCEPT ![w] = [NoSweep EXCEPT !.at = "next", !.now = clock,
                                                            !.due = due]]
    /\ UNCHANGED <<clock, record, updates, ledger>>

(* The rest of the batch, or the end of the sweep. *)
NextAlert(w) ==
    sweep' = [sweep EXCEPT ![w] =
        IF Len(@.due) = 1 THEN NoSweep
        ELSE [NoSweep EXCEPT !.at = "next", !.now = sweep[w].now, !.due = Tail(sweep[w].due)]]

transitionAlertActionability(a) == record' = [record EXCEPT ![a].state = "EXPIRED"]

(* An alert past its validity is expired. *)
sweepExpires(w) ==
    /\ sweep[w].at = "next"
    /\ actionabilityFor(Head(sweep[w].due), sweep[w].now) = "EXPIRED"
    /\ transitionAlertActionability(Head(sweep[w].due))
    /\ NextAlert(w)
    /\ UNCHANGED <<clock, updates, ledger>>

(* The source has nothing to say of the alert, or nothing that warrants an   *)
(* update.                                                                   *)
sweepSkips(w) ==
    /\ sweep[w].at = "next"
    /\ actionabilityFor(Head(sweep[w].due), sweep[w].now) # "EXPIRED"
    /\ NextAlert(w)
    /\ UNCHANGED <<clock, record, updates, ledger>>

(* A reassessment that was ready longer ago than the budget expires the      *)
(* alert itself, whatever it says.                                           *)
TooLate(now) == {ready \in 0 .. now : now - ready > Budget}

reassessLate(w) ==
    /\ sweep[w].at = "next"
    /\ actionabilityFor(Head(sweep[w].due), sweep[w].now) # "EXPIRED"
    /\ TooLate(sweep[w].now) # {}
    /\ transitionAlertActionability(Head(sweep[w].due))
    /\ NextAlert(w)
    /\ UNCHANGED <<clock, updates, ledger>>

(* One in time that warrants an update goes to commitAlertUpdate. *)
reassess(w, kind, v) ==
    LET a == Head(sweep[w].due)
        now == sweep[w].now
    IN
    /\ sweep[w].at = "next" /\ actionabilityFor(a, now) # "EXPIRED"
    /\ UpdateWarranted(a, kind, v, now)
    /\ sweep' = [sweep EXCEPT ![w].at = "commit", ![w].kind = kind, ![w].view = {v}]
    /\ UNCHANGED <<clock, record, updates, ledger>>

CandidateOf(w) == CHOOSE v \in sweep[w].view : TRUE
CandidateKey(w) == UpdateKey(Head(sweep[w].due), sweep[w].kind, CandidateOf(w))

(* Mutant: the comparison is off by one. *)
InCooldownShort(a, now) == now + 1 < ledger[a].until

(* The reads of commitAlertUpdate's transaction: a taken key is              *)
(* DEDUPLICATED, a running cooldown of the prior SUPPRESSED.  Its check of   *)
(* the budget repeats that of the sweep, with the same clock, reassessment   *)
(* and budget, and so never suppresses what the sweep let through.           *)
InCooldown(a, now) == now < ledger[a].until

updateReads(w) ==
    /\ sweep[w].at = "commit"
    /\ IF KeyTaken(CandidateKey(w)) \/ InCooldown(Head(sweep[w].due), sweep[w].now)
       THEN NextAlert(w) ELSE sweep' = [sweep EXCEPT ![w].at = "write"]
    /\ UNCHANGED <<clock, record, updates, ledger>>

(* Mutant: the upsert has no guard on updated_at. *)
LedgerAlwaysAdvances(a, now) == TRUE

(* The guard of the ledger's upsert. *)
LedgerAdvances(a, now) == now >= ledger[a].updatedAt

(* ON CONFLICT (idempotency_key) DO NOTHING. *)
InsertConflicts(k) == KeyTaken(k)

(* Its writes: the row unless a concurrent writer won the key, the decision  *)
(* with its outbox row, and the ledger unless it was advanced by a later     *)
(* clock, which rolls everything back and ends the sweep with an error.      *)
updateWrites(w) ==
    LET a == Head(sweep[w].due)
        now == sweep[w].now
        k == CandidateKey(w)
    IN
    /\ sweep[w].at = "write" /\ Cardinality(updates) < MaxUpdates
    /\ \/ /\ InsertConflicts(k)
          /\ NextAlert(w) /\ UNCHANGED <<updates, ledger>>
       \/ /\ ~InsertConflicts(k) /\ LedgerAdvances(a, now)
          /\ updates' = updates \union
                 {[prior |-> a, kind |-> k.kind, evidence |-> k.evidence, risk |-> k.risk,
                   at |-> now]}
          /\ ledger' = [ledger EXCEPT ![a] = [until |-> cooldownUntilFrom(now, k.kind),
                                              updatedAt |-> now]]
          /\ NextAlert(w)
       \/ /\ ~InsertConflicts(k) /\ ~LedgerAdvances(a, now)
          /\ sweep' = [sweep EXCEPT ![w] = NoSweep] /\ UNCHANGED <<updates, ledger>>
    /\ UNCHANGED <<clock, record>>

(* An error of the source or the database, or a crash, ends the sweep; a     *)
(* transaction under way is rolled back.                                     *)
sweepAborts(w) ==
    /\ sweep[w].at # "idle"
    /\ sweep' = [sweep EXCEPT ![w] = NoSweep]
    /\ UNCHANGED <<clock, record, updates, ledger>>

AlertTick ==
    /\ clock < MaxClock
    /\ clock' = clock + 1
    /\ UNCHANGED <<record, updates, ledger, sweep>>

SweepSteps(w) ==
    \/ sweepStart(w) \/ sweepExpires(w) \/ sweepSkips(w) \/ reassessLate(w)
    \/ \E kind \in Kinds, v \in Views : reassess(w, kind, v)
    \/ updateReads(w) \/ updateWrites(w)

AlertNext ==
    \/ AlertTick
    \/ \E a \in Alerts, c \in Recorded \cap DeliverableClasses : recordPriorAlert(a, c)
    \/ \E w \in Sweepers : SweepSteps(w) \/ sweepAborts(w)

AlertSpec == AlertInit /\ [][AlertNext]_alertVars

(* The sweeps of a deployment that starts one only when none is under way. *)
SerialNext == AlertNext /\ \A v, w \in Sweepers :
    v # w => sweep'[v].at = "idle" \/ sweep'[w].at = "idle"

-----------------------------------------------------------------------------
(* Properties. *)

(* What a request owes to be delivered as class: an opportunity passed every *)
(* gate under evaluation, on results nobody contradicted, and an             *)
(* announcement of any kind of opportunity is of a new candidate that is     *)
(* neither at risk nor rejected nor ignored; nothing but the news that it    *)
(* expired is said of an expired alert; an unbacked organic claim earns      *)
(* nothing.                                                                  *)
Earned(q, class) ==
    /\ ~q.organicUnbacked
    /\ class = "CONFIRMED_OPPORTUNITY" => q.refused = {} /\ q.supplied # "differ"
    /\ class # "OPPORTUNITY_EXPIRED" => q.actionability # "EXPIRED"
    /\ class \in {"CONFIRMED_OPPORTUNITY", "EARLY_WATCH"} =>
           /\ ~q.prior
           /\ q.risk \notin RiskStates /\ q.lifecycle \notin TerminalLifecycle
           /\ q.decision \notin {"IGNORE", "REJECT", "INSUFFICIENT_DATA"}

(* The classes classifyAlert gives to a request that has not earned them. *)
UnearnedClasses ==
    {classifyAlert(q) : q \in {q \in Requests : ~Earned(q, classifyAlert(q))}} \ {Suppressed}

(* No alert on record is of a class that the router gives away unearned,     *)
(* whichever of its branches a request takes; there is one notification per  *)
(* idempotency key, each about an alert that was still valid at the clock of *)
(* its sweep, and the ledger remembers the last one: rows, notifications and *)
(* cooldown move together, whatever sweeps race, fail or retry.              *)
AlertsExact ==
    /\ \A a \in Alerts : record[a].class \notin UnearnedClasses
    /\ \A u, v \in updates : KeyOf(u) = KeyOf(v) => u = v
    /\ \A u \in updates : u.at < record[u.prior].until
    /\ \A a \in Alerts : LET of == {u \in updates : u.prior = a} IN
           of # {} => /\ \A u \in of : u.at <= ledger[a].updatedAt
                      /\ \E u \in of : /\ u.at = ledger[a].updatedAt
                                       /\ ledger[a].until = cooldownUntilFrom(u.at, u.kind)

(* A stale sweep never writes over what a later one left: the clock of a     *)
(* ledger row only moves on, the row changes only with an update, which it   *)
(* then names, no update is taken back, and nothing makes an expired alert   *)
(* actionable again (upsertAlertFingerprint, transitionAlertActionability).  *)
AlertsMoveForward ==
    [][/\ updates \subseteq updates'
       /\ \A u \in updates' \ updates :
              ledger'[u.prior] = [until |-> cooldownUntilFrom(u.at, u.kind), updatedAt |-> u.at]
       /\ \A a \in Alerts :
              /\ ledger'[a].updatedAt >= ledger[a].updatedAt
              /\ ledger'[a] # ledger[a] => \E u \in updates' \ updates : u.prior = a
              /\ record[a].state = "EXPIRED" => record'[a].state = "EXPIRED"]_alertVars

(* What commitAlertUpdate says of the cooldown (lifecycle.ts 694-695): two   *)
(* updates to one prior inside one cooldown window collapse to one.          *)
CooldownCollapses == \A u, v \in updates :
    u.prior = v.prior /\ u # v => \/ u.at >= cooldownUntilFrom(v.at, v.kind)
                                  \/ v.at >= cooldownUntilFrom(u.at, u.kind)

(* What upsertAlertFingerprint says of its guard (fingerprints.ts 373-376):  *)
(* a stale worker can never rewind a cooldown window.                        *)
WindowNeverRewinds == [][\A a \in Alerts : ledger'[a].until >= ledger[a].until]_alertVars

=============================================================================
