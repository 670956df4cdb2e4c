-------------------------- MODULE ProviderLifecycle --------------------------
(* One registered operation of a provider: its append-only lifecycle ledger, *)
(* the state projected from it, the verification records that gate ACTIVE    *)
(* and the sweep that takes an operation out of ACTIVE when they lapse       *)
(* (packages/provider-lifecycle).  No caller holds a transaction: every      *)
(* statement of transition, evaluateKind, sweepExpired and                   *)
(* recordVerification is a step of its own and a caller may die between any  *)
(* two.                                                                      *)
EXTENDS Naturals, Sequences, FiniteSets, Functions

CONSTANTS
    Callers,          \* operators and sweeps at work at the same time
    VerificationKinds,\* the kinds with a configured TTL, in the order the sweep sorts them in
    GateKinds,        \* the kinds activationGate was built for
    VerificationTtl,
    Attempts,         \* the verifications that are made: [kind, source, outcome]
    GivenWindows,     \* the windows callers pass: [at, until]
    MaxNow,
    MaxEvents,        \* bound: events in the ledger
    MaxRecords        \* bound: verification records

Sources == {"OFFICIAL_DOC", "LIVE_CONTRACT"}

ASSUME LifecycleAssumption ==
    /\ VerificationKinds \in Seq(Range(VerificationKinds))
    /\ GateKinds \subseteq Range(VerificationKinds)
    /\ Attempts \subseteq [kind : Range(VerificationKinds), source : Sources,
                           outcome : {"PASSED", "FAILED", "INCONCLUSIVE"}]
    /\ GivenWindows \subseteq [at : Nat, until : Nat]
    /\ VerificationTtl \in Nat \ {0} /\ {MaxNow, MaxEvents, MaxRecords} \subseteq Nat

VARIABLES
    now,        \* the injected clock
    projected,  \* prov_operations.current_state
    events,     \* prov_lifecycle_events
    audits,     \* per event, how often the audit chain was told of it
    records,    \* prov_verification_records
    window,     \* prov_operations.verification_expires_at
    call        \* each caller's call under way

verificationVars == <<records, window>>
lifecycleVars == <<now, projected, events, audits, verificationVars, call>>

Terminal == {"DEPRECATED", "BLOCKED", "REMOVED"}
LifecycleStates == {"DISCOVERED", "VERIFIED", "ACTIVE", "DEGRADED"} \cup Terminal

LegalEdge(from, to) ==
    /\ from \notin Terminal
    /\ \/ to \in Terminal
       \/ <<from, to>> \in {<<"DISCOVERED", "VERIFIED">>, <<"VERIFIED", "ACTIVE">>,
                            <<"ACTIVE", "DEGRADED">>, <<"DEGRADED", "ACTIVE">>}

Manual == "MANUAL"
Reasons == {Manual} \cup Range(VerificationKinds)
NoEvent == [from |-> "DISCOVERED", to |-> "DISCOVERED", reason |-> Manual, at |-> 0]
Event == [from : LifecycleStates, to : LifecycleStates, reason : Reasons, at : Nat]
NoCall == [at |-> "idle", event |-> NoEvent, kinds |-> {}, answers |-> {}]

LifecycleInit ==
    /\ now = 0 /\ projected = "DISCOVERED" /\ events = <<>> /\ audits = <<>>
    /\ records = {} /\ window = 0
    /\ call = [c \in Callers |-> NoCall]

CallAt(c, at, event) == call' = [call EXCEPT ![c] = [NoCall EXCEPT !.at = at, !.event = event]]

-----------------------------------------------------------------------------
(* recordVerification: the window starts at the caller's verifiedAt or now   *)
(* and ends at the caller's expiresAt or a TTL later.  The row is inserted   *)
(* once per kind, source, outcome and start, whatever its end                *)
(* (prov_verification_records_retry_fenced).                                 *)
recordVerification(c, attempt, at, until) ==
    /\ call[c].at = "idle" /\ at < until
    /\ \A r \in records : <<r.kind, r.source, r.outcome, r.at>>
            # <<attempt.kind, attempt.source, attempt.outcome, at>>
    /\ Cardinality(records) < MaxRecords
    /\ records' = records \cup {[kind |-> attempt.kind, source |-> attempt.source,
                                 outcome |-> attempt.outcome, at |-> at, until |-> until]}
    /\ CallAt(c, IF attempt.outcome = "PASSED" THEN "refresh" ELSE "idle", NoEvent)
    /\ UNCHANGED <<now, projected, events, audits, window>>

(* refreshProjectionWindow: the latest end of any PASSED window, never       *)
(* earlier than before.                                                      *)
refreshProjectionWindow(c) ==
    LET ends == {window} \cup {r.until : r \in {r \in records : r.outcome = "PASSED"}}
    IN  /\ call[c].at = "refresh"
        /\ window' \in {t \in ends : \A u \in ends : u <= t}
        /\ CallAt(c, "idle", NoEvent)
        /\ UNCHANGED <<now, projected, events, audits, records>>

(* The last PASSED record of a source, if there is one. *)
LastPassed(kind, source) ==
    LET passed == {r \in records : r.kind = kind /\ r.source = source /\ r.outcome = "PASSED"}
    IN {r \in passed : \A q \in passed : q.at <= r.at}

Covers(r, t) == r.at <= t /\ t < r.until

FreshAt(kind, source, t) ==
    \E r \in records : /\ r.kind = kind /\ r.source = source /\ r.outcome = "PASSED"
                       /\ Covers(r, t)

(* What evaluateKind learns of one source, from one query and one reading of *)
(* the clock after it.                                                       *)
Answer(kind, source) ==
    LET last == LastPassed(kind, source)
    IN  [source |-> source, fresh |-> \E r \in last : Covers(r, now),
         ends |-> {r.until : r \in last}]

(* Mutant: one fresh source is enough. *)
pairFreshEither(answers) == \E a \in answers : a.fresh

pairFresh(answers) == \A a \in answers : a.fresh

-----------------------------------------------------------------------------
(* transition: the state is read, and the rest of the call goes on from what *)
(* was read.  A call that finds the operation in the target state already,   *)
(* or no legal edge to it, returns or throws and writes nothing.             *)
Begin(c, event) ==
    IF LegalEdge(projected, event.to)
    THEN call' = [call EXCEPT ![c] =
             [at |-> IF event.to = "ACTIVE" /\ GateKinds # {} THEN "gate" ELSE "insert",
              event |-> [event EXCEPT !.from = projected],
              kinds |-> IF event.to = "ACTIVE" THEN GateKinds ELSE {}, answers |-> {}]]
    ELSE CallAt(c, "idle", NoEvent)

requestState(c, to) ==
    /\ call[c].at = "idle" /\ LegalEdge(projected, to)
    /\ Begin(c, [from |-> projected, to |-> to, reason |-> Manual, at |-> now])
    /\ UNCHANGED <<now, projected, events, audits, verificationVars>>

(* The kinds are evaluated one after the other, here in the order of         *)
(* VerificationKinds.                                                        *)
FirstOf(kinds) ==
    {VerificationKinds[i] : i \in {i \in DOMAIN VerificationKinds :
        /\ VerificationKinds[i] \in kinds
        /\ \A j \in 1 .. i - 1 : VerificationKinds[j] \notin kinds}}

(* evaluateKind asks each source once.  The two queries run side by side;    *)
(* with the second answer the caller goes on without waiting.                *)
Asks(c, kind, source) ==
    kind \in FirstOf(call[c].kinds) /\ \A a \in call[c].answers : a.source # source
Answers(c, kind, source) == call[c].answers \cup {Answer(kind, source)}
BothAnswered(answers) == Sources \subseteq {a.source : a \in answers}

HalfAnswered(c, answers) ==
    ~BothAnswered(answers) /\ call' = [call EXCEPT ![c].answers = answers]
NextKind(c, kind) == call' = [call EXCEPT ![c].kinds = @ \ {kind}, ![c].answers = {}]

(* activationGate: a kind whose pair is not fresh throws. *)
activationGate(c, kind, source) ==
    LET answers == Answers(c, kind, source) IN
    /\ call[c].at = "gate" /\ Asks(c, kind, source)
    /\ \/ HalfAnswered(c, answers)
       \/ /\ BothAnswered(answers)
          /\ IF ~pairFresh(answers) THEN CallAt(c, "idle", NoEvent)
             ELSE IF call[c].kinds # {kind} THEN NextKind(c, kind)
             ELSE CallAt(c, "insert", call[c].event)
    /\ UNCHANGED <<now, projected, events, audits, verificationVars>>

(* prov_lifecycle_events_retry_fenced. *)
Fenced(e) == \E i \in 1 .. Len(events) : events[i] = e

(* INSERT ... ON CONFLICT DO NOTHING: a replay projects and audits nothing. *)
insertEvent(c) ==
    /\ call[c].at = "insert"
    /\ IF Fenced(call[c].event)
       THEN CallAt(c, "idle", NoEvent) /\ UNCHANGED <<events, audits>>
       ELSE /\ Len(events) < MaxEvents
            /\ events' = Append(events, call[c].event) /\ audits' = Append(audits, 0)
            /\ CallAt(c, "project", call[c].event)
    /\ UNCHANGED <<now, projected, verificationVars>>

projectState(c) ==
    /\ call[c].at = "project"
    /\ projected' = call[c].event.to
    /\ CallAt(c, "audit", call[c].event)
    /\ UNCHANGED <<now, events, audits, verificationVars>>

transitionAppended(c) ==
    /\ call[c].at = "audit"
    /\ audits' = [i \in 1 .. Len(events) |->
                      IF events[i] = call[c].event THEN audits[i] + 1 ELSE audits[i]]
    /\ CallAt(c, "idle", NoEvent)
    /\ UNCHANGED <<now, projected, events, verificationVars>>

-----------------------------------------------------------------------------
(* sweepExpired: the operation was ACTIVE when the sweep listed it, with the *)
(* row's own window end.  Then the kinds with records are read; the first    *)
(* whose pair is broken gives the exit, effective at the earlier end of the  *)
(* two last windows, or at the end of the one that there is.  Only a kind    *)
(* without any PASSED record falls back on the row's window.                 *)
sweepList(c) ==
    /\ call[c].at = "idle" /\ projected = "ACTIVE"
    /\ CallAt(c, "list", [NoEvent EXCEPT !.at = window])
    /\ UNCHANGED <<now, projected, events, audits, verificationVars>>

kindsWithRecords(c) ==
    LET kinds == {r.kind : r \in records}
    IN  /\ call[c].at = "list"
        /\ IF kinds = {} THEN CallAt(c, "idle", NoEvent)
           ELSE call' = [call EXCEPT ![c].at = "sweep", ![c].kinds = kinds]
        /\ UNCHANGED <<now, projected, events, audits, verificationVars>>

LapsedAt(answers, listed) ==
    LET ends == UNION {a.ends : a \in answers}
    IN  IF ends = {} THEN listed ELSE CHOOSE t \in ends : \A u \in ends : t <= u

sweepKind(c, kind, source) ==
    LET answers == Answers(c, kind, source) IN
    /\ call[c].at = "sweep" /\ Asks(c, kind, source)
    /\ \/ HalfAnswered(c, answers)
       \/ /\ BothAnswered(answers)
          /\ IF ~pairFresh(answers)
             THEN CallAt(c, "begin", [from |-> "ACTIVE", to |-> "DEGRADED", reason |-> kind,
                                      at |-> LapsedAt(answers, call[c].event.at)])
             ELSE IF call[c].kinds # {kind} THEN NextKind(c, kind)
             ELSE CallAt(c, "idle", NoEvent)
    /\ UNCHANGED <<now, projected, events, audits, verificationVars>>

sweepTransition(c) ==
    /\ call[c].at = "begin"
    /\ Begin(c, call[c].event)
    /\ UNCHANGED <<now, projected, events, audits, verificationVars>>

-----------------------------------------------------------------------------
CallerDies(c) ==
    /\ call[c].at # "idle"
    /\ CallAt(c, "idle", NoEvent)
    /\ UNCHANGED <<now, projected, events, audits, verificationVars>>

ClockMoves ==
    /\ now < MaxNow /\ now' = now + 1
    /\ UNCHANGED <<projected, events, audits, verificationVars, call>>

LifecycleNext ==
    \/ ClockMoves
    \/ \E c \in Callers :
           \/ \E attempt \in Attempts :
                  \/ recordVerification(c, attempt, now, now + VerificationTtl)
                  \/ \E w \in GivenWindows : recordVerification(c, attempt, w.at, w.until)
           \/ refreshProjectionWindow(c)
           \/ \E to \in {"VERIFIED", "ACTIVE", "BLOCKED"} : requestState(c, to)
           \/ insertEvent(c) \/ projectState(c) \/ transitionAppended(c)
           \/ sweepList(c) \/ kindsWithRecords(c) \/ sweepTransition(c) \/ CallerDies(c)
           \/ \E k \in Range(VerificationKinds), s \in Sources :
                  activationGate(c, k, s) \/ sweepKind(c, k, s)

LifecycleSpec == LifecycleInit /\ [][LifecycleNext]_lifecycleVars

-----------------------------------------------------------------------------
(* Properties *)

LifecycleTypeOK ==
    /\ now \in 0 .. MaxNow /\ projected \in LifecycleStates
    /\ events \in Seq(Event) /\ Len(events) <= MaxEvents /\ audits \in Seq(Nat)
    /\ \A r \in records : r.kind \in Range(VerificationKinds) /\ r.source \in Sources /\ r.at < r.until
    /\ Cardinality(records) <= MaxRecords /\ window \in Nat
    /\ \A c \in Callers : call[c].event \in Event

(* The ledger explains the operation, whoever raced or died.  Every event    *)
(* is an edge of the graph out of a state that was really projected; a       *)
(* retried or raced transition is one event, audited at most once; the       *)
(* projected state is one some event names; and ACTIVE was entered only when *)
(* each source of each kind of the gate was fresh at some instant while the  *)
(* transition was being made (transition, evaluateKind, activationGate).     *)
LedgerSound ==
    /\ projected = "DISCOVERED" \/ \E i \in 1 .. Len(events) : events[i].to = projected
    /\ \A i \in 1 .. Len(events) : LET e == events[i] IN
           /\ LegalEdge(e.from, e.to)
           /\ e.from = "DISCOVERED" \/ \E j \in 1 .. i - 1 : events[j].to = e.from
           /\ \A j \in 1 .. i - 1 : events[j] # e
           /\ e.to = "ACTIVE" => \A k \in GateKinds, s \in Sources :
                                     \E t \in e.at .. now : FreshAt(k, s, t)
    /\ Len(audits) = Len(events) /\ \A i \in 1 .. Len(events) : audits[i] <= 1

(* What the pair rule of verification-ttl.ts says of ACTIVE ("the pair rule  *)
(* requires BOTH sources fresh"): each kind had an instant at which both     *)
(* sources were fresh.                                                       *)
ActiveOnFreshPair ==
    \A i \in 1 .. Len(events) : LET e == events[i] IN
        e.to = "ACTIVE" => \A k \in GateKinds : \E t \in e.at .. now :
                               \A s \in Sources : FreshAt(k, s, t)

(* What lifecycle-states.ts says of terminal states: they are never left by  *)
(* resurrecting the row.                                                     *)
TerminalStays == [][(projected \in Terminal) => (projected' = projected)]_lifecycleVars
=============================================================================
