----------------------------- MODULE SupplyProofs -----------------------------
(***************************************************************************)
(* Proofs about the rest of the supply side, for any number of operators,  *)
(* sweeps and sessions, any kinds, windows and histories: the lifecycle    *)
(* ledger of a provider operation and the activation of a module; and the  *)
(* types of the composition with the collector.                            *)
(***************************************************************************)
EXTENDS MCSupply, CollectorProofs, SequenceTheorems

-----------------------------------------------------------------------------
(* Provider lifecycle: the inductive invariant *)

CallSteps == {"idle", "refresh", "gate", "insert", "project", "audit", "list", "sweep", "begin"}
SourceAnswers == [source : Sources, fresh : BOOLEAN, ends : SUBSET Nat]
Calls == [at : CallSteps, event : Event, kinds : SUBSET Range(VerificationKinds),
          answers : SUBSET SourceAnswers]
Verifications == [kind : Range(VerificationKinds), source : Sources,
                  outcome : {"PASSED", "FAILED", "INCONCLUSIVE"}, at : Nat, until : Nat]

RecordsTyped ==
    /\ records \subseteq Verifications /\ \A r \in records : r.at < r.until
    /\ IsFiniteSet(records) /\ Cardinality(records) <= MaxRecords /\ window \in Nat

LifecycleTypes ==
    /\ now \in 0..MaxNow /\ projected \in LifecycleStates
    /\ events \in Seq(Event) /\ Len(events) <= MaxEvents
    /\ audits \in Seq(Nat) /\ Len(audits) = Len(events)
    /\ RecordsTyped /\ call \in [Callers -> Calls]

(* Some event of the ledger names the state. *)
Known(s) == s = "DISCOVERED" \/ \E i \in 1..Len(events) : events[i].to = s

(* The source was fresh at an instant from the given one on. *)
WasFresh(k, s, from) == \E t \in from..now : FreshAt(k, s, t)

(* Every source of every gated kind was fresh at an instant from the event's *)
(* on.                                                                       *)
EarnedActive(e) == e.to = "ACTIVE" => \A k \in GateKinds, s \in Sources : WasFresh(k, s, e.at)

(* A call at the gate: the kinds it has left behind were fresh at both       *)
(* sources while it was there, the kind it is at wherever the answer was.    *)
SoundGate(d) ==
    /\ d.event.at <= now
    /\ \A k \in GateKinds \ d.kinds, s \in Sources : WasFresh(k, s, d.event.at)
    /\ \A k \in FirstOf(d.kinds), a \in d.answers : a.fresh => WasFresh(k, a.source, d.event.at)

(* An event on its way to the ledger is a legal edge from a state that was   *)
(* projected; one past the gate has earned ACTIVE; one that is in the ledger *)
(* is not audited yet.                                                       *)
SoundCall(d) ==
    /\ d.at \in {"gate", "insert"} => LegalEdge(d.event.from, d.event.to) /\ Known(d.event.from)
    /\ d.at = "gate" => SoundGate(d)
    /\ d.at = "insert" => EarnedActive(d.event)
    /\ d.at = "begin" => d.event.to = "DEGRADED"
    /\ d.at \in {"project", "audit"} => \E i \in 1..Len(events) : events[i] = d.event /\ audits[i] = 0

CallsSound == \A c \in Callers : SoundCall(call[c])

(* An event in the ledger is one caller's to project and audit. *)
OneHolder == \A c, d \in Callers :
    (c # d /\ call[c].at \in {"project", "audit"} /\ call[d].at \in {"project", "audit"})
        => call[c].event # call[d].event

SoundEvent(i) ==
    /\ LegalEdge(events[i].from, events[i].to)
    /\ events[i].from = "DISCOVERED" \/ \E j \in 1..i - 1 : events[j].to = events[i].from
    /\ \A j \in 1..i - 1 : events[j] # events[i]
    /\ EarnedActive(events[i])

EventsSound ==
    /\ Known(projected)
    /\ \A i \in 1..Len(events) : SoundEvent(i) /\ audits[i] <= 1

ProviderInv == LifecycleTypes /\ CallsSound /\ OneHolder /\ EventsSound

LEMMA LifecycleNumbers ==
    /\ VerificationTtl \in Nat /\ VerificationTtl > 0
    /\ MaxNow \in Nat /\ MaxEvents \in Nat /\ MaxRecords \in Nat
    /\ GateKinds \subseteq Range(VerificationKinds)
  BY LifecycleAssumption

(* The calls that hold nothing but a place and an event. *)
LEMMA PlainCalls ==
    ASSUME NEW at \in CallSteps, NEW e \in Event
    PROVE  /\ [NoCall EXCEPT !.at = at, !.event = e] \in Calls
           /\ [NoCall EXCEPT !.at = at, !.event = e].at = at
           /\ [NoCall EXCEPT !.at = at, !.event = e].event = e
  BY DEF NoCall, Calls

LEMMA NoCallTyped == NoEvent \in Event /\ NoCall \in Calls /\ NoCall.at = "idle"
<1>1. NoEvent \in Event
  BY DEF NoEvent, Event, LifecycleStates, Reasons
<1> QED
  BY <1>1 DEF NoCall, Calls, CallSteps

LEMMA LedgerFacts ==
    ASSUME LifecycleTypes
    PROVE  /\ Len(events) \in Nat /\ now \in Nat
           /\ \A i \in 1..Len(events) : events[i] \in Event /\ audits[i] \in Nat
           /\ \A c \in Callers : call[c] \in Calls /\ call[c].event \in Event
           /\ \A r \in records : r \in Verifications /\ r.at \in Nat /\ r.until \in Nat
<1>1. events \in Seq(Event) /\ audits \in Seq(Nat) /\ Len(audits) = Len(events)
  BY DEF LifecycleTypes
<1>2. Len(events) \in Nat /\ \A i \in 1..Len(events) : events[i] \in Event /\ audits[i] \in Nat
  BY <1>1, ElementOfSeq
<1>3. now \in Nat /\ \A r \in records : r \in Verifications /\ r.at \in Nat /\ r.until \in Nat
  BY LifecycleNumbers DEF LifecycleTypes, RecordsTyped, Verifications
<1>4. \A c \in Callers : call[c] \in Calls /\ call[c].event \in Event
  BY DEF LifecycleTypes, Calls
<1> QED
  BY <1>2, <1>3, <1>4

(* The ledger grows, the clock moves on, and records are only added: what    *)
(* was known and earned stays so.                                            *)
LedgerGrows ==
    /\ Len(events') \in Nat /\ Len(events') >= Len(events)
    /\ \A i \in 1..Len(events) : events'[i] = events[i]
    /\ now' \in Nat /\ now' >= now /\ records \subseteq records'

LEMMA KnownStays ==
    ASSUME LifecycleTypes, LedgerGrows, NEW s, Known(s)
    PROVE  Known(s)'
<1>1. Len(events) \in Nat
  BY LedgerFacts
<1> QED
  BY <1>1 DEF Known, LedgerGrows

LEMMA FreshStays ==
    ASSUME LifecycleTypes, LedgerGrows, NEW k, NEW s, NEW from \in Nat, WasFresh(k, s, from)
    PROVE  WasFresh(k, s, from)'
<1>1. PICK t \in from..now : FreshAt(k, s, t)
  BY DEF WasFresh
<1>2. now \in Nat /\ now' \in Nat /\ now' >= now
  BY LedgerFacts DEF LedgerGrows
<1>3. t \in from..now'
  BY <1>1, <1>2
<1>4. FreshAt(k, s, t)'
  BY <1>1 DEF FreshAt, LedgerGrows
<1> QED
  BY <1>3, <1>4 DEF WasFresh

LEMMA EarnedStays ==
    ASSUME LifecycleTypes, LedgerGrows, NEW e \in Event, EarnedActive(e)
    PROVE  EarnedActive(e)'
<1>1. e.at \in Nat
  BY DEF Event
<1>2. \A k, s : WasFresh(k, s, e.at) => WasFresh(k, s, e.at)'
  BY <1>1, FreshStays
<1> QED
  BY <1>2 DEF EarnedActive

LEMMA GateStays ==
    ASSUME LifecycleTypes, LedgerGrows, NEW d \in Calls, SoundGate(d)
    PROVE  SoundGate(d)'
<1>1. d.event.at \in Nat /\ now \in Nat /\ now' \in Nat /\ now' >= now /\ d.event.at <= now
  BY LedgerFacts DEF Calls, Event, LedgerGrows, SoundGate
<1>2. \A k, s : WasFresh(k, s, d.event.at) => WasFresh(k, s, d.event.at)'
  BY <1>1, FreshStays
<1>3. d.event.at <= now'
  BY <1>1
<1> QED
  BY <1>2, <1>3 DEF SoundGate

Held == {"project", "audit"}

(* A step of one call that leaves the ledger and the records alone. *)
LEMMA CallMoves ==
    ASSUME ProviderInv, NEW c \in Callers, NEW d \in Calls, SoundCall(d),
           call' = [call EXCEPT ![c] = d],
           d.at \in Held => call[c].at \in Held /\ d.event = call[c].event,
           projected' \in LifecycleStates, Known(projected'), window' \in Nat,
           UNCHANGED <<now, events, audits, records>>
    PROVE  ProviderInv'
<1>1. LifecycleTypes /\ call \in [Callers -> Calls]
  BY DEF ProviderInv, LifecycleTypes
<1>2. LifecycleTypes'
  BY <1>1 DEF LifecycleTypes, RecordsTyped
<1>3. \A x \in Callers : call'[x] = IF x = c THEN d ELSE call[x]
  BY <1>1
<1>4. CallsSound'
  <2> SUFFICES ASSUME NEW x \in Callers PROVE SoundCall(call[x])'
    BY DEF CallsSound
  <2>1. PICK y : y = call'[x]
    OBVIOUS
  <2>2. SoundCall(y)
    BY <1>3, <2>1 DEF ProviderInv, CallsSound
  <2>3. SoundCall(y)'
    BY <2>2 DEF SoundCall, SoundGate, Known, EarnedActive, WasFresh, FreshAt
  <2> QED
    BY <2>1, <2>3 DEF SoundCall, SoundGate, Known, EarnedActive
<1>5. OneHolder'
  BY <1>3 DEF ProviderInv, OneHolder, Held
<1>6. EventsSound'
  BY DEF ProviderInv, EventsSound, SoundEvent, Known, EarnedActive, WasFresh, FreshAt
<1> QED
  BY <1>2, <1>4, <1>5, <1>6 DEF ProviderInv

(* A call that goes on at a place where it owes nothing. *)
LEMMA CallGoesOn ==
    ASSUME ProviderInv, NEW c \in Callers, NEW at \in {"idle", "list"}, NEW e \in Event,
           CallAt(c, at, e), window' \in Nat,
           UNCHANGED <<now, projected, events, audits, records>>
    PROVE  ProviderInv'
<1> DEFINE d == [NoCall EXCEPT !.at = at, !.event = e]
<1>1. d \in Calls /\ d.at = at /\ call' = [call EXCEPT ![c] = d]
  <2>1. at \in CallSteps /\ call' = [call EXCEPT ![c] = d]
    BY DEF CallAt, CallSteps
  <2> QED
    BY <2>1, PlainCalls
<1> HIDE DEF d
<1>2. SoundCall(d)
  BY <1>1 DEF SoundCall
<1>3. projected' \in LifecycleStates /\ Known(projected')
  BY DEF ProviderInv, LifecycleTypes, EventsSound, Known
<1> QED
  BY <1>1, <1>2, <1>3, CallMoves DEF Held

LEMMA CallEnds ==
    ASSUME ProviderInv, NEW c \in Callers, CallAt(c, "idle", NoEvent),
           UNCHANGED <<now, projected, events, audits, verificationVars>>
    PROVE  ProviderInv'
<1>1. UNCHANGED records /\ window' \in Nat
  BY DEF ProviderInv, LifecycleTypes, RecordsTyped, verificationVars
<1> QED
  BY <1>1, CallGoesOn, NoCallTyped

(* Begin: the edge is legal from the projected state, which an event named. *)
LEMMA BeginKeeps ==
    ASSUME ProviderInv, NEW c \in Callers, NEW e \in Event, Begin(c, e),
           e.to = "ACTIVE" => e.at <= now,
           UNCHANGED <<now, projected, events, audits, verificationVars>>
    PROVE  ProviderInv'
<1>1. CASE ~LegalEdge(projected, e.to)
  BY <1>1, CallEnds DEF Begin
<1>2. CASE LegalEdge(projected, e.to)
  <2> DEFINE f == [e EXCEPT !.from = projected]
             step == IF e.to = "ACTIVE" /\ GateKinds # {} THEN "gate" ELSE "insert"
             kinds == IF e.to = "ACTIVE" THEN GateKinds ELSE {}
             d == [at |-> step, event |-> f, kinds |-> kinds, answers |-> {}]
  <2>1. /\ projected \in LifecycleStates /\ Known(projected) /\ UNCHANGED records
        /\ projected' \in LifecycleStates /\ Known(projected') /\ window' \in Nat
    BY DEF ProviderInv, LifecycleTypes, RecordsTyped, EventsSound, Known, verificationVars
  <2>2. f \in Event /\ f.from = projected /\ f.to = e.to /\ f.at = e.at
    BY <2>1 DEF Event
  <2>3. call' = [call EXCEPT ![c] = d]
    BY <1>2 DEF Begin
  <2> HIDE DEF f
  <2>4. d \in Calls /\ d.at = step /\ d.event = f /\ d.kinds = kinds /\ d.answers = {}
    BY <2>2, LifecycleNumbers DEF Calls, CallSteps
  <2>5. /\ step \in {"gate", "insert"} /\ (step = "gate" => e.to = "ACTIVE" /\ kinds = GateKinds)
        /\ step = "insert" /\ e.to = "ACTIVE" => GateKinds = {}
    OBVIOUS
  <2> HIDE DEF d, step, kinds
  <2>6. step = "gate" => SoundGate(d)
    BY <2>2, <2>4, <2>5 DEF SoundGate
  <2>7. step = "insert" => EarnedActive(f)
    BY <2>2, <2>5 DEF EarnedActive
  <2>8. SoundCall(d)
    BY <1>2, <2>1, <2>2, <2>4, <2>5, <2>6, <2>7 DEF SoundCall
  <2>9. d.at \notin Held
    BY <2>4, <2>5 DEF Held
  <2> QED
    BY <2>1, <2>3, <2>4, <2>8, <2>9, CallMoves
<1> QED
  BY <1>1, <1>2

(* There is one kind to be evaluated at a time, and it is one that was left. *)
LEMMA OneFirst ==
    ASSUME NEW kinds, NEW j \in FirstOf(kinds), NEW k \in FirstOf(kinds)
    PROVE  j = k
<1>0. DOMAIN VerificationKinds \subseteq Nat
  <2>1. VerificationKinds \in Seq(Range(VerificationKinds))
    BY LifecycleAssumption
  <2> QED
    BY <2>1, LenProperties
<1>1. PICK m \in DOMAIN VerificationKinds :
          /\ j = VerificationKinds[m] /\ VerificationKinds[m] \in kinds
          /\ \A i \in 1..m - 1 : VerificationKinds[i] \notin kinds
  BY DEF FirstOf
<1>2. PICK n \in DOMAIN VerificationKinds :
          /\ k = VerificationKinds[n] /\ VerificationKinds[n] \in kinds
          /\ \A i \in 1..n - 1 : VerificationKinds[i] \notin kinds
  BY DEF FirstOf
<1>3. ~(m \in 1..n - 1) /\ ~(n \in 1..m - 1) /\ m \in 1..Len(VerificationKinds)
      /\ n \in 1..Len(VerificationKinds)
  BY <1>0, <1>1, <1>2
<1> QED
  BY <1>1, <1>2, <1>3

(* What evaluateKind answers: typed, and fresh only of a source that is. *)
LEMMA AnswerFacts ==
    ASSUME LifecycleTypes, NEW k, NEW s \in Sources
    PROVE  /\ Answer(k, s) \in SourceAnswers /\ Answer(k, s).source = s
           /\ Answer(k, s).fresh => FreshAt(k, s, now)
<1> DEFINE last == LastPassed(k, s)
<1>1. \A r \in last : /\ r \in records /\ r.kind = k /\ r.source = s /\ r.outcome = "PASSED"
                      /\ r.until \in Nat
  BY LedgerFacts DEF LastPassed
<1>2. Answer(k, s) = [source |-> s, fresh |-> \E r \in last : Covers(r, now),
                      ends |-> {r.until : r \in last}]
  BY DEF Answer
<1> HIDE DEF last
<1>3. (\E r \in last : Covers(r, now)) => FreshAt(k, s, now)
  BY <1>1 DEF FreshAt
<1>4. {r.until : r \in last} \in SUBSET Nat
  BY <1>1
<1>5. (\E r \in last : Covers(r, now)) \in BOOLEAN
  OBVIOUS
<1> QED
  BY <1>2, <1>3, <1>4, <1>5 DEF SourceAnswers

LEMMA GateKeeps ==
    ASSUME ProviderInv, NEW c \in Callers, NEW k \in Range(VerificationKinds),
           NEW s \in Sources, activationGate(c, k, s)
    PROVE  ProviderInv'
<1> DEFINE b == call[c]
           e == call[c].event
           answers == Answers(c, k, s)
<1>1. /\ UNCHANGED <<now, projected, events, audits, verificationVars>>
      /\ b.at = "gate" /\ k \in FirstOf(b.kinds)
  BY DEF activationGate, Asks
<1>2. /\ LifecycleTypes /\ b \in Calls /\ e \in Event /\ e.at \in Nat /\ now \in Nat
      /\ b.kinds \subseteq Range(VerificationKinds)
  BY LedgerFacts DEF ProviderInv, Calls, Event
<1>3. LegalEdge(e.from, e.to) /\ Known(e.from) /\ SoundGate(b)
  BY <1>1 DEF ProviderInv, CallsSound, SoundCall
<1>4. /\ UNCHANGED records /\ window' \in Nat
      /\ projected' \in LifecycleStates /\ Known(projected')
  BY <1>1 DEF ProviderInv, LifecycleTypes, RecordsTyped, EventsSound, Known, verificationVars
<1>5. answers \subseteq SourceAnswers
  BY <1>2, AnswerFacts DEF Answers, Calls
<1>6. ASSUME NEW a \in answers, a.fresh PROVE WasFresh(k, a.source, e.at)
  <2>1. CASE a \in b.answers
    BY <1>1, <1>3, <1>6, <2>1 DEF SoundGate
  <2>2. CASE a = Answer(k, s)
    <3>1. a.source = s /\ FreshAt(k, s, now)
      BY <1>2, <1>6, <2>2, AnswerFacts
    <3>2. now \in e.at..now
      BY <1>2, <1>3 DEF SoundGate
    <3> QED
      BY <3>1, <3>2 DEF WasFresh
  <2> QED
    BY <2>1, <2>2 DEF Answers
<1>7. \A j \in FirstOf(b.kinds) : j = k
  BY <1>1, OneFirst
<1>8. CASE CallAt(c, "idle", NoEvent)
  BY <1>1, <1>8, CallEnds
<1>9. CASE HalfAnswered(c, answers)
  <2> DEFINE d == [b EXCEPT !.answers = answers]
  <2>1. call' = [call EXCEPT ![c] = d]
    BY <1>9 DEF HalfAnswered
  <2>2. d \in Calls /\ d.at = "gate" /\ d.event = e /\ d.kinds = b.kinds /\ d.answers = answers
    BY <1>1, <1>2, <1>5 DEF Calls
  <2> HIDE DEF d, answers
  <2>3. SoundGate(d)
    BY <1>3, <1>6, <1>7, <2>2 DEF SoundGate
  <2>4. SoundCall(d)
    BY <1>3, <2>2, <2>3 DEF SoundCall
  <2> QED
    BY <1>1, <1>4, <2>1, <2>2, <2>4, CallMoves DEF Held
<1>10. ASSUME BothAnswered(answers), pairFresh(answers)
       PROVE  \A src \in Sources : WasFresh(k, src, e.at)
  BY <1>6, <1>10 DEF BothAnswered, pairFresh
<1>11. CASE BothAnswered(answers) /\ pairFresh(answers) /\ NextKind(c, k)
  <2> DEFINE d == [b EXCEPT !.kinds = b.kinds \ {k}, !.answers = {}]
  <2>1. call' = [call EXCEPT ![c] = d]
    BY <1>2, <1>11 DEF NextKind, ProviderInv, LifecycleTypes
  <2>2. d \in Calls /\ d.at = "gate" /\ d.event = e /\ d.kinds = b.kinds \ {k} /\ d.answers = {}
    BY <1>1, <1>2 DEF Calls
  <2> HIDE DEF d, answers
  <2>3. SoundGate(d)
    BY <1>3, <1>10, <1>11, <2>2 DEF SoundGate
  <2>4. SoundCall(d)
    BY <1>3, <2>2, <2>3 DEF SoundCall
  <2> QED
    BY <1>1, <1>4, <2>1, <2>2, <2>4, CallMoves DEF Held
<1>12. CASE /\ BothAnswered(answers) /\ pairFresh(answers) /\ b.kinds = {k}
            /\ CallAt(c, "insert", e)
  <2> DEFINE d == [NoCall EXCEPT !.at = "insert", !.event = e]
  <2>1. call' = [call EXCEPT ![c] = d]
    BY <1>12 DEF CallAt
  <2>2. d \in Calls /\ d.at = "insert" /\ d.event = e
    BY <1>2, PlainCalls DEF CallSteps
  <2> HIDE DEF d, answers
  <2>3. EarnedActive(e)
    BY <1>3, <1>10, <1>12 DEF SoundGate, EarnedActive
  <2>4. SoundCall(d)
    BY <1>3, <2>2, <2>3 DEF SoundCall
  <2> QED
    BY <1>1, <1>4, <2>1, <2>2, <2>4, CallMoves DEF Held
<1> QED
  BY <1>8, <1>9, <1>11, <1>12 DEF activationGate

LEMMA ProjectKeeps ==
    ASSUME ProviderInv, NEW c \in Callers, projectState(c)
    PROVE  ProviderInv'
<1> DEFINE e == call[c].event
           d == [NoCall EXCEPT !.at = "audit", !.event = e]
<1>1. /\ UNCHANGED <<now, events, audits, records>> /\ call[c].at = "project"
      /\ projected' = e.to /\ call' = [call EXCEPT ![c] = d] /\ window' \in Nat
  BY DEF projectState, CallAt, verificationVars, ProviderInv, LifecycleTypes, RecordsTyped
<1>2. /\ e \in Event /\ \E i \in 1..Len(events) : events[i] = e /\ audits[i] = 0
  BY <1>1, LedgerFacts DEF ProviderInv, CallsSound, SoundCall
<1>3. e.to \in LifecycleStates
  BY <1>2 DEF Event
<1>4. d \in Calls /\ d.at = "audit" /\ d.event = e
  BY <1>2, PlainCalls DEF CallSteps
<1> HIDE DEF d
<1>5. SoundCall(d)
  BY <1>2, <1>4 DEF SoundCall
<1>6. Known(e.to)
  BY <1>2 DEF Known
<1> QED
  BY <1>1, <1>3, <1>4, <1>5, <1>6, CallMoves DEF Held

(* The instant a sweep takes from the answers is a natural number. *)
LEMMA LapseTyped ==
    ASSUME NEW answers \in SUBSET SourceAnswers, NEW listed \in Nat
    PROVE  LapsedAt(answers, listed) \in Nat
<1> DEFINE ends == UNION {a.ends : a \in answers}
<1>1. ends \in SUBSET Nat
  BY DEF SourceAnswers
<1>2. ends # {} => \E n \in ends : \A m \in ends : n <= m
  BY <1>1, Least
<1>3. LapsedAt(answers, listed) = IF ends = {} THEN listed
                                  ELSE CHOOSE t \in ends : \A u \in ends : t <= u
  BY DEF LapsedAt
<1> HIDE DEF ends
<1> QED
  BY <1>1, <1>2, <1>3

LEMMA SweepKindKeeps ==
    ASSUME ProviderInv, NEW c \in Callers, NEW k \in Range(VerificationKinds),
           NEW s \in Sources, sweepKind(c, k, s)
    PROVE  ProviderInv'
<1> DEFINE b == call[c]
           answers == Answers(c, k, s)
           n == LapsedAt(answers, b.event.at)
           e == [from |-> "ACTIVE", to |-> "DEGRADED", reason |-> k, at |-> n]
<1>1. UNCHANGED <<now, projected, events, audits, verificationVars>> /\ b.at = "sweep"
  BY DEF sweepKind
<1>2. /\ LifecycleTypes /\ b \in Calls /\ b.event.at \in Nat
      /\ b.kinds \subseteq Range(VerificationKinds)
  BY LedgerFacts DEF ProviderInv, Calls, Event
<1>3. /\ UNCHANGED records /\ window' \in Nat
      /\ projected' \in LifecycleStates /\ Known(projected')
  BY <1>1 DEF ProviderInv, LifecycleTypes, RecordsTyped, EventsSound, Known, verificationVars
<1>4. answers \subseteq SourceAnswers
  BY <1>2, AnswerFacts DEF Answers, Calls
<1>5. CASE CallAt(c, "idle", NoEvent)
  BY <1>1, <1>5, CallEnds
<1>6. ASSUME NEW d \in Calls, d.at = "sweep", call' = [call EXCEPT ![c] = d]
      PROVE  ProviderInv'
  <2>1. SoundCall(d) /\ d.at \notin Held
    BY <1>6 DEF SoundCall, Held
  <2> QED
    BY <1>1, <1>3, <1>6, <2>1, CallMoves
<1>7. CASE HalfAnswered(c, answers)
  <2> DEFINE d == [b EXCEPT !.answers = answers]
  <2>1. call' = [call EXCEPT ![c] = d]
    BY <1>7 DEF HalfAnswered
  <2>2. d \in Calls /\ d.at = "sweep"
    BY <1>1, <1>2, <1>4 DEF Calls
  <2> QED
    BY <1>6, <2>1, <2>2
<1>8. CASE NextKind(c, k)
  <2> DEFINE d == [b EXCEPT !.kinds = b.kinds \ {k}, !.answers = {}]
  <2>1. call' = [call EXCEPT ![c] = d]
    BY <1>2, <1>8 DEF NextKind, ProviderInv, LifecycleTypes
  <2>2. d \in Calls /\ d.at = "sweep"
    BY <1>1, <1>2 DEF Calls
  <2> QED
    BY <1>6, <2>1, <2>2
<1>9. CASE CallAt(c, "begin", e)
  <2>1. n \in Nat
    BY <1>2, <1>4, LapseTyped
  <2> HIDE DEF n, answers
  <2>2. e \in Event /\ e.to = "DEGRADED"
    BY <2>1 DEF Event, LifecycleStates, Reasons
  <2> HIDE DEF e
  <2> DEFINE d == [NoCall EXCEPT !.at = "begin", !.event = e]
  <2>3. d \in Calls /\ d.at = "begin" /\ d.event = e
    BY <2>2, PlainCalls DEF CallSteps
  <2>4. call' = [call EXCEPT ![c] = d]
    BY <1>9 DEF CallAt
  <2> HIDE DEF d
  <2>5. SoundCall(d) /\ d.at \notin Held
    BY <2>2, <2>3 DEF SoundCall, Held
  <2> QED
    BY <1>1, <1>3, <2>3, <2>4, <2>5, CallMoves
<1> QED
  BY <1>5, <1>7, <1>8, <1>9 DEF sweepKind

LEMMA SweepCallsKeep ==
    ASSUME ProviderInv, NEW c \in Callers,
           \/ sweepList(c) \/ kindsWithRecords(c) \/ sweepTransition(c) \/ CallerDies(c)
           \/ refreshProjectionWindow(c)
           \/ \E to \in {"VERIFIED", "ACTIVE", "BLOCKED"} : requestState(c, to)
    PROVE  ProviderInv'
<1>1. /\ LifecycleTypes /\ RecordsTyped /\ call[c] \in Calls /\ call[c].event \in Event
      /\ SoundCall(call[c]) /\ now \in Nat /\ projected \in LifecycleStates /\ window \in Nat
      /\ Known(projected)
  BY LedgerFacts DEF ProviderInv, LifecycleTypes, RecordsTyped, CallsSound, EventsSound
<1>2. CASE sweepList(c)
  <2>1. [NoEvent EXCEPT !.at = window] \in Event
    BY <1>1, NoCallTyped DEF Event
  <2>2. /\ CallAt(c, "list", [NoEvent EXCEPT !.at = window]) /\ window' \in Nat
        /\ UNCHANGED <<now, projected, events, audits, records>>
    BY <1>1, <1>2 DEF sweepList, verificationVars
  <2> QED
    BY <2>1, <2>2, CallGoesOn
<1>3. CASE kindsWithRecords(c)
  <2> DEFINE kinds == {r.kind : r \in records}
             d == [call[c] EXCEPT !.at = "sweep", !.kinds = kinds]
  <2>1. UNCHANGED <<now, projected, events, audits, verificationVars>>
    BY <1>3 DEF kindsWithRecords
  <2>2. CASE CallAt(c, "idle", NoEvent)
    BY <2>1, <2>2, CallEnds
  <2>3. CASE call' = [call EXCEPT ![c].at = "sweep", ![c].kinds = kinds]
    <3>1. kinds \subseteq Range(VerificationKinds)
      BY <1>1 DEF RecordsTyped, Verifications
    <3>2. call' = [call EXCEPT ![c] = d]
      BY <1>1, <2>3 DEF LifecycleTypes
    <3>3. d \in Calls /\ d.at = "sweep"
      BY <1>1, <3>1 DEF Calls, CallSteps
    <3> HIDE DEF d
    <3>4. SoundCall(d) /\ d.at \notin Held
      BY <3>3 DEF SoundCall, Held
    <3>5. /\ UNCHANGED <<now, events, audits, records>> /\ window' \in Nat
          /\ projected' \in LifecycleStates /\ Known(projected')
      BY <1>1, <2>1 DEF verificationVars, Known
    <3> QED
      BY <3>2, <3>3, <3>4, <3>5, CallMoves
  <2> QED
    BY <1>3, <2>2, <2>3 DEF kindsWithRecords
<1>4. CASE sweepTransition(c)
  <2>1. /\ Begin(c, call[c].event) /\ call[c].event.to # "ACTIVE"
        /\ UNCHANGED <<now, projected, events, audits, verificationVars>>
    BY <1>1, <1>4 DEF sweepTransition, SoundCall
  <2> QED
    BY <1>1, <2>1, BeginKeeps
<1>5. CASE CallerDies(c)
  BY <1>5, CallEnds DEF CallerDies
<1>6. CASE refreshProjectionWindow(c)
  <2>1. /\ CallAt(c, "idle", NoEvent) /\ UNCHANGED <<now, projected, events, audits, records>>
        /\ window' \in {window} \cup {r.until : r \in {r \in records : r.outcome = "PASSED"}}
    BY <1>6 DEF refreshProjectionWindow
  <2>2. window' \in Nat
    BY <1>1, <2>1, LedgerFacts
  <2> QED
    BY <2>1, <2>2, CallGoesOn, NoCallTyped
<1>7. ASSUME NEW to \in {"VERIFIED", "ACTIVE", "BLOCKED"}, requestState(c, to)
      PROVE  ProviderInv'
  <2> DEFINE e == [from |-> projected, to |-> to, reason |-> Manual, at |-> now]
  <2>1. Begin(c, e) /\ UNCHANGED <<now, projected, events, audits, verificationVars>>
    BY <1>7 DEF requestState
  <2>2. e \in Event /\ e.at = now /\ e.at <= now
    BY <1>1 DEF Event, LifecycleStates, Terminal, Reasons
  <2> HIDE DEF e
  <2> QED
    BY <2>1, <2>2, BeginKeeps
<1> QED
  BY <1>2, <1>3, <1>4, <1>5, <1>6, <1>7

LEMMA InsertKeeps ==
    ASSUME ProviderInv, NEW c \in Callers, insertEvent(c)
    PROVE  ProviderInv'
<1>1. UNCHANGED <<now, projected, verificationVars>> /\ call[c].at = "insert"
  BY DEF insertEvent
<1>2. CASE CallAt(c, "idle", NoEvent) /\ UNCHANGED <<events, audits>>
  BY <1>1, <1>2, CallEnds
<1>3. CASE /\ ~Fenced(call[c].event) /\ Len(events) < MaxEvents
           /\ events' = Append(events, call[c].event) /\ audits' = Append(audits, 0)
           /\ CallAt(c, "project", call[c].event)
  <2>1. /\ LifecycleTypes /\ CallsSound /\ OneHolder /\ EventsSound
        /\ events \in Seq(Event) /\ audits \in Seq(Nat) /\ Len(audits) = Len(events)
        /\ call \in [Callers -> Calls]
    BY DEF ProviderInv, LifecycleTypes
  <2>2. /\ Len(events) \in Nat /\ now \in Nat
        /\ \A i \in 1..Len(events) : events[i] \in Event /\ audits[i] \in Nat
    BY <2>1, LedgerFacts
  <2>3. PICK e \in Event : e = call[c].event
    BY <2>1, LedgerFacts
  <2>4. /\ LegalEdge(e.from, e.to) /\ Known(e.from) /\ EarnedActive(e)
        /\ \A i \in 1..Len(events) : events[i] # e
    BY <1>1, <1>3, <2>1, <2>3 DEF CallsSound, SoundCall, Fenced
  <2>5. PICK m \in Nat : m = Len(events) + 1
    BY <2>2
  <2> DEFINE d == [NoCall EXCEPT !.at = "project", !.event = e]
  <2>6. d \in Calls /\ d.at = "project" /\ d.event = e
    <3>1. "project" \in CallSteps
      BY DEF CallSteps
    <3> QED
      BY <2>3, <3>1, PlainCalls
  <2>7. call' = [call EXCEPT ![c] = d]
    BY <1>3, <2>3 DEF CallAt
  <2> HIDE DEF d
  <2>8. /\ events' \in Seq(Event) /\ Len(events') = m /\ events'[m] = e
        /\ \A i \in 1..Len(events) : events'[i] = events[i]
    BY <1>3, <2>1, <2>2, <2>3, <2>5, AppendProperties
  <2>9. /\ audits' \in Seq(Nat) /\ Len(audits') = m /\ audits'[m] = 0
        /\ \A i \in 1..Len(events) : audits'[i] = audits[i]
    BY <1>3, <2>1, <2>2, <2>5, AppendProperties
  <2>10. /\ m \in Nat /\ m <= MaxEvents /\ \A i \in 1..m : i \in 1..Len(events) \/ i = m
         /\ 1..Len(events) \subseteq 1..m /\ m \in 1..m /\ 1..m - 1 = 1..Len(events)
         /\ \A i \in 1..Len(events) : 1..i - 1 \subseteq 1..Len(events)
    BY <1>3, <2>2, <2>5, LifecycleNumbers
  <2>11. LedgerGrows
    BY <1>1, <2>2, <2>8, <2>5 DEF LedgerGrows, verificationVars
  <2>12. /\ call' \in [Callers -> Calls] /\ \A x \in Callers : call'[x] = IF x = c THEN d ELSE call[x]
    BY <2>1, <2>6, <2>7
  <2>13. LifecycleTypes'
    BY <1>1, <2>1, <2>8, <2>9, <2>10, <2>12 DEF LifecycleTypes, RecordsTyped, verificationVars
  <2>14. \A s : Known(s) => Known(s)'
    BY <2>1, <2>11, KnownStays
  <2>15. \A f \in Event : EarnedActive(f) => EarnedActive(f)'
    BY <2>1, <2>11, EarnedStays
  <2>16. ASSUME NEW x \in Callers PROVE SoundCall(call[x])'
    <3>1. CASE x = c
      <4>1. call'[x] = d
        BY <2>12, <3>1
      <4> QED
        BY <2>6, <2>8, <2>9, <2>10, <4>1 DEF SoundCall
    <3>2. CASE x # c
      <4>1. PICK y \in Calls : y = call[x]
        BY <2>1
      <4>2. call'[x] = y /\ SoundCall(y) /\ y.event \in Event
        BY <2>1, <2>12, <3>2, <4>1 DEF CallsSound, Calls
      <4>3. y.at \in {"gate", "insert"} =>
                LegalEdge(y.event.from, y.event.to) /\ Known(y.event.from)'
        BY <2>14, <4>2 DEF SoundCall
      <4>4. /\ y.at = "insert" => EarnedActive(y.event)'
            /\ y.at = "gate" => SoundGate(y)'
        BY <2>1, <2>11, <2>15, <4>2, GateStays DEF SoundCall
      <4>5. y.at \in {"project", "audit"} =>
                \E i \in 1..Len(events') : events'[i] = y.event /\ audits'[i] = 0
        BY <2>8, <2>9, <2>10, <4>2 DEF SoundCall
      <4>6. SoundCall(y)'
        BY <4>2, <4>3, <4>4, <4>5 DEF SoundCall
      <4> QED
        BY <4>2, <4>6 DEF SoundCall, SoundGate, Known, EarnedActive
    <3> QED
      BY <3>1, <3>2
  <2>17. OneHolder'
    <3> SUFFICES ASSUME NEW x \in Callers, NEW y \in Callers, x # y, call'[x].at \in Held,
                        call'[y].at \in Held
                 PROVE  call'[x].event # call'[y].event
      BY DEF OneHolder, Held
    <3>1. \A z \in Callers : z # c /\ call'[z].at \in Held =>
              \E i \in 1..Len(events) : events[i] = call'[z].event
      BY <2>1, <2>12 DEF CallsSound, SoundCall, Held
    <3>2. CASE x = c \/ y = c
      BY <2>4, <2>6, <2>12, <3>1, <3>2
    <3>3. CASE x # c /\ y # c
      BY <2>1, <2>12, <3>3 DEF OneHolder, Held
    <3> QED
      BY <3>2, <3>3
  <2>18. EventsSound'
    <3>1. Known(projected)'
      <4>1. PICK s : s = projected
        OBVIOUS
      <4>2. Known(s)'
        BY <2>1, <2>14, <4>1 DEF EventsSound
      <4> QED
        BY <1>1, <4>1, <4>2 DEF Known
    <3>2. ASSUME NEW i \in 1..Len(events) PROVE SoundEvent(i)' /\ audits'[i] <= 1
      <4>1. SoundEvent(i) /\ audits[i] <= 1
        BY <2>1 DEF EventsSound
      <4>2. PICK f \in Event : f = events[i]
        BY <2>2
      <4>3. EarnedActive(f)'
        BY <2>15, <4>1, <4>2 DEF SoundEvent
      <4>4. EarnedActive(events[i])'
        BY <2>8, <4>2, <4>3 DEF EarnedActive
      <4>5. \A j \in 1..i - 1 : events'[j] = events[j]
        BY <2>8, <2>10
      <4> QED
        BY <2>8, <2>9, <4>1, <4>4, <4>5 DEF SoundEvent
    <3>3. SoundEvent(m)' /\ audits'[m] <= 1
      <4>1. EarnedActive(e)'
        BY <2>4, <2>15
      <4>2. EarnedActive(events[m])'
        BY <2>8, <4>1 DEF EarnedActive
      <4> QED
        BY <2>4, <2>8, <2>9, <2>10, <4>2 DEF SoundEvent, Known
    <3> QED
      BY <2>8, <2>10, <3>1, <3>2, <3>3 DEF EventsSound
  <2> QED
    BY <2>13, <2>16, <2>17, <2>18 DEF ProviderInv, CallsSound
<1> QED
  BY <1>2, <1>3 DEF insertEvent

LEMMA AuditKeeps ==
    ASSUME ProviderInv, NEW c \in Callers, transitionAppended(c)
    PROVE  ProviderInv'
<1> DEFINE d == [NoCall EXCEPT !.at = "idle", !.event = NoEvent]
<1>1. /\ call[c].at = "audit" /\ UNCHANGED <<now, projected, events, records, window>>
      /\ call' = [call EXCEPT ![c] = d]
      /\ audits' = [i \in 1..Len(events) |->
                       IF events[i] = call[c].event THEN audits[i] + 1 ELSE audits[i]]
  BY DEF transitionAppended, CallAt, verificationVars
<1>2. d \in Calls /\ d.at = "idle"
  <2>1. "idle" \in CallSteps
    BY DEF CallSteps
  <2> QED
    BY <2>1, NoCallTyped, PlainCalls
<1> HIDE DEF d
<1>3. /\ LifecycleTypes /\ CallsSound /\ OneHolder /\ EventsSound /\ call \in [Callers -> Calls]
  BY DEF ProviderInv, LifecycleTypes
<1>4. /\ Len(events) \in Nat
      /\ \A i \in 1..Len(events) : events[i] \in Event /\ audits[i] \in Nat
  BY <1>3, LedgerFacts
<1>5. PICK n \in 1..Len(events) : events[n] = call[c].event /\ audits[n] = 0
  BY <1>1, <1>3 DEF CallsSound, SoundCall
<1>6. \A i \in 1..Len(events) : events[i] = call[c].event => i = n
  <2> SUFFICES ASSUME NEW i \in 1..Len(events), events[i] = call[c].event, i # n PROVE FALSE
    OBVIOUS
  <2>1. i \in 1..n - 1 \/ n \in 1..i - 1
    BY <1>4, <1>5
  <2> QED
    BY <1>3, <1>5, <2>1 DEF EventsSound, SoundEvent
<1>7. /\ audits' \in Seq(Nat) /\ Len(audits') = Len(events)
      /\ \A i \in 1..Len(events) : audits'[i] = IF i = n THEN 1 ELSE audits[i]
  <2>1. \A i \in 1..Len(events) :
            (IF events[i] = call[c].event THEN audits[i] + 1 ELSE audits[i]) \in Nat
    BY <1>4
  <2>2. audits' \in [1..Len(events) -> Nat]
    BY <1>1, <2>1
  <2>3. audits' \in Seq(Nat) /\ Len(audits') = Len(events)
    BY <1>4, <2>2
  <2> QED
    BY <1>1, <1>5, <1>6, <2>3
<1>8. /\ call' \in [Callers -> Calls] /\ \A x \in Callers : call'[x] = IF x = c THEN d ELSE call[x]
  BY <1>1, <1>2, <1>3
<1>9. LifecycleTypes'
  BY <1>1, <1>3, <1>7, <1>8 DEF LifecycleTypes, RecordsTyped
<1>10. ASSUME NEW x \in Callers PROVE SoundCall(call[x])'
  <2>1. CASE x = c
    BY <1>2, <1>8, <2>1 DEF SoundCall
  <2>2. CASE x # c
    <3>1. call'[x] = call[x] /\ SoundCall(call[x])
      BY <1>3, <1>8, <2>2 DEF CallsSound
    <3>2. call[x].at \in {"project", "audit"} =>
              \E i \in 1..Len(events') : events'[i] = call'[x].event /\ audits'[i] = 0
      <4> SUFFICES ASSUME call[x].at \in {"project", "audit"}
                   PROVE  \E i \in 1..Len(events') : events'[i] = call'[x].event /\ audits'[i] = 0
        OBVIOUS
      <4>1. call[x].event # call[c].event
        BY <1>1, <1>3, <2>2 DEF OneHolder
      <4>2. PICK i \in 1..Len(events) : events[i] = call[x].event /\ audits[i] = 0
        BY <3>1 DEF SoundCall
      <4> QED
        BY <1>1, <1>5, <1>7, <3>1, <4>1, <4>2
    <3> QED
      BY <1>1, <3>1, <3>2 DEF SoundCall, SoundGate, Known, EarnedActive, WasFresh, FreshAt
  <2> QED
    BY <2>1, <2>2
<1>11. OneHolder'
  BY <1>2, <1>3, <1>8 DEF OneHolder
<1>12. EventsSound'
  BY <1>1, <1>3, <1>4, <1>7 DEF EventsSound, SoundEvent, Known, EarnedActive, WasFresh, FreshAt
<1> QED
  BY <1>9, <1>10, <1>11, <1>12 DEF ProviderInv, CallsSound

(* The clock moves or a verification is recorded. *)
LEMMA TimeKeeps ==
    ASSUME ProviderInv, UNCHANGED <<projected, events, audits>>,
           now' \in 0..MaxNow, now' >= now, records \subseteq records', RecordsTyped',
           call' \in [Callers -> Calls],
           \A c \in Callers : call'[c] = call[c] \/ call'[c].at \in {"idle", "refresh"}
    PROVE  ProviderInv'
<1>1. /\ LifecycleTypes /\ CallsSound /\ OneHolder /\ EventsSound /\ call \in [Callers -> Calls]
  BY DEF ProviderInv, LifecycleTypes
<1>2. /\ Len(events) \in Nat /\ now \in Nat
      /\ \A i \in 1..Len(events) : events[i] \in Event
      /\ \A c \in Callers : call[c].event \in Event
  BY <1>1, LedgerFacts
<1>3. LifecycleTypes'
  BY <1>1 DEF LifecycleTypes
<1>4. LedgerGrows
  BY <1>2, LifecycleNumbers DEF LedgerGrows
<1>5. \A f \in Event : EarnedActive(f) => EarnedActive(f)'
  BY <1>1, <1>4, EarnedStays
<1>6. ASSUME NEW x \in Callers PROVE SoundCall(call[x])'
  <2>1. PICK y \in Calls : y = call'[x]
    OBVIOUS
  <2>2. CASE y.at \in {"idle", "refresh"}
    BY <2>1, <2>2 DEF SoundCall
  <2>3. CASE y = call[x]
    <3>1. SoundCall(y) /\ y.event \in Event
      BY <1>1, <1>2, <2>3 DEF CallsSound
    <3>2. /\ y.at = "insert" => EarnedActive(y.event)'
          /\ y.at = "gate" => SoundGate(y)'
      BY <1>1, <1>4, <1>5, <3>1, GateStays DEF SoundCall
    <3>3. SoundCall(y)'
      BY <3>1, <3>2 DEF SoundCall, Known
    <3> QED
      BY <2>1, <3>3 DEF SoundCall, SoundGate, Known, EarnedActive
  <2> QED
    BY <2>1, <2>2, <2>3
<1>7. EventsSound'
  <2>1. ASSUME NEW i \in 1..Len(events) PROVE SoundEvent(i)' /\ audits'[i] <= 1
    <3>1. SoundEvent(i) /\ audits[i] <= 1
      BY <1>1 DEF EventsSound
    <3>2. PICK f \in Event : f = events[i]
      BY <1>2
    <3>3. EarnedActive(f)'
      BY <1>5, <3>1, <3>2 DEF SoundEvent
    <3>4. EarnedActive(events[i])'
      BY <3>2, <3>3 DEF EarnedActive
    <3> QED
      BY <3>1, <3>4 DEF SoundEvent
  <2> QED
    BY <1>1, <2>1 DEF EventsSound, Known
<1>8. OneHolder'
  BY <1>1 DEF OneHolder
<1> QED
  BY <1>3, <1>6, <1>7, <1>8 DEF ProviderInv, CallsSound

LEMMA VerificationKeeps ==
    ASSUME ProviderInv, NEW c \in Callers, NEW attempt \in Attempts, NEW at \in Nat,
           NEW until \in Nat, recordVerification(c, attempt, at, until)
    PROVE  ProviderInv'
<1> DEFINE v == [kind |-> attempt.kind, source |-> attempt.source,
                 outcome |-> attempt.outcome, at |-> at, until |-> until]
           place == IF attempt.outcome = "PASSED" THEN "refresh" ELSE "idle"
           d == [NoCall EXCEPT !.at = place, !.event = NoEvent]
<1>1. /\ now \in 0..MaxNow /\ now \in Nat /\ RecordsTyped /\ call \in [Callers -> Calls]
  BY LedgerFacts DEF ProviderInv, LifecycleTypes
<1>2. /\ records' = records \cup {v} /\ at < until /\ Cardinality(records) < MaxRecords
      /\ UNCHANGED <<now, projected, events, audits, window>>
      /\ call' = [call EXCEPT ![c] = d]
  BY DEF recordVerification, CallAt
<1>3. v \notin records /\ v \in Verifications /\ v.at < v.until
  BY <1>2, LifecycleAssumption DEF recordVerification, Verifications
<1> HIDE DEF v
<1>4. IsFiniteSet(records') /\ Cardinality(records') = Cardinality(records) + 1
  BY <1>1, <1>2, <1>3, FS_AddElement DEF RecordsTyped
<1>5. Cardinality(records) \in Nat
  BY <1>1, FS_CardinalityType DEF RecordsTyped
<1>6. RecordsTyped'
  BY <1>1, <1>2, <1>3, <1>4, <1>5, LifecycleNumbers DEF RecordsTyped
<1>7. place \in {"idle", "refresh"}
  OBVIOUS
<1> HIDE DEF place
<1>8. d \in Calls /\ d.at = place
  <2>1. place \in CallSteps
    BY <1>7 DEF CallSteps
  <2> QED
    BY <2>1, NoCallTyped, PlainCalls
<1> HIDE DEF d
<1>9. call' \in [Callers -> Calls]
      /\ \A x \in Callers : call'[x] = call[x] \/ call'[x].at \in {"idle", "refresh"}
  BY <1>1, <1>2, <1>7, <1>8
<1> QED
  BY <1>1, <1>2, <1>6, <1>9, TimeKeeps

LEMMA ProviderStep ==
    ASSUME ProviderInv, [LifecycleNext]_lifecycleVars
    PROVE  ProviderInv'
<1>1. /\ now \in 0..MaxNow /\ now \in Nat /\ RecordsTyped /\ call \in [Callers -> Calls]
  BY LedgerFacts DEF ProviderInv, LifecycleTypes
<1>2. CASE ClockMoves \/ UNCHANGED lifecycleVars
  <2>1. /\ now' \in 0..MaxNow /\ now' >= now
        /\ UNCHANGED <<projected, events, audits, records, window, call>>
    BY <1>1, <1>2, LifecycleNumbers DEF ClockMoves, lifecycleVars, verificationVars
  <2>2. RecordsTyped'
    BY <1>1, <2>1 DEF RecordsTyped
  <2> QED
    BY <1>1, <2>1, <2>2, TimeKeeps
<1>3. ASSUME NEW c \in Callers, NEW attempt \in Attempts,
             \/ recordVerification(c, attempt, now, now + VerificationTtl)
             \/ \E w \in GivenWindows : recordVerification(c, attempt, w.at, w.until)
      PROVE  ProviderInv'
  <2>1. now + VerificationTtl \in Nat /\ \A w \in GivenWindows : w.at \in Nat /\ w.until \in Nat
    BY <1>1, LifecycleAssumption
  <2> QED
    BY <1>1, <1>3, <2>1, VerificationKeeps
<1>4. ASSUME NEW c \in Callers,
             \/ \E to \in {"VERIFIED", "ACTIVE", "BLOCKED"} : requestState(c, to)
             \/ refreshProjectionWindow(c) \/ insertEvent(c) \/ projectState(c)
             \/ transitionAppended(c) \/ sweepList(c) \/ kindsWithRecords(c)
             \/ sweepTransition(c) \/ CallerDies(c)
             \/ \E k \in Range(VerificationKinds), s \in Sources :
                    activationGate(c, k, s) \/ sweepKind(c, k, s)
      PROVE  ProviderInv'
  BY <1>4, GateKeeps, InsertKeeps, ProjectKeeps, AuditKeeps, SweepCallsKeep, SweepKindKeeps
<1> QED
  BY <1>2, <1>3, <1>4 DEF LifecycleNext

LEMMA ProviderStarts == LifecycleInit => ProviderInv
<1> SUFFICES ASSUME LifecycleInit PROVE ProviderInv
  OBVIOUS
<1>1. events = <<>> /\ audits = <<>> /\ Len(events) = 0 /\ Len(audits) = 0 /\ records = {}
  BY DEF LifecycleInit
<1>2. call \in [Callers -> Calls] /\ \A c \in Callers : call[c].at = "idle"
  BY NoCallTyped DEF LifecycleInit
<1>3. RecordsTyped
  BY <1>1, FS_EmptySet, LifecycleNumbers DEF LifecycleInit, RecordsTyped
<1>4. LifecycleTypes
  BY <1>1, <1>2, <1>3, LifecycleNumbers DEF LifecycleInit, LifecycleTypes, LifecycleStates
<1>5. CallsSound /\ OneHolder
  BY <1>2 DEF CallsSound, SoundCall, OneHolder
<1>6. EventsSound
  BY <1>1 DEF LifecycleInit, EventsSound, Known
<1> QED
  BY <1>4, <1>5, <1>6 DEF ProviderInv

LEMMA ProviderInductive == LifecycleSpec => []ProviderInv
<1>1. ProviderInv /\ [LifecycleNext]_lifecycleVars => ProviderInv'
  BY ProviderStep
<1> QED
  BY <1>1, ProviderStarts, PTL DEF LifecycleSpec

(* For any number of operators and sweeps, whoever races or dies: every      *)
(* event of the ledger is a legal edge out of a state that was projected,    *)
(* once, audited at most once, and ACTIVE was entered only when each source  *)
(* of every gated kind was fresh at some instant while the transition was    *)
(* being made, whatever is recorded, read or lapses between the queries of   *)
(* the gate (transition, evaluateKind, activationGate).                      *)
THEOREM LedgerIsSound == LifecycleSpec => []LedgerSound
<1>1. ProviderInv => LedgerSound
  <2> SUFFICES ASSUME ProviderInv PROVE LedgerSound
    OBVIOUS
  <2>1. EventsSound /\ Len(audits) = Len(events)
    BY DEF ProviderInv, LifecycleTypes
  <2> QED
    BY <2>1 DEF LedgerSound, EventsSound, SoundEvent, Known, EarnedActive, WasFresh
<1> QED
  BY <1>1, ProviderInductive, PTL

LEMMA LifecycleTyped == ProviderInv => LifecycleTypeOK
<1> SUFFICES ASSUME ProviderInv PROVE LifecycleTypeOK
  OBVIOUS
<1>1. LifecycleTypes
  BY DEF ProviderInv
<1>2. /\ \A c \in Callers : call[c].event \in Event
      /\ \A r \in records : r.kind \in Range(VerificationKinds) /\ r.source \in Sources
  BY <1>1, LedgerFacts DEF Verifications
<1> QED
  BY <1>1, <1>2 DEF LifecycleTypes, RecordsTyped, LifecycleTypeOK

-----------------------------------------------------------------------------
(* Module activation: types, for any histories of the scope *)

Stops == {"DEGRADED", "PAUSED", "DISABLED"}
EventRefs == ActivationEvents \union {NoActivation}
TxSteps == {"none", "begun", "checked", "inserted"}
StateRows == [state : Lifecycle, event : EventRefs, kind : ActivationKinds \union {"none"},
              at : 0..MaxInstant, next : 0..MaxRows]
Containments == [action : Stops, cleared : BOOLEAN, at : 0..MaxInstant, row : 1..MaxRows]
Txs == [op : {"none", "advance", "contain", "rollback"}, step : TxSteps, head : 0..MaxRows,
        to : Lifecycle \union {"none"}, batch : Batches \union {NoBatch}, event : EventRefs,
        at : 0..MaxInstant, began : 0..MaxInstant]

(* What each operation in progress asks for. *)
TxTyped(t) == t.step # "none" =>
    /\ t.to \in Lifecycle
    /\ t.op = "contain" => t.to \in Stops
    /\ t.op = "rollback" => t.event \in ActivationEvents

ActivationTypes ==
    /\ instant \in 0..MaxInstant
    /\ stateRows \in Seq(StateRows) /\ Len(stateRows) <= MaxRows
    /\ evaluations \subseteq Batches
    /\ containments \in Seq(Containments)
    /\ rolledBack \subseteq ActivationEvents
    /\ tx \in [Sessions -> Txs] /\ \A s \in Sessions : TxTyped(tx[s])

LEMMA ActivationNumbers ==
    /\ MaxInstant \in Nat /\ MaxRows \in Nat /\ EvidenceTtl \in Nat /\ EvidenceTtl > 0
    /\ 0 \in 0..MaxInstant /\ 0 \in 0..MaxRows
  BY ActivationAssumption

LEMMA NoTxTyped == NoTx \in Txs /\ NoTx.step = "none" /\ TxTyped(NoTx) /\ NoBatch.event = NoActivation
  BY ActivationNumbers DEF NoTx, Txs, TxSteps, EventRefs, TxTyped, NoBatch

(* No edge leaves the lifecycle. *)
LEMMA LegalTargets == \A x \in Lifecycle \union {"NOT_IMPLEMENTED"} : LegalLifecycle[x] \subseteq Lifecycle
<1>1. /\ LegalLifecycle["NOT_IMPLEMENTED"] \subseteq Lifecycle
      /\ LegalLifecycle["IMPLEMENTED"] \subseteq Lifecycle
      /\ LegalLifecycle["AVAILABLE"] \subseteq Lifecycle
      /\ LegalLifecycle["SHADOW"] \subseteq Lifecycle
      /\ LegalLifecycle["PROVEN"] \subseteq Lifecycle
  BY DEF LegalLifecycle, Lifecycle
<1>2. /\ LegalLifecycle["ACTIVE"] \subseteq Lifecycle
      /\ LegalLifecycle["DEGRADED"] \subseteq Lifecycle
      /\ LegalLifecycle["PAUSED"] \subseteq Lifecycle
      /\ LegalLifecycle["RETIRED"] \subseteq Lifecycle
      /\ LegalLifecycle["DISABLED"] \subseteq Lifecycle
  BY DEF LegalLifecycle, Lifecycle
<1> SUFFICES ASSUME NEW x \in Lifecycle \union {"NOT_IMPLEMENTED"}
             PROVE  LegalLifecycle[x] \subseteq Lifecycle
  OBVIOUS
<1> QED
  BY <1>1, <1>2 DEF Lifecycle

LEMMA ActivationFacts ==
    ASSUME ActivationTypes
    PROVE  /\ Len(stateRows) \in Nat /\ DOMAIN stateRows = 1..Len(stateRows)
           /\ \A i \in 1..Len(stateRows) : stateRows[i] \in StateRows /\ stateRows[i].at \in Nat
           /\ DOMAIN containments = 1..Len(containments) /\ Len(containments) \in Nat
           /\ \A c \in 1..Len(containments) : containments[c] \in Containments
           /\ \A s \in Sessions : tx[s] \in Txs /\ TxTyped(tx[s])
           /\ \A b \in evaluations : b \in Batches /\ b.at \in Nat
<1>1. stateRows \in Seq(StateRows) /\ containments \in Seq(Containments)
  BY DEF ActivationTypes
<1>2. Len(stateRows) \in Nat /\ \A i \in 1..Len(stateRows) : stateRows[i] \in StateRows
  BY <1>1, ElementOfSeq
<1>3. \A i \in 1..Len(stateRows) : stateRows[i].at \in Nat
  BY <1>2, ActivationNumbers DEF StateRows
<1>4. Len(containments) \in Nat /\ \A c \in 1..Len(containments) : containments[c] \in Containments
  BY <1>1, ElementOfSeq
<1>5. DOMAIN stateRows = 1..Len(stateRows) /\ DOMAIN containments = 1..Len(containments)
  BY <1>1
<1>6. \A b \in evaluations : b \in Batches /\ b.at \in Nat
  BY ActivationNumbers DEF ActivationTypes, Batches
<1>7. \A s \in Sessions : tx[s] \in Txs /\ TxTyped(tx[s])
  BY DEF ActivationTypes
<1> QED
  BY <1>2, <1>3, <1>4, <1>5, <1>6, <1>7

LEMMA HeadsExist ==
    ASSUME ActivationTypes, NEW head \in HeadRows
    PROVE  /\ head = 0 \/ head \in 1..Len(stateRows)
           /\ head \in 0..MaxRows
           /\ StateOf(head) \in Lifecycle \union {"NOT_IMPLEMENTED"}
           /\ head # 0 => stateRows[head] \in StateRows /\ stateRows[head].next = 0
<1>1. head = 0 \/ head \in Unsuperseded
  BY DEF HeadRows
<1>2. head = 0 \/ (head \in 1..Len(stateRows) /\ stateRows[head].next = 0)
  BY <1>1, ActivationFacts DEF Unsuperseded
<1>3. head # 0 => stateRows[head] \in StateRows
  BY <1>2, ActivationFacts
<1>4. head \in 0..MaxRows
  BY <1>2, ActivationFacts, ActivationNumbers DEF ActivationTypes
<1>5. StateOf(head) \in Lifecycle \union {"NOT_IMPLEMENTED"}
  BY <1>3 DEF StateOf, StateRows
<1> QED
  BY <1>2, <1>3, <1>4, <1>5

LEMMA BeginTyped ==
    ASSUME ActivationTypes, NEW s \in Sessions, NEW op \in {"advance", "contain", "rollback"},
           NEW head \in 0..MaxRows, NEW to \in Lifecycle, NEW b \in Batches \union {NoBatch},
           NEW event \in EventRefs, BeginTx(s, op, "begun", head, to, b, event)
    PROVE  \E t \in Txs : /\ tx' = [tx EXCEPT ![s] = t]
                          /\ t.op = op /\ t.step = "begun" /\ t.head = head /\ t.to = to
                          /\ t.batch = b /\ t.event = event
<1> DEFINE t == [op |-> op, step |-> "begun", head |-> head, to |-> to, batch |-> b,
                 event |-> event, at |-> instant, began |-> 0]
<1>1. t \in Txs
  BY ActivationNumbers DEF Txs, TxSteps, ActivationTypes
<1>2. tx' = [tx EXCEPT ![s] = t]
  BY DEF BeginTx
<1> QED
  BY <1>1, <1>2

(* advanceState begins with a legal edge out of an unsuperseded head, and    *)
(* ACTIVE with a recorded PASS.                                              *)
LEMMA AdvanceBegins ==
    ASSUME ActivationTypes, NEW s \in Sessions, advanceState(s)
    PROVE  \E t \in Txs :
               /\ tx' = [tx EXCEPT ![s] = t] /\ TxTyped(t)
               /\ t.op = "advance" /\ t.step = "begun" /\ t.head \in HeadRows
               /\ t.to \in LegalLifecycle[StateOf(t.head)]
               /\ t.to = "ACTIVE" => /\ t.batch \in evaluations /\ t.batch.verdict = "PASS"
                                     /\ t.event = t.batch.event
<1> DEFINE Passes == {c \in evaluations : c.verdict = "PASS"} \union {NoBatch}
           ref(head, to, b) == IF to = "ACTIVE" THEN b.event
                               ELSE IF head = 0 THEN NoActivation ELSE stateRows[head].event
<1>0. PICK head \in HeadRows : \E to \in LegalLifecycle[StateOf(head)] \cap Targets : \E b \in Passes :
          /\ CASE to = "ACTIVE" -> b # NoBatch
               [] to = "PROVEN" -> b.kind = "OPPORTUNITY"
               [] OTHER -> b = NoBatch
          /\ BeginTx(s, "advance", "begun", head, to, b, ref(head, to, b))
  BY DEF advanceState
<1>1. PICK to \in LegalLifecycle[StateOf(head)] \cap Targets, b \in Passes :
          /\ CASE to = "ACTIVE" -> b # NoBatch
               [] to = "PROVEN" -> b.kind = "OPPORTUNITY"
               [] OTHER -> b = NoBatch
          /\ BeginTx(s, "advance", "begun", head, to, b, ref(head, to, b))
  BY <1>0
<1>2. to = "ACTIVE" => b # NoBatch
  BY <1>1
<1>3. to \in Lifecycle
  BY <1>1, HeadsExist, LegalTargets
<1>4. b \in Batches \union {NoBatch} /\ b.event \in EventRefs
  BY ActivationFacts, NoTxTyped DEF Batches, EventRefs
<1>5. head # 0 => stateRows[head].event \in EventRefs
  BY HeadsExist DEF StateRows
<1>6. ref(head, to, b) \in EventRefs
  BY <1>4, <1>5 DEF EventRefs
<1>7. head \in 0..MaxRows
  BY HeadsExist
<1>8. to = "ACTIVE" => ref(head, to, b) = b.event
  OBVIOUS
<1> HIDE DEF ref
<1>9. PICK t \in Txs : /\ tx' = [tx EXCEPT ![s] = t]
                       /\ t.op = "advance" /\ t.step = "begun" /\ t.head = head /\ t.to = to
                       /\ t.batch = b /\ t.event = ref(head, to, b)
  BY <1>1, <1>3, <1>4, <1>6, <1>7, BeginTyped
<1> QED
  BY <1>1, <1>2, <1>3, <1>8, <1>9 DEF TxTyped

(* The two operations that stop a module ask for a stop that is a legal edge. *)
LEMMA StopBegins ==
    ASSUME ActivationTypes, NEW s \in Sessions, containForFailedGate(s) \/ rollbackToApproved(s)
    PROVE  \E t \in Txs :
               /\ tx' = [tx EXCEPT ![s] = t] /\ TxTyped(t)
               /\ t.op \in {"contain", "rollback"} /\ t.step = "begun" /\ t.head \in HeadRows \ {0}
               /\ t.to \in LegalLifecycle[stateRows[t.head].state] /\ t.to \in Stops
<1>1. \A from, action : action \in Stops => ContainedState(from, action) \in Stops
  BY DEF ContainedState, Stops
<1>2. Stops \subseteq Lifecycle /\ NoBatch \in Batches \union {NoBatch} /\ "PAUSED" \in Stops
  BY DEF Stops, Lifecycle
<1>3. PICK op \in {"contain", "rollback"}, head \in HeadRows \ {0}, to \in Stops, event \in EventRefs :
          /\ to \in LegalLifecycle[stateRows[head].state]
          /\ BeginTx(s, op, "begun", head, to, NoBatch, event)
          /\ op = "rollback" => event \in ActivationEvents
  <2>1. CASE containForFailedGate(s)
    <3>1. PICK head \in HeadRows \ {0}, action \in Stops :
              /\ ContainedState(stateRows[head].state, action) \in LegalLifecycle[stateRows[head].state]
              /\ BeginTx(s, "contain", "begun", head, ContainedState(stateRows[head].state, action),
                         NoBatch, stateRows[head].event)
      BY <2>1 DEF containForFailedGate, Stops
    <3>2. stateRows[head].event \in EventRefs
      BY HeadsExist DEF StateRows
    <3> QED
      BY <1>1, <3>1, <3>2
  <2>2. CASE rollbackToApproved(s)
    <3>1. PICK head \in HeadRows \ {0}, event \in ActivationEvents :
              /\ ContainedState(stateRows[head].state, "PAUSED") \in LegalLifecycle[stateRows[head].state]
              /\ BeginTx(s, "rollback", "begun", head, ContainedState(stateRows[head].state, "PAUSED"),
                         NoBatch, event)
      BY <2>2 DEF rollbackToApproved
    <3>2. event \in EventRefs
      BY DEF EventRefs
    <3> QED
      BY <1>1, <1>2, <3>1, <3>2
  <2> QED
    BY <2>1, <2>2
<1>4. head \in 0..MaxRows
  BY HeadsExist
<1>5. PICK t \in Txs : /\ tx' = [tx EXCEPT ![s] = t]
                       /\ t.op = op /\ t.step = "begun" /\ t.head = head /\ t.to = to
                       /\ t.batch = NoBatch /\ t.event = event
  BY <1>2, <1>3, <1>4, BeginTyped
<1> QED
  BY <1>2, <1>3, <1>5 DEF TxTyped

(* A transaction goes on to its next statement, or ends. *)
LEMMA TxGoesOn ==
    ASSUME ActivationTypes, NEW s \in Sessions, txCheck(s) \/ txInsert(s) \/ SessionDies(s)
    PROVE  \E t \in Txs :
               /\ tx' = [tx EXCEPT ![s] = t] /\ TxTyped(t)
               /\ \/ t = NoTx
                  \/ /\ \/ tx[s].step = "begun" /\ t.step = "checked" /\ MayProceed(s)
                        \/ /\ tx[s].step = "checked" /\ t.step = "inserted"
                           /\ t.to = "ACTIVE" => TriggersAdmit(t.batch, t.began)
                     /\ t.op = tx[s].op /\ t.head = tx[s].head /\ t.to = tx[s].to
                     /\ t.batch = tx[s].batch /\ t.event = tx[s].event /\ t.at = tx[s].at
<1>1. /\ tx \in [Sessions -> Txs] /\ tx[s] \in Txs /\ TxTyped(tx[s])
      /\ instant \in 0..MaxInstant
  BY DEF ActivationTypes
<1>2. CASE EndTx(s)
  BY <1>2, NoTxTyped DEF EndTx
<1>3. CASE /\ tx[s].step = "begun" /\ MayProceed(s)
           /\ tx' = [tx EXCEPT ![s].step = "checked", ![s].began = instant]
  <2> DEFINE t == [tx[s] EXCEPT !.step = "checked", !.began = instant]
  <2>1. /\ t \in Txs /\ t.step = "checked" /\ t.op = tx[s].op /\ t.head = tx[s].head
        /\ t.to = tx[s].to /\ t.batch = tx[s].batch /\ t.event = tx[s].event /\ t.at = tx[s].at
    BY <1>1 DEF Txs, TxSteps
  <2>2. tx' = [tx EXCEPT ![s] = t]
    BY <1>1, <1>3
  <2> HIDE DEF t
  <2>3. TxTyped(t)
    BY <1>1, <1>3, <2>1 DEF TxTyped
  <2> QED
    BY <1>3, <2>1, <2>2, <2>3
<1>4. CASE /\ tx[s].step = "checked"
           /\ ~(tx[s].to = "ACTIVE" /\ ~TriggersAdmit(tx[s].batch, tx[s].began))
           /\ tx' = [tx EXCEPT ![s].step = "inserted"]
  <2> DEFINE t == [tx[s] EXCEPT !.step = "inserted"]
  <2>1. /\ t \in Txs /\ t.step = "inserted" /\ t.op = tx[s].op /\ t.head = tx[s].head
        /\ t.to = tx[s].to /\ t.batch = tx[s].batch /\ t.event = tx[s].event /\ t.at = tx[s].at
        /\ t.began = tx[s].began
    BY <1>1 DEF Txs, TxSteps
  <2>2. tx' = [tx EXCEPT ![s] = t]
    BY <1>1, <1>4
  <2> HIDE DEF t
  <2>3. TxTyped(t)
    BY <1>1, <1>4, <2>1 DEF TxTyped
  <2> QED
    BY <1>4, <2>1, <2>2, <2>3
<1> QED
  BY <1>2, <1>3, <1>4 DEF txCheck, txInsert, SessionDies

(* A commit appends the row and points the head it was decided on to it, or  *)
(* writes nothing.                                                           *)
Committed(t) ==
    /\ Len(stateRows') = Len(stateRows) + 1
    /\ \A i \in 1..Len(stateRows) :
          /\ stateRows'[i].state = stateRows[i].state /\ stateRows'[i].event = stateRows[i].event
          /\ stateRows'[i].kind = stateRows[i].kind /\ stateRows'[i].at = stateRows[i].at
          /\ stateRows'[i].next = IF i = t.head THEN Len(stateRows) + 1 ELSE stateRows[i].next
    /\ LET row == stateRows'[Len(stateRows) + 1]
       IN  /\ row.state = t.to /\ row.event = t.event /\ row.kind = t.batch.kind
           /\ row.at = t.at /\ row.next = 0

LEMMA CommitWrites ==
    ASSUME ActivationTypes, NEW s \in Sessions, txCommit(s)
    PROVE  /\ tx[s].step = "inserted" /\ EndTx(s) /\ UNCHANGED <<instant, evaluations>>
           /\ \/ UNCHANGED <<stateRows, containments, rolledBack>>
              \/ /\ Supersedes(tx[s].head) /\ Committed(tx[s])
                 /\ stateRows' \in Seq(StateRows) /\ Len(stateRows') <= MaxRows
                 /\ containments' \in Seq(Containments) /\ rolledBack' \subseteq ActivationEvents
                 /\ tx[s].op # "contain" => containments' = containments
<1>1. PICK t \in Txs : t = tx[s] /\ TxTyped(t)
  BY ActivationFacts
<1>2. PICK m \in Nat : m = Len(stateRows) + 1
  BY ActivationFacts
<1> DEFINE row == [state |-> t.to, event |-> t.event, kind |-> t.batch.kind, at |-> t.at, next |-> 0]
           body == [i \in DOMAIN stateRows |->
                       IF i = t.head THEN [stateRows[i] EXCEPT !.next = m] ELSE stateRows[i]]
           stop == [action |-> t.to, cleared |-> FALSE, at |-> t.at, row |-> m]
<1>3. /\ t.step = "inserted" /\ m <= MaxRows /\ EndTx(s) /\ UNCHANGED <<instant, evaluations>>
      /\ \/ UNCHANGED <<stateRows, containments, rolledBack>>
         \/ /\ Supersedes(t.head)
            /\ stateRows' = Append(body, row)
            /\ containments' = IF t.op = "contain" THEN Append(containments, stop) ELSE containments
            /\ rolledBack' = IF t.op = "rollback" THEN rolledBack \union {t.event} ELSE rolledBack
  BY <1>1, <1>2 DEF txCommit
<1>4. /\ Len(stateRows) \in Nat /\ DOMAIN stateRows = 1..Len(stateRows)
      /\ \A i \in 1..Len(stateRows) : stateRows[i] \in StateRows
  BY ActivationFacts
<1>5. m \in 1..MaxRows /\ m \in 0..MaxRows
  BY <1>2, <1>3, <1>4, ActivationNumbers
<1>6. ASSUME NEW i \in 1..Len(stateRows)
      PROVE  /\ body[i] \in StateRows
             /\ body[i].state = stateRows[i].state /\ body[i].event = stateRows[i].event
             /\ body[i].kind = stateRows[i].kind /\ body[i].at = stateRows[i].at
             /\ body[i].next = IF i = t.head THEN m ELSE stateRows[i].next
  <2>1. body[i] = IF i = t.head THEN [stateRows[i] EXCEPT !.next = m] ELSE stateRows[i]
    BY <1>4
  <2>2. PICK r \in StateRows : r = stateRows[i]
    BY <1>4
  <2>3. [r EXCEPT !.next = m] \in StateRows
    BY <1>5 DEF StateRows
  <2>4. /\ [r EXCEPT !.next = m].state = r.state /\ [r EXCEPT !.next = m].event = r.event
        /\ [r EXCEPT !.next = m].kind = r.kind /\ [r EXCEPT !.next = m].at = r.at
        /\ [r EXCEPT !.next = m].next = m
    BY DEF StateRows
  <2> HIDE DEF body
  <2> QED
    BY <2>1, <2>2, <2>3, <2>4
<1>7. body \in Seq(StateRows) /\ Len(body) = Len(stateRows)
  <2>1. DOMAIN body = 1..Len(stateRows)
    BY <1>4
  <2>2. body \in [1..Len(stateRows) -> StateRows]
    BY <1>6, <2>1
  <2> HIDE DEF body
  <2> QED
    BY <1>4, <2>2
<1>8. row \in StateRows
  <2>1. t.batch.kind \in ActivationKinds \union {"none"}
    BY <1>1 DEF Txs, Batches, NoBatch
  <2>2. t.to \in Lifecycle
    BY <1>1, <1>3 DEF TxTyped
  <2> QED
    BY <1>1, <2>1, <2>2, ActivationNumbers DEF Txs, StateRows
<1>9. row.state = t.to /\ row.event = t.event /\ row.kind = t.batch.kind /\ row.at = t.at /\ row.next = 0
  OBVIOUS
<1>10. t.op = "contain" => stop \in Containments
  BY <1>1, <1>3, <1>5 DEF Txs, TxTyped, Containments
<1>11. t.op = "rollback" => t.event \in ActivationEvents
  BY <1>1, <1>3 DEF TxTyped
<1> HIDE DEF body, row, stop
<1>12. CASE /\ Supersedes(t.head)
            /\ stateRows' = Append(body, row)
            /\ containments' = IF t.op = "contain" THEN Append(containments, stop) ELSE containments
            /\ rolledBack' = IF t.op = "rollback" THEN rolledBack \union {t.event} ELSE rolledBack
  <2>1. /\ stateRows' \in Seq(StateRows) /\ Len(stateRows') = m /\ stateRows'[m] = row
        /\ \A i \in 1..Len(stateRows) : stateRows'[i] = body[i]
    BY <1>2, <1>7, <1>8, <1>12, AppendProperties
  <2>2. containments' \in Seq(Containments)
    BY <1>10, <1>12, AppendProperties DEF ActivationTypes
  <2>3. rolledBack' \subseteq ActivationEvents
    BY <1>11, <1>12 DEF ActivationTypes
  <2>4. Committed(t)
    BY <1>2, <1>6, <1>9, <2>1 DEF Committed
  <2>5. Committed(tx[s]) /\ Supersedes(tx[s].head)
    BY <1>1, <1>12, <2>4
  <2> QED
    BY <1>1, <1>3, <1>12, <2>1, <2>2, <2>3, <2>5
<1> QED
  BY <1>1, <1>3, <1>12

LEMMA ActivationTypesKept ==
    ASSUME ActivationTypes, [ActivationNext]_activationVars
    PROVE  ActivationTypes'
<1>1. tx \in [Sessions -> Txs] /\ \A s \in Sessions : TxTyped(tx[s])
  BY DEF ActivationTypes
<1>2. ASSUME NEW s \in Sessions, NEW t \in Txs, TxTyped(t), tx' = [tx EXCEPT ![s] = t]
      PROVE  tx' \in [Sessions -> Txs] /\ \A x \in Sessions : TxTyped(tx[x])'
  <2>1. tx' \in [Sessions -> Txs] /\ \A x \in Sessions : tx'[x] = IF x = s THEN t ELSE tx[x]
    BY <1>1, <1>2
  <2> QED
    BY <1>1, <1>2, <2>1 DEF TxTyped
<1>3. ASSUME NEW s \in Sessions,
             \/ advanceState(s) \/ containForFailedGate(s) \/ rollbackToApproved(s)
             \/ txCheck(s) \/ txInsert(s) \/ SessionDies(s)
      PROVE  ActivationTypes'
  <2>1. UNCHANGED <<instant, stateRows, evaluations, containments, rolledBack>>
    BY <1>3 DEF advanceState, containForFailedGate, rollbackToApproved, txCheck, txInsert, SessionDies
  <2>2. PICK t \in Txs : TxTyped(t) /\ tx' = [tx EXCEPT ![s] = t]
    BY <1>3, AdvanceBegins, StopBegins, TxGoesOn
  <2> QED
    BY <1>2, <2>1, <2>2 DEF ActivationTypes
<1>4. ASSUME NEW s \in Sessions, txCommit(s) PROVE ActivationTypes'
  <2>1. tx' \in [Sessions -> Txs] /\ \A x \in Sessions : TxTyped(tx[x])'
    BY <1>2, <1>4, CommitWrites, NoTxTyped DEF EndTx
  <2> QED
    BY <1>4, <2>1, CommitWrites DEF ActivationTypes
<1>5. CASE recordActivationGateResult
  BY <1>5 DEF recordActivationGateResult, ActivationTypes, Batches
<1>6. CASE clearContainment
  <2>1. PICK c \in DOMAIN containments :
            containments' = [containments EXCEPT ![c].cleared = TRUE]
    BY <1>6 DEF clearContainment
  <2>2. c \in 1..Len(containments) /\ containments \in Seq(Containments)
    BY ActivationFacts DEF ActivationTypes
  <2>3. [containments[c] EXCEPT !.cleared = TRUE] \in Containments
    BY <2>2, ActivationFacts DEF Containments
  <2>4. containments' = [containments EXCEPT ![c] = [containments[c] EXCEPT !.cleared = TRUE]]
    BY <2>1, <2>2
  <2>5. containments' \in Seq(Containments)
    BY <2>2, <2>3, <2>4, ExceptSeq
  <2> QED
    BY <1>6, <2>5 DEF clearContainment, ActivationTypes
<1>7. CASE InstantPasses
  BY <1>7, ActivationNumbers DEF InstantPasses, ActivationTypes
<1>8. CASE UNCHANGED activationVars
  BY <1>8 DEF activationVars, ActivationTypes
<1> QED
  BY <1>3, <1>4, <1>5, <1>6, <1>7, <1>8 DEF ActivationNext

(* The rows of a history: each superseded by the one after it. *)
LEMMA HistoryRows ==
    ASSUME NEW h \in Histories
    PROVE  /\ RowsOf(h) \in Seq(StateRows) /\ Len(RowsOf(h)) = Len(h) /\ Len(h) \in Nat
           /\ Len(h) <= MaxRows
           /\ \A i \in 1..Len(h) : /\ RowsOf(h)[i].state = h[i] /\ h[i] \in Lifecycle \ {"ACTIVE"}
                                   /\ RowsOf(h)[i].next = IF i = Len(h) THEN 0 ELSE i + 1
<1>1. h \in Seq(Lifecycle \ {"ACTIVE"}) /\ Len(h) <= MaxRows
  BY HistoriesLegal
<1>2. /\ Len(h) \in Nat /\ DOMAIN h = 1..Len(h)
      /\ \A i \in 1..Len(h) : h[i] \in Lifecycle \ {"ACTIVE"}
  BY <1>1, ElementOfSeq
<1> DEFINE r(i) == [state |-> h[i], event |-> NoActivation, kind |-> "none", at |-> 0,
                    next |-> IF i = Len(h) THEN 0 ELSE i + 1]
<1>3. RowsOf(h) = [i \in 1..Len(h) |-> r(i)]
  BY <1>2 DEF RowsOf
<1>4. ASSUME NEW i \in 1..Len(h) PROVE r(i) \in StateRows
  <2>1. (IF i = Len(h) THEN 0 ELSE i + 1) \in 0..MaxRows
    <3>1. PICK n \in Nat : n = Len(h)
      BY <1>2
    <3>2. i \in Nat /\ i <= n /\ n <= MaxRows
      BY <1>1, <3>1
    <3> HIDE <1>1, <1>2
    <3> QED
      BY <3>1, <3>2, ActivationNumbers
  <2> QED
    BY <1>2, <2>1, ActivationNumbers DEF StateRows, EventRefs
<1>5. \A i \in 1..Len(h) : r(i).state = h[i] /\ r(i).next = IF i = Len(h) THEN 0 ELSE i + 1
  OBVIOUS
<1> HIDE DEF r
<1>6. RowsOf(h) \in [1..Len(h) -> StateRows]
  BY <1>3, <1>4
<1>7. RowsOf(h) \in Seq(StateRows) /\ Len(RowsOf(h)) = Len(h)
  BY <1>2, <1>6
<1> QED
  BY <1>1, <1>2, <1>3, <1>5, <1>7

LEMMA ActivationTypesStart == ActivationInit => ActivationTypes
<1> SUFFICES ASSUME ActivationInit PROVE ActivationTypes
  OBVIOUS
<1>1. tx \in [Sessions -> Txs] /\ \A s \in Sessions : tx[s] = NoTx
  BY NoTxTyped DEF ActivationInit
<1>2. stateRows \in Seq(StateRows) /\ Len(stateRows) <= MaxRows
  BY HistoryRows DEF ActivationInit
<1>3. instant \in 0..MaxInstant /\ containments \in Seq(Containments)
  BY ActivationNumbers DEF ActivationInit
<1> QED
  BY <1>1, <1>2, <1>3, NoTxTyped DEF ActivationInit, ActivationTypes

LEMMA ActivationInductive == ActivationSpec => []ActivationTypes
<1>1. ActivationTypes /\ [ActivationNext]_activationVars => ActivationTypes'
  BY ActivationTypesKept
<1> QED
  BY <1>1, ActivationTypesStart, PTL DEF ActivationSpec

LEMMA ActivationTyped == ActivationTypes => ActivationTypeOK
<1> SUFFICES ASSUME ActivationTypes PROVE ActivationTypeOK
  OBVIOUS
<1>1. \A s \in Sessions : tx[s].step \in TxSteps
  BY ActivationFacts DEF Txs
<1> QED
  BY <1>1, ActivationFacts
  DEF ActivationTypes, ActivationTypeOK, StateRows, EventRefs, Containments, Stops, TxSteps

-----------------------------------------------------------------------------
(* Module activation: the inductive invariant of a registered scope *)

(* A scope that has a row: without one two sessions may both insert a first  *)
(* row, since there is no head whose pointer would stop one of them.         *)
RegisteredScope == <<>> \notin Histories

(* A state of the set comes before row i. *)
Before(i, states) == \E j \in 1..i - 1 : stateRows[j].state \in states

(* One chain: every row is superseded by the next one, over a legal edge. *)
Chained ==
    /\ Len(stateRows) > 0
    /\ \A i \in 1..Len(stateRows) :
          stateRows[i].next = IF i = Len(stateRows) THEN 0 ELSE i + 1
    /\ \A i \in 1..Len(stateRows) - 1 :
          stateRows[i + 1].state \in LegalLifecycle[stateRows[i].state]

SoundActive(i) ==
    /\ \E b \in evaluations : /\ b.verdict = "PASS" /\ b.event = stateRows[i].event
                              /\ b.kind = stateRows[i].kind /\ b.at + EvidenceTtl > stateRows[i].at
    /\ \A j \in 1..Len(stateRows) :
          (stateRows[j].state = "ACTIVE" /\ stateRows[j].event = stateRows[i].event) => j = i
    /\ Before(i, {"AVAILABLE", "PROVEN"})
    /\ RequiresProven => Before(i, {"PROVEN"})

ActivesSound == \A i \in 1..Len(stateRows) : stateRows[i].state = "ACTIVE" => SoundActive(i)

StoppedWhileContained == OpenContainment => stateRows[Len(stateRows)].state # "ACTIVE"

(* A transaction rests on a row and a legal edge out of it; one to ACTIVE on *)
(* a recorded PASS, and from its checks on also on what was established.     *)
(* Only while no other commit has taken the head must the answers its INSERT *)
(* got, no open containment and an unused event, still be right.             *)
TxSound(t) == t.step # "none" =>
    /\ t.head \in 1..Len(stateRows) /\ t.to \in LegalLifecycle[stateRows[t.head].state]
    /\ t.to = "ACTIVE" =>
          /\ t.op # "contain"
          /\ t.batch \in evaluations /\ t.batch.verdict = "PASS" /\ t.event = t.batch.event
          /\ t.step # "begun" =>
                /\ t.batch.at + EvidenceTtl > t.at
                /\ Before(Len(stateRows) + 1, {"AVAILABLE", "PROVEN"})
                /\ RequiresProven => Before(Len(stateRows) + 1, {"PROVEN"})
          /\ t.step = "inserted" /\ t.head = Len(stateRows) => ~OpenContainment /\ ~Consumed(t.event)

GovernedInv ==
    /\ ActivationTypes /\ Chained /\ ActivesSound /\ StoppedWhileContained
    /\ \A s \in Sessions : TxSound(tx[s])

LEMMA OneHead ==
    ASSUME ActivationTypes, Chained
    PROVE  Unsuperseded = {Len(stateRows)} /\ HeadRows = {Len(stateRows)}
<1>1. /\ Len(stateRows) \in Nat /\ Len(stateRows) > 0 /\ DOMAIN stateRows = 1..Len(stateRows)
      /\ \A i \in 1..Len(stateRows) : stateRows[i].at \in Nat
  BY ActivationFacts DEF Chained
<1>2. ASSUME NEW i \in 1..Len(stateRows)
      PROVE  stateRows[i].next = 0 <=> i = Len(stateRows)
  <2>1. stateRows[i].next = IF i = Len(stateRows) THEN 0 ELSE i + 1
    BY DEF Chained
  <2>2. i + 1 # 0
    BY <1>1
  <2> QED
    BY <2>1, <2>2
<1>3. Len(stateRows) \in 1..Len(stateRows)
  BY <1>1
<1>4. Unsuperseded = {Len(stateRows)}
  BY <1>1, <1>2, <1>3 DEF Unsuperseded
<1>5. stateRows[Len(stateRows)].at <= stateRows[Len(stateRows)].at
  BY <1>1, <1>3
<1> QED
  BY <1>4, <1>5 DEF HeadRows

(* What the checks establish: an ACTIVE row itself has AVAILABLE or PROVEN   *)
(* before it.                                                                *)
LEMMA EstablishedBefore ==
    ASSUME GovernedInv
    PROVE  /\ Established("AVAILABLE") => Before(Len(stateRows) + 1, {"AVAILABLE", "PROVEN"})
           /\ Established("PROVEN") => Before(Len(stateRows) + 1, {"PROVEN"})
<1>1. /\ Len(stateRows) \in Nat /\ DOMAIN stateRows = 1..Len(stateRows)
      /\ 1..(Len(stateRows) + 1) - 1 = 1..Len(stateRows)
  BY ActivationFacts DEF GovernedInv
<1>2. ASSUME Established("AVAILABLE") PROVE Before(Len(stateRows) + 1, {"AVAILABLE", "PROVEN"})
  <2>1. PICK i \in 1..Len(stateRows) : stateRows[i].state \in {"AVAILABLE", "PROVEN", "ACTIVE"}
    BY <1>1, <1>2 DEF Established
  <2>2. CASE stateRows[i].state = "ACTIVE"
    <3>1. PICK j \in 1..i - 1 : stateRows[j].state \in {"AVAILABLE", "PROVEN"}
      BY <2>2 DEF GovernedInv, ActivesSound, SoundActive, Before
    <3>2. j \in 1..Len(stateRows)
      BY <1>1
    <3> QED
      BY <1>1, <3>1, <3>2 DEF Before
  <2> QED
    BY <1>1, <2>1, <2>2 DEF Before
<1>3. Established("PROVEN") => Before(Len(stateRows) + 1, {"PROVEN"})
  BY <1>1 DEF Established, Before
<1> QED
  BY <1>2, <1>3

(* A step of one session that commits nothing. *)
LEMMA SessionKeeps ==
    ASSUME GovernedInv, NEW s \in Sessions, NEW t, TxSound(t), tx' = [tx EXCEPT ![s] = t],
           ActivationTypes', UNCHANGED <<stateRows, evaluations, containments>>
    PROVE  GovernedInv'
<1>1. \A x \in Sessions : tx'[x] = IF x = s THEN t ELSE tx[x]
  BY DEF GovernedInv, ActivationTypes
<1>2. \A x \in Sessions : TxSound(tx[x])'
  BY <1>1 DEF GovernedInv, TxSound, Before, OpenContainment, Consumed
<1>3. Chained' /\ ActivesSound' /\ StoppedWhileContained'
  BY DEF GovernedInv, Chained, ActivesSound, SoundActive, Before, StoppedWhileContained, OpenContainment
<1> QED
  BY <1>2, <1>3 DEF GovernedInv

LEMMA SessionStep ==
    ASSUME GovernedInv, NEW s \in Sessions, ActivationTypes',
           \/ advanceState(s) \/ containForFailedGate(s) \/ rollbackToApproved(s)
           \/ txCheck(s) \/ txInsert(s) \/ SessionDies(s)
    PROVE  GovernedInv'
<1>1. UNCHANGED <<stateRows, evaluations, containments>>
  BY DEF advanceState, containForFailedGate, rollbackToApproved, txCheck, txInsert, SessionDies
<1>2. /\ ActivationTypes /\ HeadRows = {Len(stateRows)} /\ Len(stateRows) \in 1..Len(stateRows)
      /\ Len(stateRows) # 0
  <2>1. ActivationTypes /\ Chained /\ Len(stateRows) > 0
    BY DEF GovernedInv, Chained
  <2>2. Len(stateRows) \in Nat
    BY <2>1, ActivationFacts
  <2> QED
    BY <2>1, <2>2, OneHead
<1>3. CASE advanceState(s)
  <2>1. PICK t \in Txs :
               /\ tx' = [tx EXCEPT ![s] = t] /\ TxTyped(t)
               /\ t.op = "advance" /\ t.step = "begun" /\ t.head \in HeadRows
               /\ t.to \in LegalLifecycle[StateOf(t.head)]
               /\ t.to = "ACTIVE" => /\ t.batch \in evaluations /\ t.batch.verdict = "PASS"
                                     /\ t.event = t.batch.event
    BY <1>2, <1>3, AdvanceBegins
  <2>2. TxSound(t)
    BY <1>2, <2>1 DEF TxSound, StateOf
  <2> QED
    BY <1>1, <2>1, <2>2, SessionKeeps
<1>4. CASE containForFailedGate(s) \/ rollbackToApproved(s)
  <2>1. PICK t \in Txs :
               /\ tx' = [tx EXCEPT ![s] = t] /\ TxTyped(t)
               /\ t.op \in {"contain", "rollback"} /\ t.step = "begun" /\ t.head \in HeadRows \ {0}
               /\ t.to \in LegalLifecycle[stateRows[t.head].state] /\ t.to \in Stops
    BY <1>2, <1>4, StopBegins
  <2>2. TxSound(t)
    BY <1>2, <2>1 DEF TxSound, Stops
  <2> QED
    BY <1>1, <2>1, <2>2, SessionKeeps
<1>5. CASE txCheck(s) \/ txInsert(s) \/ SessionDies(s)
  <2>1. PICK t \in Txs :
               /\ tx' = [tx EXCEPT ![s] = t] /\ TxTyped(t)
               /\ \/ t = NoTx
                  \/ /\ \/ tx[s].step = "begun" /\ t.step = "checked" /\ MayProceed(s)
                        \/ /\ tx[s].step = "checked" /\ t.step = "inserted"
                           /\ t.to = "ACTIVE" => TriggersAdmit(t.batch, t.began)
                     /\ t.op = tx[s].op /\ t.head = tx[s].head /\ t.to = tx[s].to
                     /\ t.batch = tx[s].batch /\ t.event = tx[s].event /\ t.at = tx[s].at
    BY <1>2, <1>5, TxGoesOn
  <2>2. CASE t = NoTx
    <3>1. TxSound(t)
      BY <2>2, NoTxTyped DEF TxSound
    <3> QED
      BY <1>1, <2>1, <3>1, SessionKeeps
  <2>3. CASE t # NoTx
    <3>1. TxSound(tx[s]) /\ t.step \in {"checked", "inserted"} /\ tx[s].step # "none"
      BY <2>1, <2>3 DEF GovernedInv
    <3>2. t.head \in 1..Len(stateRows) /\ t.to \in LegalLifecycle[stateRows[t.head].state]
      BY <2>1, <2>3, <3>1 DEF TxSound
    <3>3. ASSUME t.to = "ACTIVE"
          PROVE  /\ t.op # "contain" /\ t.batch \in evaluations /\ t.batch.verdict = "PASS"
                 /\ t.event = t.batch.event
      BY <2>1, <2>3, <3>1, <3>3 DEF TxSound
    <3>4. ASSUME t.to = "ACTIVE", t.step = "checked"
          PROVE  /\ t.batch.at + EvidenceTtl > t.at
                 /\ Before(Len(stateRows) + 1, {"AVAILABLE", "PROVEN"})
                 /\ RequiresProven => Before(Len(stateRows) + 1, {"PROVEN"})
      <4>1. MayProceed(s) /\ tx[s].to = "ACTIVE" /\ tx[s].batch = t.batch /\ tx[s].at = t.at
        BY <2>1, <2>3, <3>4
      <4>2. /\ RequiresProven => Established("PROVEN")
            /\ EvidenceHolds(t.batch, t.at) /\ Established("AVAILABLE")
        BY <4>1 DEF MayProceed
      <4> QED
        BY <4>2, EstablishedBefore DEF EvidenceHolds
    <3>5. ASSUME t.to = "ACTIVE", t.step = "inserted"
          PROVE  /\ t.batch.at + EvidenceTtl > t.at
                 /\ Before(Len(stateRows) + 1, {"AVAILABLE", "PROVEN"})
                 /\ RequiresProven => Before(Len(stateRows) + 1, {"PROVEN"})
                 /\ ~OpenContainment /\ ~Consumed(t.event)
      <4>1. /\ tx[s].step = "checked" /\ tx[s].to = "ACTIVE" /\ TriggersAdmit(t.batch, t.began)
            /\ tx[s].batch = t.batch /\ tx[s].at = t.at
        BY <2>1, <2>3, <3>5
      <4>2. ~OpenContainment /\ ~Consumed(t.batch.event)
        BY <4>1 DEF TriggersAdmit
      <4>3. /\ t.batch.at + EvidenceTtl > t.at
            /\ Before(Len(stateRows) + 1, {"AVAILABLE", "PROVEN"})
            /\ RequiresProven => Before(Len(stateRows) + 1, {"PROVEN"})
        BY <3>1, <4>1 DEF TxSound
      <4> QED
        BY <3>3, <3>5, <4>2, <4>3
    <3>6. TxSound(t)
      BY <3>1, <3>2, <3>3, <3>4, <3>5 DEF TxSound
    <3> QED
      BY <1>1, <2>1, <3>6, SessionKeeps
  <2> QED
    BY <2>2, <2>3
<1> QED
  BY <1>3, <1>4, <1>5

(* The commit: the pointer of the head was free, so no other commit came     *)
(* since the head was read, and the answers of the INSERT still hold.        *)
LEMMA CommitKeeps ==
    ASSUME GovernedInv, NEW s \in Sessions, ActivationTypes', txCommit(s)
    PROVE  GovernedInv'
<1>1. ActivationTypes /\ Chained /\ ActivesSound /\ StoppedWhileContained /\ tx \in [Sessions -> Txs]
  BY DEF GovernedInv, ActivationTypes
<1>2. PICK t \in Txs : t = tx[s] /\ TxSound(t)
  BY <1>1 DEF GovernedInv
<1>3. /\ t.step = "inserted" /\ tx' = [tx EXCEPT ![s] = NoTx] /\ UNCHANGED evaluations
  BY <1>1, <1>2, CommitWrites DEF EndTx
<1>4. TxSound(NoTx)
  BY NoTxTyped DEF TxSound
<1>5. CASE UNCHANGED <<stateRows, containments>>
  BY <1>3, <1>4, <1>5, SessionKeeps
<1>6. CASE /\ Supersedes(t.head) /\ Committed(t)
           /\ t.op # "contain" => containments' = containments
  <2>1. PICK n \in Nat : n = Len(stateRows) /\ n > 0
    BY <1>1, ActivationFacts DEF Chained
  <2>2. /\ \A i \in 1..n : stateRows[i].next = IF i = n THEN 0 ELSE i + 1
        /\ \A i \in 1..n - 1 : stateRows[i + 1].state \in LegalLifecycle[stateRows[i].state]
    BY <1>1, <2>1 DEF Chained
  <2>3. /\ t.head \in 1..n /\ t.to \in LegalLifecycle[stateRows[t.head].state]
        /\ t.to = "ACTIVE" =>
              /\ t.op # "contain"
              /\ t.batch \in evaluations /\ t.batch.verdict = "PASS" /\ t.event = t.batch.event
              /\ t.batch.at + EvidenceTtl > t.at
              /\ Before(n + 1, {"AVAILABLE", "PROVEN"})
              /\ RequiresProven => Before(n + 1, {"PROVEN"})
              /\ t.head = n => ~OpenContainment /\ ~Consumed(t.event)
    BY <1>2, <1>3, <2>1 DEF TxSound
  <2>4. t.head = n
    <3>1. t.head # 0 /\ t.head + 1 # 0
      BY <2>3
    <3>2. stateRows[t.head].next = 0
      BY <1>6, <3>1 DEF Supersedes
    <3>3. stateRows[t.head].next = IF t.head = n THEN 0 ELSE t.head + 1
      BY <2>2, <2>3
    <3> QED
      BY <3>1, <3>2, <3>3
  <2>5. /\ Len(stateRows') = n + 1
        /\ \A i \in 1..n :
              /\ stateRows'[i].state = stateRows[i].state /\ stateRows'[i].event = stateRows[i].event
              /\ stateRows'[i].kind = stateRows[i].kind /\ stateRows'[i].at = stateRows[i].at
              /\ stateRows'[i].next = IF i = n THEN n + 1 ELSE stateRows[i].next
        /\ stateRows'[n + 1].state = t.to /\ stateRows'[n + 1].event = t.event
        /\ stateRows'[n + 1].kind = t.batch.kind /\ stateRows'[n + 1].at = t.at
        /\ stateRows'[n + 1].next = 0
    BY <1>6, <2>1, <2>4 DEF Committed
  <2>6. /\ \A i \in 1..n + 1 : i \in 1..n \/ i = n + 1
        /\ 1..(n + 1) - 1 = 1..n /\ n \in 1..n /\ n + 1 \in 1..n + 1 /\ n + 1 \notin 1..n
        /\ \A i \in 1..n : i \in 1..n + 1 /\ 1..i - 1 \subseteq 1..n
    BY <2>1
  <2>7. \A i \in 1..n + 1 : \A S : Before(i, S) => Before(i, S)'
    BY <2>5, <2>6 DEF Before
  <2>8. Chained'
    <3>1. ASSUME NEW i \in 1..n + 1
          PROVE  stateRows'[i].next = IF i = n + 1 THEN 0 ELSE i + 1
      <4>1. CASE i \in 1..n
        <5>1. /\ stateRows[i].next = IF i = n THEN 0 ELSE i + 1
              /\ stateRows'[i].next = IF i = n THEN n + 1 ELSE stateRows[i].next
          BY <2>2, <2>5, <4>1
        <5> QED
          BY <2>6, <4>1, <5>1
      <4> QED
        BY <2>5, <2>6, <4>1
    <3>2. ASSUME NEW i \in 1..n
          PROVE  stateRows'[i + 1].state \in LegalLifecycle[stateRows'[i].state]
      <4>1. CASE i = n
        BY <2>3, <2>4, <2>5, <2>6, <4>1
      <4>2. CASE i # n
        <5>1. i \in 1..n - 1 /\ i + 1 \in 1..n
          BY <2>1, <4>2
        <5> QED
          BY <2>2, <2>5, <5>1
      <4> QED
        BY <4>1, <4>2
    <3>3. n + 1 > 0
      BY <2>1
    <3> QED
      BY <2>5, <2>6, <3>1, <3>2, <3>3 DEF Chained
  <2>9. ASSUME t.to = "ACTIVE", NEW j \in 1..n, stateRows[j].state = "ACTIVE"
        PROVE  stateRows[j].event # t.event
    <3>1. ~Consumed(t.event)
      BY <2>3, <2>4, <2>9
    <3>2. j \in DOMAIN stateRows
      BY <1>1, <2>1, ActivationFacts
    <3> QED
      BY <2>9, <3>1, <3>2 DEF Consumed
  <2>10. ActivesSound'
    <3>1. ASSUME NEW i \in 1..n, stateRows[i].state = "ACTIVE" PROVE SoundActive(i)'
      <4>1. SoundActive(i)
        BY <1>1, <2>1, <3>1 DEF ActivesSound
      <4>2. \E b \in evaluations' : /\ b.verdict = "PASS" /\ b.event = stateRows'[i].event
                                    /\ b.kind = stateRows'[i].kind
                                    /\ b.at + EvidenceTtl > stateRows'[i].at
        BY <1>3, <2>5, <4>1 DEF SoundActive
      <4>3. ASSUME NEW j \in 1..n + 1, stateRows'[j].state = "ACTIVE",
                   stateRows'[j].event = stateRows'[i].event
            PROVE  j = i
        <5>1. CASE j \in 1..n
          BY <2>1, <2>5, <4>1, <4>3, <5>1 DEF SoundActive
        <5>2. CASE j = n + 1
          BY <2>5, <2>9, <3>1, <4>3, <5>2
        <5> QED
          BY <2>6, <5>1, <5>2
      <4>4. /\ Before(i, {"AVAILABLE", "PROVEN"})'
            /\ RequiresProven => Before(i, {"PROVEN"})'
        BY <2>6, <2>7, <4>1 DEF SoundActive
      <4> QED
        BY <2>5, <4>2, <4>3, <4>4 DEF SoundActive
    <3>2. ASSUME t.to = "ACTIVE" PROVE SoundActive(n + 1)'
      <4>1. \E b \in evaluations' : /\ b.verdict = "PASS" /\ b.event = stateRows'[n + 1].event
                                    /\ b.kind = stateRows'[n + 1].kind
                                    /\ b.at + EvidenceTtl > stateRows'[n + 1].at
        BY <1>3, <2>3, <2>5, <3>2
      <4>2. ASSUME NEW j \in 1..n + 1, stateRows'[j].state = "ACTIVE",
                   stateRows'[j].event = stateRows'[n + 1].event
            PROVE  j = n + 1
        BY <2>5, <2>6, <2>9, <3>2, <4>2
      <4>3. /\ Before(n + 1, {"AVAILABLE", "PROVEN"})'
            /\ RequiresProven => Before(n + 1, {"PROVEN"})'
        BY <2>3, <2>6, <2>7, <3>2
      <4> QED
        BY <2>5, <4>1, <4>2, <4>3 DEF SoundActive
    <3>3. \A i \in 1..n + 1 : stateRows'[i].state = "ACTIVE" => SoundActive(i)'
      BY <2>5, <2>6, <3>1, <3>2
    <3> QED
      BY <2>5, <3>3 DEF ActivesSound
  <2>11. StoppedWhileContained'
    <3>1. t.to = "ACTIVE" => ~OpenContainment'
      BY <1>6, <2>3, <2>4 DEF OpenContainment
    <3>2. stateRows'[Len(stateRows')].state = t.to
      BY <2>5
    <3> QED
      BY <3>1, <3>2 DEF StoppedWhileContained
  <2>12. ASSUME NEW x \in Sessions PROVE TxSound(tx[x])'
    <3>1. CASE x = s
      <4>1. tx'[x].step = "none"
        BY <1>1, <1>3, <3>1, NoTxTyped
      <4> QED
        BY <4>1 DEF TxSound
    <3>2. CASE x # s
      <4>1. PICK u \in Txs : u = tx[x]
        BY <1>1
      <4>2. tx'[x] = u /\ TxSound(u)
        BY <1>1, <1>3, <3>2, <4>1 DEF GovernedInv
      <4>3. u.step # "none" =>
               /\ u.head \in 1..n + 1 /\ u.head # n + 1
               /\ u.to \in LegalLifecycle[stateRows'[u.head].state]
        BY <2>1, <2>5, <2>6, <4>2 DEF TxSound
      <4>4. ASSUME u.step # "none", u.to = "ACTIVE", u.step # "begun"
            PROVE  /\ u.batch.at + EvidenceTtl > u.at
                   /\ Before(n + 2, {"AVAILABLE", "PROVEN"})'
                   /\ RequiresProven => Before(n + 2, {"PROVEN"})'
        <5>1. /\ u.batch.at + EvidenceTtl > u.at
              /\ Before(n + 1, {"AVAILABLE", "PROVEN"})
              /\ RequiresProven => Before(n + 1, {"PROVEN"})
          BY <2>1, <4>2, <4>4 DEF TxSound
        <5>2. \A S : Before(n + 1, S) => Before(n + 2, S)'
          <6>1. 1..n \subseteq 1..(n + 2) - 1
            BY <2>1
          <6> QED
            BY <2>5, <2>6, <6>1 DEF Before
        <5> QED
          BY <5>1, <5>2
      <4>5. u.step # "none" /\ u.to = "ACTIVE" =>
               /\ u.op # "contain" /\ u.batch \in evaluations' /\ u.batch.verdict = "PASS"
               /\ u.event = u.batch.event
        BY <1>3, <4>2 DEF TxSound
      <4>6. Len(stateRows') + 1 = n + 2
        BY <2>1, <2>5
      <4>7. TxSound(u)'
        BY <2>5, <4>3, <4>4, <4>5, <4>6 DEF TxSound
      <4> QED
        BY <4>2, <4>7 DEF TxSound
    <3> QED
      BY <3>1, <3>2
  <2> QED
    BY <2>8, <2>10, <2>11, <2>12 DEF GovernedInv
<1> QED
  BY <1>1, <1>2, <1>5, <1>6, CommitWrites

(* Evaluations are only added, and a containment only cleared: nothing a     *)
(* row or a transaction rests on is lost.                                    *)
LEMMA RestKeeps ==
    ASSUME GovernedInv, ActivationTypes', UNCHANGED <<stateRows, tx>>,
           evaluations \subseteq evaluations', OpenContainment' => OpenContainment
    PROVE  GovernedInv'
<1>1. Chained' /\ StoppedWhileContained'
  BY DEF GovernedInv, Chained, StoppedWhileContained
<1>2. ActivesSound'
  BY DEF GovernedInv, ActivesSound, SoundActive, Before
<1>3. ASSUME NEW x \in Sessions PROVE TxSound(tx[x])'
  BY DEF GovernedInv, TxSound, Before, Consumed
<1> QED
  BY <1>1, <1>2, <1>3 DEF GovernedInv

LEMMA GovernedStep ==
    ASSUME GovernedInv, [ActivationNext]_activationVars
    PROVE  GovernedInv'
<1>1. ActivationTypes /\ ActivationTypes'
  BY ActivationTypesKept DEF GovernedInv
<1>2. CASE recordActivationGateResult
  BY <1>1, <1>2, RestKeeps DEF recordActivationGateResult, OpenContainment
<1>3. CASE clearContainment
  <2>1. PICK c \in DOMAIN containments :
            /\ ~containments[c].cleared
            /\ containments' = [containments EXCEPT ![c].cleared = TRUE]
            /\ UNCHANGED <<stateRows, evaluations, tx>>
    BY <1>3 DEF clearContainment
  <2>2. /\ DOMAIN containments' = DOMAIN containments
        /\ \A d \in DOMAIN containments : d # c => containments'[d] = containments[d]
    BY <2>1
  <2>3. OpenContainment' => OpenContainment
    BY <2>1, <2>2 DEF OpenContainment
  <2> QED
    BY <1>1, <2>1, <2>3, RestKeeps
<1>4. CASE InstantPasses
  BY <1>1, <1>4, RestKeeps DEF InstantPasses, OpenContainment
<1>5. CASE UNCHANGED activationVars
  BY <1>1, <1>5, RestKeeps DEF activationVars, OpenContainment
<1> QED
  BY <1>1, <1>2, <1>3, <1>4, <1>5, SessionStep, CommitKeeps DEF ActivationNext

LEMMA GovernedStarts ==
    ASSUME RegisteredScope
    PROVE  ActivationInit => GovernedInv
<1> SUFFICES ASSUME ActivationInit PROVE GovernedInv
  OBVIOUS
<1>1. PICK h \in Histories : stateRows = RowsOf(h)
  BY DEF ActivationInit
<1>2. PICK n \in Nat : n = Len(h)
  BY HistoryRows
<1>3. /\ Len(stateRows) = n
      /\ \A i \in 1..n : /\ stateRows[i].state = h[i] /\ stateRows[i].state # "ACTIVE"
                         /\ stateRows[i].next = IF i = n THEN 0 ELSE i + 1
  BY <1>1, <1>2, HistoryRows
<1>4. n > 0
  <2>1. h # <<>> /\ h \in Seq(Lifecycle \ {"ACTIVE"})
    BY HistoriesLegal DEF RegisteredScope
  <2> QED
    BY <1>2, <2>1, EmptySeq
<1>5. \A i \in 1..n - 1 : stateRows[i + 1].state \in LegalLifecycle[stateRows[i].state]
  <2> SUFFICES ASSUME NEW i \in 1..n - 1
               PROVE  stateRows[i + 1].state \in LegalLifecycle[stateRows[i].state]
    OBVIOUS
  <2>1. i \in 1..n /\ i + 1 \in 1..n
    BY <1>2
  <2>2. h[i + 1] \in LegalLifecycle[h[i]]
    BY <1>2, HistoriesLegal
  <2> QED
    BY <1>3, <2>1, <2>2
<1>6. Chained
  BY <1>3, <1>4, <1>5 DEF Chained
<1>7. ActivesSound
  BY <1>3 DEF ActivesSound
<1>8. StoppedWhileContained
  BY DEF ActivationInit, StoppedWhileContained, OpenContainment
<1>9. \A s \in Sessions : TxSound(tx[s])
  BY NoTxTyped DEF ActivationInit, TxSound
<1> QED
  BY <1>6, <1>7, <1>8, <1>9, ActivationTypesStart DEF GovernedInv

(* For any number of sessions, events and histories of a registered scope:   *)
(* one chain of legal edges with one head, every ACTIVE row on an unexpired  *)
(* PASS of an event of its own with AVAILABLE (and PROVEN where required)    *)
(* before it, and no ACTIVE head under an open containment (advanceState,    *)
(* containForFailedGate, rollbackToApproved, and the triggers).              *)
THEOREM ActivationIsGoverned == RegisteredScope /\ ActivationSpec => []ActivationGoverned
<1> SUFFICES ASSUME RegisteredScope PROVE ActivationSpec => []ActivationGoverned
  OBVIOUS
<1>1. ActivationInit => GovernedInv
  BY GovernedStarts
<1>2. GovernedInv /\ [ActivationNext]_activationVars => GovernedInv'
  BY GovernedStep
<1>3. GovernedInv => ActivationGoverned
  <2> SUFFICES ASSUME GovernedInv PROVE ActivationGoverned
    OBVIOUS
  <2>1. ActivationTypes /\ Chained /\ ActivesSound /\ StoppedWhileContained
    BY DEF GovernedInv
  <2>2. PICK n \in Nat : n = Len(stateRows) /\ n > 0 /\ DOMAIN stateRows = 1..n
    BY <2>1, ActivationFacts DEF Chained
  <2>3. Unsuperseded = {Len(stateRows)} /\ HeadRows = {Len(stateRows)}
    BY <2>1, OneHead
  <2>4. ASSUME NEW i \in 1..n, stateRows[i].next # 0
        PROVE  /\ i < stateRows[i].next
               /\ stateRows[stateRows[i].next].state \in LegalLifecycle[stateRows[i].state]
    <3>1. stateRows[i].next = IF i = n THEN 0 ELSE i + 1
      BY <2>1, <2>2 DEF Chained
    <3>2. stateRows[i].next = i + 1 /\ i \in 1..n - 1
      BY <2>2, <2>4, <3>1
    <3>3. stateRows[i + 1].state \in LegalLifecycle[stateRows[i].state]
      BY <2>1, <2>2, <3>2 DEF Chained
    <3> QED
      BY <3>2, <3>3
  <2>5. \A i \in 1..n : stateRows[i].state = "ACTIVE" =>
            /\ \E b \in evaluations : /\ b.verdict = "PASS" /\ b.event = stateRows[i].event
                                      /\ b.kind = stateRows[i].kind
                                      /\ b.at + EvidenceTtl > stateRows[i].at
            /\ \A j \in 1..n :
                  (stateRows[j].state = "ACTIVE" /\ stateRows[j].event = stateRows[i].event) => j = i
            /\ \E j \in 1..(i - 1) : stateRows[j].state \in {"AVAILABLE", "PROVEN"}
            /\ RequiresProven => \E j \in 1..(i - 1) : stateRows[j].state = "PROVEN"
    BY <2>1, <2>2 DEF ActivesSound, SoundActive, Before
  <2>6. OpenContainment => \A i \in HeadRows \ {0} : stateRows[i].state # "ACTIVE"
    BY <2>1, <2>3 DEF StoppedWhileContained
  <2> QED
    BY <2>2, <2>3, <2>4, <2>5, <2>6 DEF ActivationGoverned
<1> QED
  BY <1>1, <1>2, <1>3, PTL DEF ActivationSpec

-----------------------------------------------------------------------------
(* The composition *)

(* Whichever part a behaviour exercises, it is a behaviour of every part. *)
LEMMA SupplyComposes ==
    SupplySpec => PipelineSpec /\ ControlSpec /\ LifecycleSpec /\ ActivationSpec
<1> DEFINE supplyVars == <<pipelineVars, controlVars, lifecycleVars, activationVars, focus>>
<1>1. SupplyInit => PipelineInit /\ ControlInit /\ LifecycleInit /\ ActivationInit
  BY DEF SupplyInit
<1>2. [SupplyNext]_supplyVars =>
          /\ [PipelineNext]_pipelineVars /\ [ControlNext]_controlVars
          /\ [LifecycleNext]_lifecycleVars /\ [ActivationNext]_activationVars
  BY DEF SupplyNext, HandoverNext, RecoveryNext, ControlNext, VerificationNext, ContainmentNext, controlVars
<1> QED
  BY <1>1, <1>2, PTL DEF SupplySpec, PipelineSpec, ControlSpec, LifecycleSpec, ActivationSpec

(* Every component's variables stay in their types and its counters, cursors *)
(* and pointers within their limits, for any constants the assumptions allow *)
(* (the pipeline, the controllers, transition and the activation tables).    *)
THEOREM SupplyTyped == SupplySpec => []SupplyTypeOK
<1>1. PipelineTypeOK /\ ControlTypeOK /\ ProviderInv /\ ActivationTypes => SupplyTypeOK
  BY LifecycleTyped, ActivationTyped DEF SupplyTypeOK
<1> QED
  BY <1>1, SupplyComposes, PipelineTyped, ControlTyped, ProviderInductive, ActivationInductive, PTL

=============================================================================
