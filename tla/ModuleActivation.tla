-------------------------- MODULE ModuleActivation --------------------------
(***************************************************************************)
(* The governed lifecycle of one module in one exact scope                 *)
(* (packages/capability-registry, module-states.ts, activation-gate.ts and *)
(* containment.ts, over the prod.* tables).  State rows are append-only: a *)
(* change inserts a row and sets the one-time superseded_by pointer of the *)
(* head it was decided on.  ACTIVE needs a recorded, unexpired evaluation  *)
(* of a fresh activation event and no open containment.  The transactions  *)
(* run at READ COMMITTED, one statement at a time: a head is read, the     *)
(* rules are checked, the row is inserted (where the triggers check again) *)
(* and the head is superseded, with commits of other sessions in between.  *)
(***************************************************************************)
EXTENDS Integers, Sequences, FiniteSets

CONSTANTS
    Sessions,         \* callers of advanceState, containForFailedGate, rollbackToApproved
    ActivationEvents, \* activation event references
    NoActivation,     \* the reference of a row without one
    ActivationKinds,  \* kinds of evaluation exercised
    Targets,          \* the states advances ask for
    RequiresProven,   \* whether the scope says requires_proven
    Histories,        \* the states the scope may already have been through
    EvidenceTtl,      \* instants an evaluation stays unexpired
    MaxInstant, MaxRows, MaxBatches, MaxContainments \* bounds on clock, rows, evaluations
                                                     \* and containments

ASSUME ActivationAssumption ==
    /\ NoActivation \notin ActivationEvents
    /\ ActivationKinds \subseteq {"OPERATIONAL", "OPPORTUNITY"}
    /\ RequiresProven \in BOOLEAN
    /\ EvidenceTtl \in Nat \ {0} /\ MaxInstant \in Nat /\ MaxRows \in Nat
    /\ MaxBatches \in Nat /\ MaxContainments \in Nat

VARIABLES
    instant,      \* the clock every caller reads
    stateRows,    \* prod.module_states, in the order of commit
    evaluations,  \* the batches of prod.activation_gate_evaluations
    containments, \* prod.containment_events: applied action, open or cleared
    rolledBack,   \* events prod.rollback_events has introduced
    tx            \* per session, the operation in progress

activationVars == <<instant, stateRows, evaluations, containments, rolledBack, tx>>

Lifecycle == {"IMPLEMENTED", "AVAILABLE", "SHADOW", "PROVEN", "ACTIVE", "DEGRADED", "PAUSED",
              "RETIRED", "DISABLED"}

(* legalLifecycleTransition: a contained module returns to ACTIVE only      *)
(* through a state that re-runs the gate.                                   *)
LegalLifecycle ==
    [NOT_IMPLEMENTED |-> {"IMPLEMENTED"},
     IMPLEMENTED |-> {"AVAILABLE", "SHADOW", "DISABLED", "RETIRED"},
     AVAILABLE   |-> {"SHADOW", "DEGRADED", "PAUSED", "DISABLED", "RETIRED"},
     SHADOW      |-> {"PROVEN", "AVAILABLE", "PAUSED", "DISABLED", "RETIRED"},
     PROVEN      |-> {"ACTIVE", "PAUSED", "DISABLED", "RETIRED"},
     ACTIVE      |-> {"DEGRADED", "PAUSED", "DISABLED", "RETIRED"},
     DEGRADED    |-> {"ACTIVE", "PAUSED", "DISABLED", "RETIRED"},
     PAUSED      |-> {"DEGRADED", "ACTIVE", "DISABLED", "RETIRED"},
     RETIRED     |-> {"DISABLED"},
     DISABLED    |-> {"IMPLEMENTED", "AVAILABLE", "SHADOW", "PROVEN", "DEGRADED", "PAUSED"}]

(* A scope starts from rows legal edges have led through, none of them ACTIVE. *)
ASSUME HistoriesLegal ==
    \A h \in Histories :
        /\ h \in Seq(Lifecycle \ {"ACTIVE"}) /\ Len(h) <= MaxRows
        /\ \A i \in 1..(Len(h) - 1) : h[i + 1] \in LegalLifecycle[h[i]]

NoBatch == [event |-> NoActivation, kind |-> "none", verdict |-> "none", at |-> 0]
Batches == [event : ActivationEvents, kind : ActivationKinds, verdict : {"PASS", "REFUSE"},
            at : 0..MaxInstant]
NoTx == [op |-> "none", step |-> "none", head |-> 0, to |-> "none", batch |-> NoBatch,
         event |-> NoActivation, at |-> 0, began |-> 0]

RowsOf(history) ==
    [i \in DOMAIN history |->
        [state |-> history[i], event |-> NoActivation, kind |-> "none", at |-> 0,
         next |-> IF i = Len(history) THEN 0 ELSE i + 1]]

ActivationInit ==
    /\ instant = 0
    /\ \E history \in Histories : stateRows = RowsOf(history)
    /\ evaluations = {} /\ containments = <<>> /\ rolledBack = {}
    /\ tx = [s \in Sessions |-> NoTx]

-----------------------------------------------------------------------------
(* nonSupersededHead: the last row, by created_at and then by its hashed    *)
(* id, that no row supersedes; 0 when there is none.                        *)
Unsuperseded == {i \in DOMAIN stateRows : stateRows[i].next = 0}
HeadRows == IF Unsuperseded = {} THEN {0}
         ELSE {i \in Unsuperseded : \A j \in Unsuperseded : stateRows[j].at <= stateRows[i].at}

StateOf(i) == IF i = 0 THEN "NOT_IMPLEMENTED" ELSE stateRows[i].state

(* statesFor: dimensions the scope's history ever established. *)
Established(dimension) ==
    \E i \in DOMAIN stateRows : stateRows[i].state \in
        (IF dimension = "AVAILABLE" THEN {"AVAILABLE", "PROVEN", "ACTIVE"} ELSE {"PROVEN"})

OpenContainment == \E c \in DOMAIN containments : ~containments[c].cleared

(* An event that ever backed an ACTIVE row backs no other. *)
Consumed(event) ==
    \E i \in DOMAIN stateRows : stateRows[i].state = "ACTIVE" /\ stateRows[i].event = event

SameEvent(b) == {c \in evaluations : c.event = b.event /\ c.kind = b.kind}

(* requirePersistedActivationEvidence: the supplied batch is the latest for *)
(* its event and kind, unexpired, and no refusal exists for them.           *)
EvidenceHolds(b, at) ==
    /\ \A c \in SameEvent(b) : c.verdict # "REFUSE"
    /\ \A c \in SameEvent(b) : c.at <= b.at
    /\ b.at + EvidenceTtl > at

(* The triggers of the INSERT of an ACTIVE row: again no refusal, exactly   *)
(* one unexpired batch at the instant the transaction began, PROVEN where   *)
(* required, no open containment, and an unused event.                      *)
TriggersAdmit(b, began) ==
    LET live == {c \in SameEvent(b) : c.verdict = "PASS" /\ c.at + EvidenceTtl > began}
    IN  /\ \A c \in SameEvent(b) : c.verdict # "REFUSE"
        /\ \E c \in live : live = {c}
        /\ RequiresProven => Established("PROVEN")
        /\ ~OpenContainment /\ ~Consumed(b.event)

(* evaluateActivationGate and recordActivationGateResult: the inputs of the *)
(* gates are the caller's, so either verdict may come out; PASS and REFUSE  *)
(* are both recorded, and the identity of a batch refuses a second one.     *)
recordActivationGateResult ==
    \E b \in [event : ActivationEvents, kind : ActivationKinds, verdict : {"PASS", "REFUSE"},
              at : {instant}] :
        /\ b \notin evaluations /\ Cardinality(evaluations) < MaxBatches
        /\ evaluations' = evaluations \union {b}
        /\ UNCHANGED <<instant, stateRows, containments, rolledBack, tx>>

-----------------------------------------------------------------------------
BeginTx(s, op, step, head, to, batch, event) ==
    tx' = [tx EXCEPT ![s] = [op |-> op, step |-> step, head |-> head, to |-> to,
                             batch |-> batch, event |-> event, at |-> instant, began |-> 0]]

(* advanceState up to its transaction: the head is read, the edge must be   *)
(* legal, and ACTIVE and PROVEN name a recorded PASS.                       *)
advanceState(s) ==
    /\ tx[s] = NoTx
    /\ \E head \in HeadRows : \E to \in LegalLifecycle[StateOf(head)] \cap Targets :
        \E b \in {c \in evaluations : c.verdict = "PASS"} \union {NoBatch} :
            /\ CASE to = "ACTIVE" -> b # NoBatch
                 [] to = "PROVEN" -> b.kind = "OPPORTUNITY"
                 [] OTHER -> b = NoBatch
            /\ BeginTx(s, "advance", "begun", head, to, b,
                     IF to = "ACTIVE" THEN b.event
                     ELSE IF head = 0 THEN NoActivation ELSE stateRows[head].event)
    /\ UNCHANGED <<instant, stateRows, evaluations, containments, rolledBack>>

(* The mapped action where it is a legal edge, else DISABLED. *)
ContainedState(from, action) ==
    IF action \in LegalLifecycle[from] THEN action ELSE "DISABLED"

(* containForFailedGate: the head is read inside the transaction; DISABLED  *)
(* from DISABLED is no edge, so advanceState refuses it.                    *)
containForFailedGate(s) ==
    /\ tx[s] = NoTx /\ Len(containments) < MaxContainments
    /\ \E head \in HeadRows \ {0}, action \in {"DEGRADED", "PAUSED", "DISABLED"} :
        LET to == ContainedState(stateRows[head].state, action)
        IN  /\ to \in LegalLifecycle[stateRows[head].state]
            /\ BeginTx(s, "contain", "begun", head, to, NoBatch, stateRows[head].event)
    /\ UNCHANGED <<instant, stateRows, evaluations, containments, rolledBack>>

(* rollbackToApproved up to its transaction: only what reached ACTIVE under *)
(* the prior event is restored, under a new event, into PAUSED or DISABLED. *)
rollbackToApproved(s) ==
    /\ tx[s] = NoTx
    /\ \E head \in HeadRows \ {0}, i \in DOMAIN stateRows, event \in ActivationEvents \ rolledBack :
        /\ stateRows[i].state = "ACTIVE" /\ event # stateRows[i].event
        /\ LET to == ContainedState(stateRows[head].state, "PAUSED")
           IN  /\ to \in LegalLifecycle[stateRows[head].state]
               /\ BeginTx(s, "rollback", "begun", head, to, NoBatch, event)
    /\ UNCHANGED <<instant, stateRows, evaluations, containments, rolledBack>>

(* The checks inside the transaction.  A containment and a rollback call    *)
(* advanceState there, which reads the head again; a rollback refuses under *)
(* an open containment, as an advance to ACTIVE does.                       *)
MayProceed(s) ==
    /\ tx[s].op # "advance" => tx[s].head \in HeadRows
    /\ tx[s].op = "rollback" => ~OpenContainment /\ tx[s].event \notin rolledBack
    /\ tx[s].to = "PROVEN" =>
          EvidenceHolds(tx[s].batch, tx[s].at) /\ Established("AVAILABLE")
    /\ tx[s].to = "ACTIVE" =>
          /\ RequiresProven => Established("PROVEN")
          /\ ~OpenContainment /\ ~Consumed(tx[s].batch.event)
          /\ EvidenceHolds(tx[s].batch, tx[s].at)
          /\ Established("AVAILABLE")

EndTx(s) == tx' = [tx EXCEPT ![s] = NoTx]

txCheck(s) ==
    /\ tx[s].step = "begun"
    /\ IF MayProceed(s)
       THEN tx' = [tx EXCEPT ![s].step = "checked", ![s].began = instant]
       ELSE EndTx(s)
    /\ UNCHANGED <<instant, stateRows, evaluations, containments, rolledBack>>

(* The INSERT, invisible to others until the commit; its triggers read what *)
(* is committed now.                                                        *)
txInsert(s) ==
    /\ tx[s].step = "checked" /\ Len(stateRows) < MaxRows
    /\ IF tx[s].to = "ACTIVE" /\ ~TriggersAdmit(tx[s].batch, tx[s].began)
       THEN EndTx(s)
       ELSE tx' = [tx EXCEPT ![s].step = "inserted"]
    /\ UNCHANGED <<instant, stateRows, evaluations, containments, rolledBack>>

(* Mutant: the pointer is set whatever it held. *)
SupersedesAnyway(head) == TRUE

(* UPDATE ... WHERE superseded_by IS NULL, with nothing to supersede for a  *)
(* first row.                                                               *)
Supersedes(head) == head # 0 => stateRows[head].next = 0

(* The supersede and the commit of everything the transaction wrote, or     *)
(* CONCURRENT_SUPERSEDE_RACE and a rollback of all of it.                   *)
txCommit(s) ==
    LET t   == tx[s]
        new == Len(stateRows) + 1
        row == [state |-> t.to, event |-> t.event, kind |-> t.batch.kind, at |-> t.at,
                next |-> 0]
    IN  /\ t.step = "inserted" /\ new <= MaxRows /\ EndTx(s)
        /\ IF Supersedes(t.head)
           THEN /\ stateRows' = Append([i \in DOMAIN stateRows |->
                                           IF i = t.head THEN [stateRows[i] EXCEPT !.next = new]
                                           ELSE stateRows[i]], row)
                /\ containments' = IF t.op = "contain"
                                   THEN Append(containments, [action |-> t.to, cleared |-> FALSE,
                                                              at |-> t.at, row |-> new])
                                   ELSE containments
                /\ rolledBack' = IF t.op = "rollback" THEN rolledBack \union {t.event}
                                 ELSE rolledBack
           ELSE UNCHANGED <<stateRows, containments, rolledBack>>
        /\ UNCHANGED <<instant, evaluations>>

(* A session dies: its transaction rolls back. *)
SessionDies(s) ==
    /\ tx[s] # NoTx /\ EndTx(s)
    /\ UNCHANGED <<instant, stateRows, evaluations, containments, rolledBack>>

(* clearContainment: once, with an explicit revalidation event. *)
clearContainment ==
    \E c \in DOMAIN containments :
        /\ ~containments[c].cleared
        /\ containments' = [containments EXCEPT ![c].cleared = TRUE]
        /\ UNCHANGED <<instant, stateRows, evaluations, rolledBack, tx>>

InstantPasses ==
    /\ instant < MaxInstant /\ instant' = instant + 1
    /\ UNCHANGED <<stateRows, evaluations, containments, rolledBack, tx>>

ActivationNext ==
    \/ recordActivationGateResult \/ clearContainment \/ InstantPasses
    \/ \E s \in Sessions :
          \/ advanceState(s) \/ containForFailedGate(s) \/ rollbackToApproved(s)
          \/ txCheck(s) \/ txInsert(s) \/ txCommit(s) \/ SessionDies(s)

ActivationSpec == ActivationInit /\ [][ActivationNext]_activationVars

ActivationTypeOK ==
    /\ instant \in 0..MaxInstant /\ Len(stateRows) <= MaxRows
    /\ \A i \in DOMAIN stateRows :
          stateRows[i] \in [state : Lifecycle, event : ActivationEvents \union {NoActivation},
                            kind : ActivationKinds \union {"none"}, at : 0..MaxInstant,
                            next : 0..MaxRows]
    /\ evaluations \subseteq Batches
    /\ \A c \in DOMAIN containments :
          containments[c] \in [action : {"DEGRADED", "PAUSED", "DISABLED"}, cleared : BOOLEAN,
                               at : 0..MaxInstant, row : 1..MaxRows]
    /\ rolledBack \subseteq ActivationEvents
    /\ \A s \in Sessions : tx[s].step \in {"none", "begun", "checked", "inserted"}

-----------------------------------------------------------------------------
(* Whatever advances, containments, rollbacks and evaluations race, the     *)
(* rows of a registered scope form one chain of legal edges with one head;  *)
(* each ACTIVE row stands on an unexpired PASS for an event no other ACTIVE *)
(* row used, with AVAILABLE (and PROVEN where the scope asks for it)        *)
(* established before it; and while a containment is open the head is not   *)
(* ACTIVE.                                                                  *)
ActivationGoverned ==
    /\ <<>> \notin Histories => Unsuperseded = {Len(stateRows)}
    /\ \A i \in DOMAIN stateRows : stateRows[i].next # 0 =>
          /\ i < stateRows[i].next
          /\ stateRows[stateRows[i].next].state \in LegalLifecycle[stateRows[i].state]
    /\ \A i \in DOMAIN stateRows : stateRows[i].state = "ACTIVE" =>
          /\ \E b \in evaluations : /\ b.verdict = "PASS" /\ b.event = stateRows[i].event
                                    /\ b.kind = stateRows[i].kind
                                    /\ b.at + EvidenceTtl > stateRows[i].at
          /\ \A j \in DOMAIN stateRows :
                (stateRows[j].state = "ACTIVE" /\ stateRows[j].event = stateRows[i].event) => j = i
          /\ \E j \in 1..(i - 1) : stateRows[j].state \in {"AVAILABLE", "PROVEN"}
          /\ RequiresProven => \E j \in 1..(i - 1) : stateRows[j].state = "PROVEN"
    /\ OpenContainment => \A i \in HeadRows \ {0} : stateRows[i].state # "ACTIVE"

-----------------------------------------------------------------------------
(* What the comments of module-states.ts say of reactivation: after a       *)
(* containment ACTIVE rests on an evaluation recorded since.                *)
ReactivationIsFresh ==
    \A c \in DOMAIN containments : \A i \in (containments[c].row + 1)..Len(stateRows) :
        stateRows[i].state = "ACTIVE" =>
            \E b \in evaluations : /\ b.event = stateRows[i].event /\ b.verdict = "PASS"
                                   /\ b.at >= containments[c].at

(* What containment.ts says of the actions: a failed gate never moves the   *)
(* module from the stop of an open containment to a weaker one.             *)
ContainmentNeverWeakens ==
    LET rank == [DEGRADED |-> 0, PAUSED |-> 1, DISABLED |-> 2]
    IN  \A c, d \in DOMAIN containments :
            (~containments[c].cleared /\ stateRows[containments[c].row].next = containments[d].row)
                => rank[containments[d].action] >= rank[containments[c].action]

=============================================================================
