------------------------------ MODULE ToolCore ------------------------------
(* One logical tool call through the 24 stages of the shared tool core, for  *)
(* several calls on the same resource at once.  A call is a context (ctx)    *)
(* that the stages fill; a typed refusal (blocked) makes the functional      *)
(* stages skip, a thrown error enters the failure cleanup, and both end in   *)
(* audit and envelope.  Stages that touch nothing shared are one step; a     *)
(* stage the context makes a no-op is passed over.  A call may crash at any  *)
(* stage and be retried under its run id, with a fresh context over the rows *)
(* the first attempt left.                                                   *)
EXTENDS QuotaLedger, SingleFlight

CONSTANTS
    MaxRetries,    \* executions of a run id after its first, over all runs
    MaxFaults      \* crashes and database, object store or audit failures

VARIABLES
    ctx,        \* ToolRunContext of the execution under way or just ended
    decision,   \* evidence_acquisition_decisions, per run
    cache,      \* the exact-cache entry of the resource
    retries,    \* executions beyond the first of each run
    faults      \* crashes and failures so far

coreVars == <<ctx, decision, cache, retries, faults>>
toolVars == <<ledgerVars, flight, coreVars>>

CleanupStages == {"settle", "persist", "release", "outcome"}
Stages == {"idle", "decision", "probe", "cache", "lease", "recheck", "estimate", "admit",
           "reserve", "dispatch", "audit", "envelope", "done", "lost"} \union CleanupStages

(* The stage after one of the tail. *)
After == [settle |-> "persist", persist |-> "release", release |-> "outcome",
          outcome |-> "audit", audit |-> "envelope"]

NoDecisionRow == [state |-> "NONE", requested |-> FALSE, probe |-> FALSE]
FreshContext == [stage |-> "idle", cleanup |-> FALSE, blocked |-> FALSE, decided |-> "REQUESTED",
                 requested |-> FALSE, served |-> FALSE, waited |-> FALSE, token |-> 0,
                 downgraded |-> FALSE, reserved |-> FALSE, result |-> FALSE,
                 threw |-> {}, audited |-> "NONE", envelope |-> "NONE"]

ToolTypeOK ==
    /\ admission \in [window : BOOLEAN, bucket : Buckets]
    /\ \A r \in Runs :
           /\ reservation[r].state \in {"NONE", "RESERVED", "COMMITTED", "RELEASED"}
           /\ reservation[r].bucket \in Buckets \union {"none"}
           /\ ctx[r].stage \in Stages /\ ctx[r].threw \subseteq CleanupStages
           /\ ctx[r].result => ctx[r].reserved \/ ctx[r].served
           /\ decision[r].probe => decision[r].requested
           /\ decision[r].state \in {"NONE", "NOT_REQUESTED", "BLOCKED", "REQUESTED",
                                     "RETURNED", "REFUSED"}
    /\ flight.status \in {"free", "held", "expired"}
    /\ cache \in {"NONE", "USABLE", "EXPIRED"}

ToolInit ==
    /\ LedgerInit /\ FlightInit
    /\ ctx = [r \in Runs |-> FreshContext]
    /\ decision = [r \in Runs |-> NoDecisionRow]
    /\ cache = "NONE"
    /\ retries = 0
    /\ faults = 0

-----------------------------------------------------------------------------
(* Where a context goes when a stage is over: to the stage named, or to the  *)
(* first duty of the tail that is not a no-op for it.  Marks of the lease    *)
(* and admission stages mean nothing to the tail.                            *)
FirstDuty(c) == IF c.reserved THEN "settle" ELSE "release"
AtStage(r, s) == ctx[r].stage = s
Goto(r, c, s) == ctx' = [ctx EXCEPT ![r] = [c EXCEPT !.stage = s]]
Advance(r, s) == Goto(r, ctx[r], s)
Blocked(c) == [c EXCEPT !.blocked = TRUE, !.waited = FALSE, !.downgraded = FALSE]
Block(r) == Goto(r, Blocked(ctx[r]), FirstDuty(ctx[r]))

(* Mutant: the first error of the tail ends the cleanup. *)
ThrownSkipsCleanup(c) ==
    [Blocked(c) EXCEPT !.cleanup = TRUE, !.threw = @ \union ({c.stage} \cap CleanupStages),
                       !.stage = IF c.stage = "envelope" THEN "envelope" ELSE "audit"]

(* What the catch of execute does with an error thrown by the stage the      *)
(* context is at.  The first error of a call that was not refused marks its  *)
(* stage as reached, so that the cleanup passes over it; a refused call      *)
(* tries the stage again; an error of the cleanup itself moves on.  A call   *)
(* that is refused has nothing to persist.                                   *)
ThrownContext(c) ==
    LET b == [Blocked(c) EXCEPT !.cleanup = TRUE,
                                !.threw = @ \union ({c.stage} \cap CleanupStages)]
    IN IF c.stage \notin CleanupStages
       THEN [b EXCEPT !.stage = IF c.stage \in {"audit", "envelope"} THEN c.stage ELSE FirstDuty(c)]
       ELSE IF c.blocked /\ ~c.cleanup THEN [b EXCEPT !.threw = c.threw]
       ELSE [b EXCEPT !.stage = IF c.stage = "settle" THEN "release" ELSE After[c.stage]]

Throw(r) == ctx' = [ctx EXCEPT ![r] = ThrownContext(ctx[r])]

(* Audit and envelope are tried once more after the catch; a second failure  *)
(* leaves the caller with nothing.                                           *)
ThrowOrLose(r) ==
    IF ctx[r].stage \in {"audit", "envelope"} /\ ctx[r].cleanup
    THEN ctx' = [ctx EXCEPT ![r] = [FreshContext EXCEPT !.stage = "lost"]]
    ELSE Throw(r)

-----------------------------------------------------------------------------
(* execute: a fresh context; stages 1 to 4 authenticate, authorise, validate *)
(* and decide without shared state.  They refuse, or decide REQUESTED or     *)
(* NOT_REQUESTED_BY_POLICY; the latter does not refuse.  A caller that got a *)
(* refusal or nothing may repeat the call under its run id.                  *)
execute(r, verdict) ==
    /\ \/ AtStage(r, "idle") /\ UNCHANGED retries
       \/ /\ AtStage(r, "lost") \/ (AtStage(r, "done") /\ ctx[r].envelope = "BLOCKED")
          /\ retries < MaxRetries
          /\ retries' = retries + 1
    /\ Goto(r, IF verdict = "refused" THEN Blocked(FreshContext)
               ELSE [FreshContext EXCEPT !.decided = verdict], "decision")
    /\ UNCHANGED <<ledgerVars, flight, decision, cache, faults>>

(* Stage 5: an existing row of the run must agree, unless a request is       *)
(* retried; a new request is stored first and gets its probe assignment in a *)
(* transaction of its own.                                                   *)
ProposedState(c) == IF c.blocked THEN "BLOCKED" ELSE c.decided

RetryAgrees(c, row) ==
    row.state = ProposedState(c) \/ (ProposedState(c) = "REQUESTED" /\ row.requested)

AfterDecision(c) == IF c.blocked THEN FirstDuty(c) ELSE "cache"

persistRequested(r) ==
    LET c == ctx[r]
        row == decision[r]
        requests == ProposedState(c) = "REQUESTED"
    IN
    /\ AtStage(r, "decision")
    /\ \/ /\ row = NoDecisionRow
          /\ decision' = [decision EXCEPT ![r] =
                 [state |-> ProposedState(c), requested |-> requests, probe |-> FALSE]]
          /\ Goto(r, [c EXCEPT !.requested = requests],
                  IF requests THEN "probe" ELSE AfterDecision(c))
       \/ /\ row # NoDecisionRow /\ RetryAgrees(c, row)
          /\ Goto(r, [c EXCEPT !.requested = row.requested], AfterDecision(c))
          /\ UNCHANGED decision
       \/ /\ row # NoDecisionRow /\ ~RetryAgrees(c, row)
          /\ Throw(r) /\ UNCHANGED decision
    /\ UNCHANGED <<ledgerVars, flight, cache, retries, faults>>

recordProbeAssignment(r) ==
    /\ AtStage(r, "probe")
    /\ decision' = [decision EXCEPT ![r].probe = TRUE]
    /\ Advance(r, "cache")
    /\ UNCHANGED <<ledgerVars, flight, cache, retries, faults>>

(* Mutant: a hit is taken for a provider result. *)
ServedAsResult(c) == [c EXCEPT !.result = TRUE]

(* Stages 6 to 9: an entry that is fresh, or stale within what the call      *)
(* accepts, answers it.                                                      *)
Served(c) == [c EXCEPT !.served = TRUE, !.waited = FALSE]

lookupCache(r) ==
    /\ AtStage(r, "cache")
    /\ IF cache = "USABLE" THEN Goto(r, Served(ctx[r]), FirstDuty(ctx[r])) ELSE Advance(r, "lease")
    /\ UNCHANGED <<ledgerVars, flight, decision, cache, retries, faults>>

(* Stage 10: take the lease, or poll until it frees or the deadline passes.  *)
leaseAcquire(r) ==
    /\ AtStage(r, "lease")
    /\ takeover
    /\ Goto(r, [ctx[r] EXCEPT !.token = flight.token + 1], "recheck")
    /\ UNCHANGED <<ledgerVars, decision, cache, retries, faults>>

leaseWait(r) ==
    /\ AtStage(r, "lease") /\ ~LeaseTakable /\ ~ctx[r].waited
    /\ Goto(r, [ctx[r] EXCEPT !.waited = TRUE], "lease")
    /\ UNCHANGED <<ledgerVars, flight, decision, cache, retries, faults>>

leaseDeadline(r) ==
    /\ AtStage(r, "lease") /\ ctx[r].waited
    /\ Block(r)
    /\ UNCHANGED <<ledgerVars, flight, decision, cache, retries, faults>>

(* Stage 11: only a call that waited looks at the cache again. *)
postLeaseRecheck(r) ==
    /\ AtStage(r, "recheck")
    /\ IF ctx[r].waited /\ cache = "USABLE"
       THEN Goto(r, Served(ctx[r]), FirstDuty(ctx[r]))
       ELSE Goto(r, [ctx[r] EXCEPT !.waited = FALSE], "estimate")
    /\ UNCHANGED <<ledgerVars, flight, decision, cache, retries, faults>>

(* Stage 12, two awaits: an unknown cost refuses; a refused admission may be *)
(* tried once more with the narrower projection, where an unknown cost is    *)
(* thrown out of the stage.                                                  *)
quotaEstimate(r, known) ==
    /\ AtStage(r, "estimate")
    /\ \/ known /\ estimateContext /\ Advance(r, "admit")
       \/ ~known /\ ~ctx[r].downgraded /\ Block(r) /\ UNCHANGED ledgerVars
       \/ ~known /\ ctx[r].downgraded /\ Throw(r) /\ UNCHANGED ledgerVars
    /\ UNCHANGED <<flight, decision, cache, retries, faults>>

quotaAdmit(r) ==
    /\ AtStage(r, "admit")
    /\ \/ \E b \in AdmittedBuckets(r) : admitContext(b) /\ Advance(r, "reserve")
       \/ /\ AdmittedBuckets(r) = {} /\ UNCHANGED ledgerVars
          /\ \/ Block(r)
             \/ /\ ~ctx[r].downgraded
                /\ Goto(r, [ctx[r] EXCEPT !.downgraded = TRUE], "estimate")
    /\ UNCHANGED <<flight, decision, cache, retries, faults>>

(* Stage 13. *)
quotaReserve(r) ==
    /\ AtStage(r, "reserve")
    /\ \/ reserveTx(r) /\ Goto(r, [ctx[r] EXCEPT !.reserved = TRUE], "dispatch")
       \/ ~MayReserve(r) /\ Block(r) /\ UNCHANGED ledgerVars
    /\ UNCHANGED <<flight, decision, cache, retries, faults>>

(* Stages 14 to 17: the route, action class, prohibited-capability and       *)
(* egress checks, the call raced with its deadline, and the validation of    *)
(* the raw and the normalised answer; any of them refuses.                   *)
dispatch(r, valid) ==
    /\ AtStage(r, "dispatch")
    /\ IF valid THEN Goto(r, [ctx[r] EXCEPT !.result = TRUE], FirstDuty(ctx[r])) ELSE Block(r)
    /\ UNCHANGED <<ledgerVars, flight, decision, cache, retries, faults>>

-----------------------------------------------------------------------------
(* Mutant: any refusal to commit counts as settled. *)
quotaSettleSwallowed(r, actual) ==
    LET succeeded == ~ctx[r].blocked /\ ctx[r].result IN
    /\ AtStage(r, "settle")
    /\ Advance(r, IF succeeded THEN "persist" ELSE "release")
    /\ \/ succeeded /\ commitTx(r, actual)
       \/ ~succeeded /\ releaseTx(r)
       \/ ~MayCommit(r, actual) /\ UNCHANGED ledgerVars
    /\ UNCHANGED <<flight, decision, cache, retries, faults>>

(* Stage 18.  A refusal of the adapter is thrown on: the only case           *)
(* commitSettled lets pass, a typed refusal of a reservation that is already *)
(* in the wanted state, is one the adapter reports with an untyped error.    *)
quotaSettle(r, actual) ==
    LET succeeded == ~ctx[r].blocked /\ ctx[r].result IN
    /\ AtStage(r, "settle")
    /\ \/ succeeded /\ commitTx(r, actual) /\ Advance(r, "persist")
       \/ succeeded /\ ~MayCommit(r, actual) /\ Throw(r) /\ UNCHANGED ledgerVars
       \/ ~succeeded /\ releaseTx(r) /\ Advance(r, "release")
       \/ ~succeeded /\ reservation[r].state # "RESERVED" /\ Throw(r) /\ UNCHANGED ledgerVars
    /\ UNCHANGED <<flight, decision, cache, retries, faults>>

(* Stages 19 and 20, reached only by a call with a result: the evidence      *)
(* artifact, then the cache entry, which is never overwritten, however old.  *)
persistResult(r, permitted) ==
    /\ AtStage(r, "persist") /\ Advance(r, "release")
    /\ cache' = IF permitted /\ cache = "NONE" THEN "USABLE" ELSE cache
    /\ UNCHANGED <<ledgerVars, flight, decision, retries, faults>>

(* Stage 21: a stale token is noted and the lease left to its holder. *)
leaseRelease(r) ==
    /\ AtStage(r, "release") /\ Advance(r, "outcome")
    /\ IF ctx[r].token # 0 THEN releaseLease(ctx[r].token) ELSE UNCHANGED flight
    /\ UNCHANGED <<ledgerVars, decision, cache, retries, faults>>

(* Stage 22: materialise a cached payload, which may be gone; complete the   *)
(* decision of a request once; a completed one is the outcome.               *)
Completed(row) == row.state \in {"RETURNED", "REFUSED"}

acquisitionOutcome(r, payload) ==
    LET c == IF ctx[r].served /\ ~ctx[r].result
             THEN IF payload THEN [ctx[r] EXCEPT !.result = TRUE] ELSE Blocked(ctx[r])
             ELSE ctx[r]
        row == decision[r]
    IN
    /\ AtStage(r, "outcome")
    /\ \/ /\ ~c.requested \/ Completed(row)
          /\ Goto(r, c, "audit") /\ UNCHANGED decision
       \/ /\ c.requested /\ ~Completed(row) /\ row.probe
          /\ decision' = [decision EXCEPT ![r].state = IF c.blocked THEN "REFUSED" ELSE "RETURNED"]
          /\ Goto(r, c, "audit")
       \/ /\ c.requested /\ ~Completed(row) /\ ~row.probe
          /\ ctx' = [ctx EXCEPT ![r] = ThrownContext(c)] /\ UNCHANGED decision
    /\ UNCHANGED <<ledgerVars, flight, cache, retries, faults>>

(* Stages 23 and 24. *)
Exit(c) == IF c.blocked THEN "BLOCKED" ELSE "SUCCESS"

audit(r) ==
    /\ AtStage(r, "audit")
    /\ Goto(r, [ctx[r] EXCEPT !.audited = Exit(ctx[r])], "envelope")
    /\ UNCHANGED <<ledgerVars, flight, decision, cache, retries, faults>>

(* A hit without a result (it was refused at or before its outcome) has its  *)
(* payload materialised first, also for a BLOCKED envelope: a payload that   *)
(* is gone throws.                                                           *)
envelope(r, payload) ==
    /\ AtStage(r, "envelope")
    /\ IF ctx[r].served /\ ~ctx[r].result /\ ~payload
       THEN ThrowOrLose(r)
       ELSE Goto(r, [ctx[r] EXCEPT !.result = @ \/ ctx[r].served, !.envelope = Exit(ctx[r])], "done")
    /\ UNCHANGED <<ledgerVars, flight, decision, cache, retries, faults>>

-----------------------------------------------------------------------------
(* Faults.  A failing dependency throws out of the stage. *)
stageThrows(r) ==
    /\ faults < MaxFaults
    /\ faults' = faults + 1
    /\ ctx[r].stage \in {"decision", "probe", "cache", "lease", "recheck", "audit", "envelope"}
                        \union CleanupStages
    /\ ThrowOrLose(r)
    /\ UNCHANGED <<ledgerVars, flight, decision, cache, retries>>

ToolCrash(r) ==
    /\ faults < MaxFaults
    /\ faults' = faults + 1
    /\ ctx[r].stage \notin {"idle", "done", "lost"}
    /\ Goto(r, FreshContext, "lost")
    /\ UNCHANGED <<ledgerVars, flight, decision, cache, retries>>

LeaseTtlPasses == FlightExpires /\ UNCHANGED <<ledgerVars, coreVars>>

CacheAges ==
    /\ cache = "USABLE"
    /\ cache' = "EXPIRED"
    /\ UNCHANGED <<ledgerVars, flight, ctx, decision, retries, faults>>

StageSteps(r) ==
    \/ persistRequested(r) \/ recordProbeAssignment(r) \/ lookupCache(r)
    \/ leaseAcquire(r) \/ leaseWait(r) \/ leaseDeadline(r) \/ postLeaseRecheck(r)
    \/ quotaAdmit(r) \/ quotaReserve(r) \/ leaseRelease(r) \/ audit(r)
    \/ \E ok \in BOOLEAN :
           \/ quotaEstimate(r, ok) \/ dispatch(r, ok)
           \/ persistResult(r, ok) \/ acquisitionOutcome(r, ok) \/ envelope(r, ok)
    \/ \E u \in ActualUnits : quotaSettle(r, u)

ToolNext ==
    \/ LeaseTtlPasses \/ CacheAges
    \/ \E r \in Runs :
           \/ \E v \in {"refused", "REQUESTED", "NOT_REQUESTED"} : execute(r, v)
           \/ StageSteps(r) \/ stageThrows(r) \/ ToolCrash(r)

ToolSpec == ToolInit /\ [][ToolNext]_toolVars

-----------------------------------------------------------------------------
(* Properties. *)

(* The units that the reservations of a bucket in a state stand for. *)
UnitsOf(b, state) ==
    UNION {{r} \X (1 .. reservation[r].units) :
               r \in {q \in Runs : reservation[q].bucket = b /\ reservation[q].state = state}}

(* The balances and the reservations tell one story: what a bucket holds as  *)
(* reserved and committed is what the reservations debited from it are worth *)
(* and never exceeds its limit, whatever admissions, settlements, crashes    *)
(* and retries of several calls interleave.                                  *)
LedgerExact == \A b \in Buckets :
    /\ balance[b].reserved = Cardinality(UnitsOf(b, "RESERVED"))
    /\ balance[b].committed = Cardinality(UnitsOf(b, "COMMITTED"))
    /\ remaining(b) >= 0

(* A SUCCESS envelope is earned: the call was served from the cache or its   *)
(* reservation is committed, and it was audited before the caller saw it.    *)
SuccessIsEarned == \A r \in Runs :
    /\ ctx[r].envelope # "NONE" => ctx[r].audited # "NONE"
    /\ ctx[r].envelope = "SUCCESS" =>
           /\ ctx[r].audited = "SUCCESS" /\ ctx[r].result
           /\ ctx[r].served \/ reservation[r].state = "COMMITTED"

(* Single flight: of the calls at the provider at most one holds the current *)
(* token, and its lease is not free: a late release of a call whose lease    *)
(* expired and was taken over never frees the lease of its successor.        *)
SingleCaller == \A r \in Runs : AtStage(r, "dispatch") =>
    /\ ctx[r].token \in 1 .. flight.token
    /\ ctx[r].token = flight.token => flight.status # "free"
    /\ \A q \in Runs \ {r} : ctx[q].token # ctx[r].token

(* The mandatory tail: a call that returned an envelope left neither its     *)
(* reservation open nor its lease held, unless that very duty threw.         *)
DutiesDischarged == \A r \in Runs : AtStage(r, "done") =>
    /\ ctx[r].reserved /\ reservation[r].state = "RESERVED" => "settle" \in ctx[r].threw
    /\ ctx[r].token # 0 /\ flight = [token |-> ctx[r].token, status |-> "held"]
           => "release" \in ctx[r].threw

(* What engine.ts says of the mandatory tail (405-409, 418-421): the settle   *)
(* duty always completes, so that no call that returned, with no dependency  *)
(* failing, leaves its reservation open.                                     *)
DutiesComplete == \A r \in Runs :
    AtStage(r, "done") /\ faults = 0 => reservation[r].state # "RESERVED"

(* What reserve-router.ts decides at admission holds of what is debited: the *)
(* protected reserve pays only for workloads that may draw on it.            *)
ReserveForItsWorkloads == \A r \in Runs : reservation[r].bucket = "reserve" => r \in Protected

=============================================================================
