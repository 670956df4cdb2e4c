# Foresift: TLA+ models of its concurrent parts

Foresift is a read-only market-intelligence system built as a TypeScript
monorepo. What it does on a schedule goes through `packages/workflow-runtime`:
deliveries from an external scheduler become runs, runs execute checkpointed
steps under leases, decisions leave notifications in an outbox, and failed runs
become dead letters that operators retry. Around this core stand the shared tool
core (single-flight, cache and quota in front of every provider call), the
collector (a leader-elected stream reader with fenced checkpoints), the alert
lifecycle, the governed lifecycles of provider operations and of modules, and
the automation that lands milestone states on the protected branch. All of them
keep their state in PostgreSQL tables (`migrations/`) or in receipts on disk; any
number of processes work on it and may die at any statement. These modules
model, check and prove what they promise.

## 1. Inventory

### Components

| component | state | operations | what makes it correct |
|---|---|---|---|
| step leases (`leases.ts`) | `wf.step_leases`: token, expiry, released; a sequence | acquire / take over, release, `isLive`, the compare inside each guarded write | a superseded holder commits nothing |
| step checkpoints (`steps.ts`) | `wf.steps`: status, attempt, input and output hash | `beginStep`, `checkpointStep`, `runStepOnce` | one answer per idempotency key; terminal rows are frozen |
| notification outbox (`outbox.ts`, `shadow.ts`) | `wf.notification_outbox`: status, claim owner, token, expiry, attempts | `commitDecisionWithOutbox`, `claimOutboxBatch`, `deliverClaimed` | a suppressed row is never sent; each deliverable row settles within its budget |
| channels (`channels.ts`) | deliveries by idempotency key | `send` | one recorded delivery per key |
| schedule control (`schedules.ts`) | `wf.schedules`, `wf.schedule_versions`, `wf.schedule_forecasts` | create, edit, enable, pause, resume, duplicate, disable, delete, run now | one linear version history; deletion is final; activation needs a forecast |
| trigger inbox (`trigger-inbox.ts`) | `wf.trigger_inbox`, `wf.runs` | `recordTriggerDelivery` | one run per message; overlap only where the policy allows it |
| dead letters (`dead-letters.ts`) | `wf.dead_letters`, and the rows of runs and steps | `openDeadLetter`, `retryFromLastValidCheckpoint` | completed history is kept; a run a retry completes is complete; a dead-lettered run has an open letter |
| tool core (`tool-core`) | the run context of each call, acquisition rows, cache, journal | the 24 stages of `execute`, its catch and cleanup | a success was paid for and recorded; every exit settles, releases, audits and answers |
| single-flight leases (`single-flight.ts`) | `core_single_flight_leases` | acquire / take over, release | one caller of a provider per resource |
| cost and quota (`quota-adapter.ts`) | balances, reservations, the shared admission context | estimate, admit, reserve, commit, release | the balance is the limit less what is reserved and committed |
| collector pipeline (`apps/collector`, `checkpoint-store.ts`, `repos/checkpoints.ts`) | leader lease, checkpoint, gaps, event keys | `CollectorApplication.run`, `reconnect`, `commitCheckpoint`, `resolveGapStatus` | nothing below the checkpoint is lost without a gap that says so |
| collector control (`partition-state.ts`, `capacity-governor.ts`, `watermark-coordinator.ts`, `backfill-planner.ts`) | partition row, capacity incidents, watermark, plan | `transition`, `admit`, `resume`, `advance`, `plan` | only the current controller moves a partition; the watermark covers a contiguous prefix |
| alerts (`packages/alerts`) | alert records, updates, fingerprint ledger | `classifyAlert`, `commitAlert`, `recordPriorAlert`, `sweepAlertLifecycle`, `commitAlertUpdate` | a class is earned; one update per key; no stale sweep overwrites a later one |
| provider lifecycle (`packages/provider-lifecycle`) | event ledger, projection, verification records | `transition`, `recordVerification`, `sweepExpired` | the ledger explains the projection; ACTIVE needs each source found fresh |
| module activation (`packages/capability-registry`) | state rows, evaluations, containments, rollbacks | `advanceState`, `containForFailedGate`, `clearContainment`, `rollbackToApproved` | one chain of legal rows; ACTIVE rests on unused, unexpired evidence and no open containment |
| state landing (`scripts/automation/state-landing.mjs`) | receipts, branches, pull requests, main | `advanceStateTransition`, `recoverPendingStateLandings` | only an authorized head is merged; a receipt tells the truth |
| retry policy (`retries.ts`) | none | `planAttempt` | the budget is exact |
| reconciliation, scheduler port, object store, audit chain, supervisor loop | see section 6 | | |

The rest of the repository (security policy, evaluation, market mathematics,
discovery, schemas, applications) is listed in `PROJECT.json` with the reason it
is not modelled.

### How they interact

The components of the runtime share tables, not messages.
`recordTriggerDelivery` locks the schedule row (`FOR UPDATE`) and inserts the
run; control actions read the same row *without* a lock and write it by id;
CANCEL_PREVIOUS writes runs the driver is executing; `runStepOnce` claims a step,
awaits an effect, and commits it under a fence; `openDeadLetter` writes step, run
and letter; `retryFromLastValidCheckpoint` calls back into `runStepOnce` with new
idempotency keys; the outbox reads `wf.runs.shadow` and calls a channel.

A tool call takes a single-flight lease, reserves quota, calls the provider and
persists what it got; calls on one resource meet in the lease, in the cache and in
the one admission context the quota adapter keeps per operation. `commitAlert`
hands its decision to the outbox. The collector's loop runs against ports; the
model binds them to the classes the repository offers. The landing lane works
against GitHub and against whoever else pushes and merges.

### What is hard

Every read that precedes a write by an `await` may be stale; every process may
die between two statements; leases and claims lapse under a live holder; the
scheduler delivers at least once; a channel or GitHub may do what it was asked and
lose the answer; two operators, admins, servers, sweeps or controllers do the
same thing at once. `PROJECT.json` lists these as hazards, each at its line, with
the properties that would catch it.

## 2. Modules

| module | models | state and actions |
|---|---|---|
| `StepExecution` | `leases.ts`, `steps.ts` | a variable per column of the two tables, the program counter and locals of each worker; `Acquire`, `Release`, `BeginRead` and then `BeginInsert` / `BeginRefuse` / `BeginReplay` / `BeginReclaim`, `RunEffect`, `Commit`, `Fail`, `CloseStep` (a caller of `checkpointStep` outside `runStepOnce`), `DeadLetterStep`, `Crash`, `Tick` |
| `NotificationOutbox` | `outbox.ts`, `channels.ts`, the choke points of `shadow.ts` | a variable per column, the claims a worker holds; `CommitDecision`, `LegacyRow`, `ClaimBatch`, and the stages of `deliverClaimed`: `StartDelivery`, `SkipClaim`, `PassGate`, `ResolvePayload`, `Send`, `MarkSent`, `MarkRetry`, `FinishDelivery`; `Lapse`, `Crash` |
| `DeliveryContract` | the promise of the outbox | abstract specification with a phase per notification and the set of delivered ones |
| `ScheduleStore` | the tables schedules, versions, forecasts, inbox, runs, with the row lock | shared state, `Tick`, `Drive` (the driver moves a run) |
| `ScheduleControl` | `schedules.ts` | `Load` (the unlocked read), then one action per control action; `AdminCrash` |
| `TriggerInbox` | `trigger-inbox.ts`, RUN_NOW | `RunNow`, `LockSchedule`, `InsertInbox`, `ProbeActive`, `CommitRun`, `ServerCrash` |
| `ScheduledRuns` | control and admission together | composition and the properties that need both |
| `DeadLetters` | `dead-letters.ts` with the driver and cancellation around it | `OpenRead` (with any of the references in `Refs`), `OpenWrite`; the statements of the retry: `LoadLetter`, `PlanRetry`, `StartResume`, `ResumeBegin`, `ResumeSucceed`, `ResumeFail`, `VerifyHistory` (the callback reported completion or not), `MarkRetried`, and `CompleteRun` only where it did; `Crash` |
| `SingleFlight` | `tool-core/src/single-flight.ts` | the lease of one resource: `takeover`, `releaseLease`, expiry |
| `QuotaLedger` | `cost-router/src/quota-adapter.ts` | balances, reservations and the admission context every call of a process shares: `estimateContext`, `admitContext`, `reserveTx`, `commitTx`, `releaseTx` |
| `ToolCore` | the pipeline of `tool-core` over the two modules above | the stage of each call, its context (reservation, lease, journal), decision rows and cache; one action per stage with shared state, `stageThrows` (the catch of `execute` and its cleanup), `envelope` with the payload of a cache hit there or gone, `ToolCrash` and the retry under the same run id |
| `CollectorPipeline` | `apps/collector`, `checkpoint-store.ts`, `repos/checkpoints.ts`, `duplicate-absorber.ts` | leader lease, checkpoint row, gap table, event keys, one program counter per collector; `acquire`, `load`, `reconnect`, `receive`, `appendImmutable`, `attributeFirstSeen`, `emitFeatureUpdate`, `commitGuard`, `commitWrite`, `resolveRead`, `resolveWrite` |
| `CollectorControl` | partition state machine, capacity governor, watermark, backfill planner | `transition` under the controller's token, `admitOverCeiling` / `createIncident`, `auditResume` / `resumePartition`, `advance`, `planStep` over the gaps and the job limit of a `request`, with its refusals |
| `ProviderLifecycle` | `provider-lifecycle` | ledger, projection, audits, verification records and the window projected from them; `recordVerification` with the TTL's or the caller's window and then `refreshProjectionWindow`; `requestState`, `activationGate` (a step per kind and source), `insertEvent`, `projectState`, `transitionAppended`; `sweepList`, `kindsWithRecords`, `sweepKind` (again per kind and source), `sweepTransition` |
| `ModuleActivation` | `capability-registry` | append-only state rows with their superseding pointer, evaluations, containments, rollbacks; the transactions of `advanceState`, `containForFailedGate`, `rollbackToApproved` as begin, check, insert (with the table's triggers) and commit |
| `AlertLifecycle` | `alerts` | classification as an operator over requests; records, updates, fingerprint ledger with a cooldown per class and a program counter per sweep: `recordPriorAlert`, `sweepStart`, `sweepExpires`, `sweepSkips`, `reassess`, `reassessLate`, `updateReads`, `updateWrites` |
| `StateLanding` | `state-landing.mjs` and its callers in `foresift-autopilot.mjs` | receipts, branches, main, CI verdicts; one action per status of a receipt, split where a call to git or GitHub and the receipt's write are two steps (`writeAfterEffect`, `updateBase` and `waitForCi`); `reuseBranch` (a branch a failed cleanup left), `callFails`, `checkFails`; `Crash` with the start-up recovery, `OtherMerge`, `ForeignPush`, `OperatorMerge`, `CiRerun` |
| `*Proofs` | | theorems: `StepExecutionProofs`, `NotificationOutboxProofs`, `ScheduledRunsProofs`, `DeadLetterProofs`, `ToolCoreProofs` (with single-flight and quota), `CollectorProofs` (pipeline and control), `SupplyProofs` (providers, modules, and the composition with the collector), `ReleaseProofs` (alerts and landing) |
| `MC*` | | definitions the configurations give constants. `MCScheduleParties`, `MCSupply` and `MCRelease` let a behaviour choose at its start which actors, or which independent component, it exercises, so that the state spaces add up instead of multiplying |

Grain. An action is one SQL statement, one transaction, one call of an effect,
channel, provider or of GitHub, or one receipt write. Where a transaction's write
re-checks all it read, reading and writing are one action; where it does not
(`beginStep`, every control action, `openDeadLetter`, `commitCheckpoint`,
`advanceState`, `transition` of a provider, `commitAlertUpdate`) they are several,
so that the other processes can act in between. Concurrent transactions run on
connections of their own under READ COMMITTED, as separate processes do.

Data. Ids, hashes, tokens and messages are model values compared for equality;
a configuration is its concurrency policy and shadow flag; a step type is its
place in the standard order; a stream message is its slot; an evaluation is its
verdict, event, kind and instant; a request to the alert classifier is the set of
facts its routing looks at and the set of gates that refuse; a milestone file is
its packages' statuses. Cron and timezone syntax, canonical JSON, MACs, error
texts and telemetry are left out. Refusals write nothing: they are guards, except
where a refusal changes what its process does next.

Each mutated form (a definition whose comment begins with `Mutant:`) stands
beside the definition it alters and shows what the property guards against. No
specification uses it.

## 3. Runs

All counts are distinct states.

| run | checks | instance and why it is enough |
|---|---|---|
| `step_fenced` | `TypeOK`, `FencedCommitIsLatestAttempt`, `InputHashBound` | 2 workers, 1 key, lease of 1 tick, a clock that runs 1 ahead, 3 tokens, 3 attempts: take-over under a live holder, return of the old holder and a third attempt all happen (368k) |
| `step_mixed` | `OneAnswerPerKey`, `TerminalRowsFrozen`, `LiveLeaseExclusive` | fenced and unfenced callers of one key (729k) |
| `outbox_safety` | `TypeOK`, `StatusMatchesDelivery`, `ClaimsExclusive`, `ImplementsContract` | 2 rows in one batch, 2 workers, 2 attempts, one death, two claims that lapse under their holder (1.8M) |
| `outbox_live` | `ImplementsFairContract` | 1 row, 2 workers, two deaths, two slow claims: the fair contract says every deliverable notification settles (38k) |
| `schedules` | `TypeOK`, `OverlapOnlyByPolicy`, `LinearHistory`, `OneRunPerMessage`, `RunsPinTheirVersion`, `SerialDeletionIsTerminal` | four casts: 1 admin, 2 servers and 2 messages under SKIP_IF_RUNNING and CANCEL_PREVIOUS; 2 admins over 3 versions with a delivery; 2 schedules that receive one message from 2 servers; a clock that moves past forecasts, some of them from the future (1.7M) |
| `sched_resume_race` | violates `ActivatedVersionIsForecast` | 2 admins |
| `letters` | `TypeOK`, `SucceededIsComplete`, `DeadLetteredIsActionable`, `CompletedStepsStay`, `RecoveryEnds` | 2 operators, 2 letters, 2 steps, 2 failing effects, 1 crash: a letter about a recovery step, two retries of one letter, a retry resumed after a crash, a resume that reports no completion, a letter whose reference is none, good or refused (773k) |
| `letters_ended` | violates `EndedRunStays` | |
| `toolcore` | `ToolTypeOK`, `LedgerExact`, `SuccessIsEarned`, `SingleCaller`, `DutiesDischarged` | 2 calls on one resource, one of them with access to a protected reserve of 1 unit beside a general pool of 1; answers that cost 1 or 2 units, one fault at any stage, one retry after a crash, a lease and a cache entry that age (4.7M) |
| `tool_settle` | violates `DutiesComplete` | |
| `supply` | `SupplyTypeOK`, `NoSilentLoss`, `CheckpointHonest`, `ControlStepsLegal`, `CoverageExact`, `LedgerSound`, `ActivationGoverned` | 2 collectors, 3 slots, 3 tokens, 1 gap; 2 controllers with an old and the current token; a watermark over 3 positions; plans of 2 gaps in chunks of 2 that need 4 jobs, with at most 3, 4 and 5, and a list with a bad gap; 2 callers, 3 lifecycle events, 2 gated kinds of 2 sources each and a third kind that fails, verifications that expire after 1 tick or start later; 2 sessions, 6 rows, 2 evaluations, 1 containment (1.8M) |
| `release` | `ReleaseTypeOK`, `AlertsExact`, `SerialCooldown`, `AlertsMoveForward`, `ReceiptsTruthful`, `LaneMergesItsAuthorizedHead` | 2 prior alerts of 2 classes, 2 sweeps of up to 2 alerts, a reassessment that warrants every kind of update, 2 updates, cooldowns of 1, 2 and 3 ticks by class and a latency budget of 1, once with overlapping sweeps and once without, and the classifier over all 2-valued requests; 2 transitions over 2 packages, 3 commits on main, 1 foreign push, 1 fault (a crash, a failed call, a failed check) (3.6M) |

What the larger properties say:

- `StatusMatchesDelivery`: SENT rows have a recorded delivery, rows of shadow runs
  and suppressed rows none; `ClaimsExclusive`: one worker holds a row, it knows the
  attempts spent, and an open row has attempts left.
- `RunsPinTheirVersion`: a run is admitted under the version current at its
  commit, keeps it, and is not cancelled by another after it ended.
- `LedgerExact`: whatever calls interleave, fail or die, the units of a bucket are
  the limit less those reserved and committed.
- `SuccessIsEarned`: every answer was audited first, and a call that answers
  success has a result and was served from the cache or has its reservation
  committed.
- `DutiesDischarged`: a call that has answered left neither its reservation open
  nor its lease held, unless that very duty threw; `DutiesComplete` says so of the
  reservation when no dependency failed at all, without the exception, and fails.
- `NoSilentLoss`: a slot below the checkpoint was processed or lies in a
  registered gap; `CheckpointHonest`: a token never moves the checkpoint of a newer
  one, nor its own backwards.
- `CoverageExact`: the watermark has every position below it observed, and a plan
  covers its gaps without overlap: whole, unless it reached its job limit, and then
  with exactly that many jobs; a plan that was refused has none.
- `LedgerSound`: every event is a legal edge out of a state that was projected,
  once, audited at most once, and each source of each kind of the gate was fresh at
  some instant between the start of the call and the entry into ACTIVE. The instants
  may differ: every query has its own reading of the clock, so a fresh *pair* does
  not follow (`ProviderPair.cfg`).
- `ActivationGoverned`: see its comment; like `LedgerSound` it holds although two
  callers decide on the same old state.
- `AlertsExact`: every class is earned by its request and every update by its
  prior, one per key; `AlertsMoveForward`: a ledger row changes only with an update
  it then names, its instant never moves back, and an expired record stays so. It
  does not speak of the end of the cooldown window: each class has a length of its
  own, and a raced RISK update does end it earlier (`AlertsRewind.cfg`).
- `SerialCooldown`: where one sweep works at a time, two updates of one prior are a
  cooldown apart, namely that of the class of the earlier one.
- `ReceiptsTruthful`, `LaneMergesItsAuthorizedHead`: the landing lane. A receipt
  that `reuseBranch` closed is marked `leftover` and left out of the first
  (`LandingLeftover.cfg`).

Bounds are constants named `Max*` in the guards of the actions they limit (clock,
tokens, attempts, crashes, slow claims, versions, rows, events). Runs that bound
crashes or time set `CHECK_DEADLOCK FALSE`: their behaviours end when everything
has settled. The scheduling runs keep the deadlock check.

Symmetry is used for interchangeable processes, schedules, events and packages,
in runs of safety properties only.

### Fairness

- Outbox (`FairSpec`): every worker's delivery loop keeps running and every
  orphaned claim lapses, because `claim_expires_at` is a fixed instant. Strong
  fairness is not needed. A claim lapses under a live holder a bounded number of
  times: a channel that is slower than the claim every time would starve the row
  in the code too.
- Dead letters (`FairSpec`): a process that has begun an opening or a retry goes
  on unless it crashes (weak fairness), and an open letter is loaded again and
  again by some operator (strong fairness, since the operators may be busy
  elsewhere). The second is an assumption on the people who run the system: the
  code lists open letters and retries none by itself.
- `RecoveryEnds` has two exceptions. The history variable `stranded`: a letter was
  marked RETRIED and the run not completed, because the operator's process died
  between the two writes or because the resume callback did not report completion
  (`dead-letters.ts:458`); the run stays RUNNING without an open letter and nothing in
  the code picks it up. And `~UsableRefs`: an open letter names a checkpoint that is
  not a completed step, which every retry refuses.
- State landing (`LandingFairSpec`): the supervisor ticks for ever and takes every
  open receipt on each tick, and CI gives a verdict on each head.

### What disagrees with the code's own words

Three runs violate what a comment or an error message of the repository says:

1. `sched_resume_race`: an edit commits between the read and the status write of
   an activation, although `schedules.ts:689` says the version cannot move
   between them.
2. `letters_ended`: `openDeadLetter` refuses ended runs on a copy and then writes
   by id alone, so a run that ends in between becomes DEAD_LETTERED.
3. `tool_settle`: when the settle stage itself throws, the catch of `execute` counts
   it as done and the call ends with its reservation still RESERVED, although
   `engine.ts:406` says the duties always complete.

Thirteen further configurations are kept as witnesses of narrower disagreements and
are run by hand; TLC reports a violation for each.

| configuration, module | property | what happens |
|---|---|---|
| `StepForeign.cfg`, `MCStepExecution` | `LiveLeaseExclusive` | the fence is compared on the key the caller's lease names, so a current lease of another step type passes, although `steps.ts:560` says a live lease always demands the matching token |
| `OutboxStaleSend.cfg`, `MCNotificationOutbox` | `StaleClaimNeverSends` | a claim lapses and is taken between the freshness check and the send (`outbox.ts:502`); the idempotency key keeps the delivery single |
| `SchedDelete.cfg`, `MCScheduledRuns` | `DeletedIsTerminal` | with two admins an EDIT_DRAFT that read the row before a DELETE clears the tombstone; with one admin the law holds (`SerialDeletionIsTerminal`) |
| `ToolReserve.cfg`, `MCToolCore` | `ReserveForItsWorkloads` | two calls share one admission context, so one reserves from the protected bucket the other was admitted to |
| `AlertsCooldown.cfg`, `MCRelease` | `CooldownCollapses` | two sweeps read an open cooldown and both write an update inside it |
| `AlertsRewind.cfg`, `MCRelease` | `WindowNeverRewinds` | two sweeps race; the update written second is of a class with a shorter cooldown and ends the window earlier, although `fingerprints.ts:375` says a stale worker can never rewind it (the guard compares `updated_at` only) |
| `LandingKept.cfg`, `MCRelease` | `OtherPackagesKept` | a transition computed on a stale checkout carries the other packages' old statuses to main |
| `LandingEnds.cfg`, `StateLanding` | `EveryLandingEnds` | main moves after the authorization, GitHub refuses the merge as out of date, and the lane repeats the refused command: only a pending verdict updates the base |
| `LandingLeftover.cfg`, `StateLanding` | `MergedIsOnMain` | a crash after the commit, a cleanup that does not remove the branch, and the retry finds nothing to stage: the receipt says MERGED and main never had the file, although `state-landing.mjs:780` says the state already matches main |
| `ProviderTerminal.cfg`, `MCSupply` | `TerminalStays` | two callers that read the same state project one after the other, and the second takes the operation out of BLOCKED, although `lifecycle-states.ts:15` says a terminal row is never resurrected |
| `ProviderPair.cfg`, `MCSupply` | `ActiveOnFreshPair` | one source is queried before its window ends and the other after its own begins: ACTIVE is entered on a pair that was never fresh together, although `verification-ttl.ts:266` says the pair rule requires both sources fresh |
| `ActivationStale.cfg`, `MCSupply` | `ReactivationIsFresh` | once a containment is cleared an evaluation older than it reactivates the module; `module-states.ts:842` asks for a fresh one |
| `ActivationWeaker.cfg`, `MCSupply` | `ContainmentNeverWeakens` | a second failed gate with a milder action moves the module from PAUSED to DEGRADED under an open containment |

## 4. Proofs

TLAPS checks the following for every value of the constants that satisfies the
modules' assumptions: any number of workers, rows, schedules, messages, letters,
calls, collectors, sweeps and sessions, any skew and any bound. Every invariant
and every action property that a passing run checks is also a theorem; the
liveness properties are not (see the end of this section).

An invariant is seldom inductive as a run states it. The text below names the
invariant that is, and what had to be added to get it. Invariants are conjunctions
of named parts, and each preservation proof has a step per action.

### Steps: `StepExecutionProofs`

From `StepAssumption` (types of the constants, and that the marker values are not
ordinary ones).

- `TypeCorrect`: `Spec => []TypeOK`.
- `FencedCommits`: when callers present the lease of their own step type and
  never omit it (`~AllowBare`, `~AllowForeign`), `FencedCommitIsLatestAttempt`
  always holds. `FencingInv` adds that a token is drawn once (`TokensUnique`),
  that a call presents the handle its worker holds, on its own step's key
  (`FenceIsHeld`), and that the row of an attempt exists (`ClaimedRowExists`). Two
  attempts of one key then need two tokens that are both current on one lease row.
- `InputStaysBound`: under the same hypotheses a key keeps its input hash.
  `beginStep` compares it on a copy, so `HashInv` adds that the copy's hash is
  still the row's for as long as the caller's fence would pass
  (`CopiesAreCurrent`), and that a row that is absent has no hash
  (`AbsentIsEmpty`).
- `LiveLeasesExclude`: `LiveLeaseExclusive`, with callers that present no lease
  (`AllowBare` is free) but none that present a foreign one, and clocks without
  skew: a worker whose clock runs ahead may take a lease that is still live on
  another clock.
- `HistoryFrozen`: `TerminalRowsFrozen` for all callers, fenced or not. Every
  write is guarded by a status that is not terminal.
- `SameAnswer`: `OneAnswerPerKey`. `AnswerInv` adds that a copy that shows
  SUCCEEDED still agrees with the row (`SnapshotsOfSuccessHold`), which follows
  from the frozen rows: a replay answers from a copy.

### Outbox: `NotificationOutboxProofs`

From `OutboxAssumption`.

- `TypeCorrect` needs `ClaimedHasToken`: `deliverClaimed` without a list takes the
  tokens of the rows it finds CLAIMED.
- `NothingSuppressedIsDelivered`: `StatusMatchesDelivery`. `DeliveryInv` carries the
  choke points of `shadow.ts` forward: what a worker is processing passed the gates
  (`GatePassed`), and neither the shadow flag nor a suppressed status ever changes.
- `ClaimsAreExclusive`: `ClaimInv` says that a token names its owner
  (`TokenNamesOwner`), since a batch installs a token nobody has used, and that a
  retry that returns a row to PENDING leaves an attempt.
- `OutboxImplementsContract`: the outbox implements the safety part of
  `DeliveryContract` under the mapping `Phase`; each action is shown to be one step
  of the contract or to leave it alone, by the invariants above.

### Schedules: `ScheduledRunsProofs`

From `StoreAssumption`. `RefInv` (theorem `References`) is the base of all others:
schedules point to versions of their own, an admin's copy of a row, however old,
names a version of its schedule, and a delivery past its first statement holds the
row lock, so its copy is the row.

- `HistoryIsLinear`: `LinearHistory`. The compare in `appendVersion` lets one edit
  follow each version; `HistoryInv` adds that a superseded version names one that
  was inserted.
- `OneRunEach`: `OneRunPerMessage`. `InboxInv`: one delivery of a message is past
  its insert at a time, every run is the one its inbox row names, and an answer
  repeats the inbox row.
- `PoliciesHold`: `OverlapOnlyByPolicy`. `OverlapInv` adds `ProbeStands`: what a
  delivery saw when it probed is still so at its commit, because no other delivery
  of the schedule passes the lock and no run that ended comes back.
- `PinsHold`: `RunsPinTheirVersion`.
- `OneAdminDeletesForGood`: with a single admin and any number of servers
  `DeletedIsTerminal` holds. `SerialInv` says that the copy the admin decided on is
  still the row (nobody else writes it), and that past the probe of DELETE the
  schedule is quiet, since deliveries admit nothing to a schedule that is not
  ACTIVE. With two admins it is false (`SchedDelete.cfg`). `SerialDeletes` is
  the form the run checks.

### Dead letters: `DeadLetterProofs`

From `LetterAssumption`; one inductive invariant, `LetterInv`, carries the five
theorems `LetterTypeOK`, `SucceededRunIsComplete`, `LetterRetriedOnce`,
`DeadLetteredRunIsActionable` and `HistoryIsKept`:

- `OpShape`: what the locals of an opening or a retry name exists;
- `ReportsCounted`: a letter has one report exactly when it is RETRIED, hence
  `RetriedOnce`, which is proved and not among the properties of a run;
- `FreshLetter`: a DEAD_LETTERED run has an OPEN letter no retry of which has
  begun to resume, hence `DeadLetteredIsActionable`;
- `CompletedPrefix` and `PlanCovers`: steps complete in their order, and what a
  retry's plan leaves out is completed. Together they give `SucceededIsComplete`:
  the checkpoint is a completed step, so everything before it is completed, and
  the plan holds the rest. That the latest completed step exists uses
  the well-foundedness of the naturals;
- `StepTableStep`, an action lemma: completed rows stay completed
  (`CompletedStepsStay`), which every other conjunct needs.

### Tool core: `ToolCoreProofs`

From `LedgerAssumption`.

- `LedgerIsExact`: `LedgerExact`, the sum over all reservations. The units of a
  bucket are counted as the cardinality of a set of pairs (`UnitsOf`), so that the
  sum is a theorem of finite sets and no fold is needed: a transaction that writes
  one row moves that row's units and no other (`Others`). `LedgerInv` adds that
  only finitely many units are ever reserved, whatever the number of run ids.
- `ToolTypes`, `SuccessEarned`, `OneCallerEach`, `TailDischarged` rest on one
  invariant, `CoreInv`, which says of each call what its stage has earned
  (`Earns`), closed (`Closes`) and settled (`Settles`), and of the lease that the
  token from lease to provider is not free and that tokens differ. A step of one
  call keeps the invariant of the others (`Mine`, `LeaseMoves`), so the pairs of
  actions need not be looked at.

### Collector: `CollectorProofs`

From `PipelineAssumption` and `ControlAssumption`.

- `NothingLost`: `NoSilentLoss`. `PathBacked` says what a run may count on at each
  program counter: the slots behind it are processed or in a registered gap, until
  it has committed once under its token; from then on a message may be lost, and
  the guard of `commitCheckpoint` looks at what lies between.
- `CheckpointsHonest`: `CheckpointHonest` while one resolver works at a time
  (`OneResolver`; two resolvers overwrite each other's verdict). `GuardStands`: what
  the guard saw still holds at the upsert, unless a later epoch has written.
- `StepsLegal`: `ControlStepsLegal`; `ResumesAudited` pairs every resume with an
  audit entry.
- `CoverageIsExact`: `CoverageExact`. The watermark's fold ends where the next
  position has no evidence; that such a position exists and that nothing below it
  is missing is the lemma `ContiguousFold`. The plan, for any list of gaps and any
  limit, needs `PlanOrdered` (it works through the gaps in order) and `PlanCovers`.
- `PipelineTyped`, `ControlTyped`.

### Providers and modules: `SupplyProofs`

From `LifecycleAssumption`, `HistoriesLegal` (a scope starts from rows that legal
edges led through) and the assumptions of the collector.

- `LedgerIsSound`: `LedgerSound`. `ProviderInv` says of every call under way that
  its event is a legal edge out of a known state (`SoundCall`) and that an
  event in the ledger is one caller's to project and audit (`OneHolder`). For the
  gate it says what a call that is half-way through may count on (`SoundGate`): both
  sources of every kind it has left behind were fresh at instants since it began,
  and so was the source behind every positive answer of the kind it is at. Records
  are only added and the clock only moves on, so such an instant stays one.
- `ActivationIsGoverned`: `ActivationGoverned` for a registered scope
  (`RegisteredScope`: it has a row; two first rows race for no pointer).
  `GovernedInv`: one chain (`Chained`), every ACTIVE row sound (`ActivesSound`), no
  ACTIVE head under an open containment (`StoppedWhileContained`), and for each
  transaction `TxSound`: what its INSERT was told still holds as long as no other
  commit has taken the head. A commit finds the head's pointer free, hence so.
- `SupplyTyped`: `SupplyTypeOK` of the composition.

### Alerts and landing: `ReleaseProofs`

From `AlertAssumption` and `LandingBounds` (there is a package, bounds are naturals).

- `ReceiptsAreTruthful`, `LaneMergesAuthorized`: the lane's invariant says where
  the supervisor is between two calls of an open receipt, that at the merge
  command the pinned head is the receipt's authorization, and that MERGED names a
  commit from which main had the file; main only grows. A base update that is
  pushed and not yet counted is within the budget (`BusyOpen`), so the counter stays
  within its limit although a crash may leave a push uncounted.
- `ClassesAreEarned`: whatever the requests are, the router of `classifyAlert`
  gives none a class it has not earned.
- `AlertsAreExact`, `AlertsOnlyMoveForward`: a sweep works with a clock that is past
  and on recorded alerts, and records only start and expire, so what a sweep
  relied on when it read is still so when it writes.
- `SerialSweepsCoolDown`: `SerialCooldown`. `CooldownInv` says that one sweep is
  under way (`OneSweep`), that the window of every update ends no later than the
  ledger's (`WindowsWithin`), and that a sweep about to write found that one over
  (`WritesOpen`). With two sweeps the third is false, and the theorem with it.
- `ReleaseTyped`.

### What the proofs changed

Proving found places where a module said something else than the code, which no
run had shown. In `AlertLifecycle` the routers used `CASE` with overlapping
guards, where TLA+ leaves the choice open and the code takes the first `if`; they
are ordered now. An `EXCEPT` with a nested `@` named the wrong record. A sweep's
batch was one sorted sequence, which fixes the order of alerts that expire at the
same instant; it is any batch that is first to expire. Assumptions that the models
relied on in silence (`PipelineAssumption`, `ControlAssumption`, `HistoriesLegal`)
are stated.

### Model-checked only

`ImplementsFairContract` of the outbox and `RecoveryEnds` of the dead letters are
liveness: fairness and ENABLED are outside the prover. The three runs that show a
violation, and the thirteen configurations beside them, are counterexamples, which TLC
finds and no proof is about.

## 5. Plan

Modelled first, because everything else depends on it: step execution, then the
outbox, admission and control, recovery; then the parts around the runtime whose
correctness rests on interleavings: tool core and quota, collector, alerts,
provider and module lifecycles, state landing. What would follow, in order:

1. Composition of `DeadLetters` with `TriggerInbox`: a retry sets a run RUNNING
   without looking at its schedule, so overlap under SKIP_IF_RUNNING is at stake.
2. `Reconciliation`: `reconcileSchedules` and the scheduler port over
   `ScheduleStore`, with edits between the diff and the repair.
3. The supervisor loop of `foresift-autopilot.mjs` around the landing lane; the
   staged commit of the object store; the audit chain.

Theorems to prove next: what two resolvers still cannot do to a gap or to the
checkpoint that crosses it; an abstract specification of the lease (one holder
per token) that `StepExecution`, `SingleFlight` and the leader lease of the
collector all implement; what two admins still cannot do to a deleted
schedule.

## 6. Not modelled

Most of the repository's lines are not control. Of its packages, the larger part
is types, schemas and generated tables (`persistence/src/generated`, `domain`,
`shared-schemas`), validation and evaluation of large records by pure functions
(the gate evaluators of alerts and activation, `release-conformance`,
`security`), decimal arithmetic and statistics (`pool-math`,
`execution-simulator`, `evaluation`, `outcome-maturity`) and vendor transports and
catalogues (`providers`, `collector-solana`). A model of them would repeat the
code case by case and the checker would only compare it with itself; where they
feed a modelled component their result is a nondeterministic verdict.

Within the modelled components: `verify-state.ts` counts rows and changes
nothing; `assertStepOrder` is called by no function of its module; registration,
deprecation and response quarantine of provider operations; paid modes and period
roll-over of the quota; the choice of the smallest affected scope of a containment;
two first rows of a module scope, which fork it because there is no pointer to race
for (`ActivationGoverned` is stated for registered scopes); the decoding and the
acquisition record of the collector. The collector's pipeline works slot by slot:
the code keys events by slot, signature and instruction and commits the same cursor
again for each event of a slot, so a run that dies within a slot, and the stream that
then starts after it, are outside the model. The check of the actionability budget
in `commitAlertUpdate` (`lifecycle.ts:641`) is not a step: its only caller, the
sweep, has just made it with the same clock (`monitoring.ts:225`), so it never
refuses there. `activationGate` takes its kinds in the order the sweep sorts them in,
not in that of its caller. `persistence/src/db.ts` wraps one client per
engine: two transactions started at once on one engine would share a BEGIN; the
models give each its own connection, as the production pool does. The delay
`planAttempt` computes is dropped by the outbox and the models have no durations.

The supervisor loop, reconciliation, the staged commit of the object store and
the audit chain have control worth modelling and are in the plan.
