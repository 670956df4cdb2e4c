------------------------- MODULE NotificationOutbox -------------------------
(***************************************************************************)
(* The transactional notification outbox of                                *)
(* packages/workflow-runtime/src/outbox.ts over wf.notification_outbox,    *)
(* its delivery workers, and the channel of channels.ts.                   *)
(*                                                                         *)
(* One action is one SQL statement, one transaction or one channel call;   *)
(* workers interleave between them and may die anywhere.  Time appears as  *)
(* "the claim has lapsed" (claim_expires_at <= now).  Tokens are compared  *)
(* for equality only, so a fresh value of wf_outbox_fencing_seq is any     *)
(* token nobody remembers; the values one claim statement draws for its    *)
(* rows are one token here, since a token is only compared within a row.   *)
(***************************************************************************)
EXTENDS Integers, FiniteSets

CONSTANTS
    Rows,         \* outbox ids
    Workers,      \* delivery worker ids
    Tokens,       \* fencing tokens
    None,         \* SQL NULL
    BatchLimit,   \* the limit of claimOutboxBatch
    MaxAttempts,  \* OUTBOX_RETRY_MAX_ATTEMPTS
    MaxCrashes,   \* bound on worker deaths
    MaxSlow       \* bound on claims lapsing under a live holder

ASSUME OutboxAssumption ==
    /\ BatchLimit \in Nat \ {0} /\ MaxAttempts \in Nat \ {0}
    /\ MaxCrashes \in Nat /\ MaxSlow \in Nat
    /\ None \notin Tokens /\ None \notin Workers /\ None \notin Rows

Suppressed == {"SUPPRESSED_SHADOW", "SUPPRESSED_OUTAGE"}
Final == {"SENT", "FAILED"} \union Suppressed
Statuses == {"ABSENT", "PENDING", "CLAIMED"} \union Final

VARIABLES
    status,    \* status of each row, ABSENT before its commit
    owner,     \* claim_owner
    token,     \* claim_fencing_token
    lapsed,    \* claim_expires_at has passed
    attempts,  \* attempts
    shadow,    \* wf.runs.shadow of the run that owns the row's decision
    intact,    \* the payload still resolves to the stored payload_hash
    pc,        \* where each worker stands in deliverClaimed
    todo,      \* claims the worker has still to process
    cur,       \* the claim it is processing
    seen,      \* attempts as read for that claim
    fate,      \* the status its MARK_RETRY is about to write
    delivered, \* outbox ids the channel has recorded
    crashes, slow

rowVars == <<status, owner, token, lapsed, attempts, shadow, intact>>
workerVars == <<pc, todo, cur, seen, fate>>
vars == <<rowVars, workerVars, delivered, crashes, slow>>

Claims == [row : Rows, token : Tokens, live : BOOLEAN]
NoClaim == [row |-> None, token |-> None, live |-> FALSE]

-----------------------------------------------------------------------------
(* commitDecisionWithOutbox: decision, alert and outbox row in one          *)
(* transaction.  A shadow run or an outage makes the row undeliverable.     *)

CommitStatus(isShadow, outage) ==
    IF isShadow THEN "SUPPRESSED_SHADOW"
    ELSE IF outage THEN "SUPPRESSED_OUTAGE" ELSE "PENDING"

Insert(r, st, isShadow, ok) ==
    /\ status[r] = "ABSENT"
    /\ status' = [status EXCEPT ![r] = st]
    /\ shadow' = [shadow EXCEPT ![r] = isShadow]
    /\ intact' = [intact EXCEPT ![r] = ok]
    /\ UNCHANGED <<owner, token, lapsed, attempts, workerVars, delivered, crashes, slow>>

CommitDecision(r) ==
    \E isShadow, outage, ok \in BOOLEAN :
        Insert(r, CommitStatus(isShadow, outage), isShadow, ok)

(* A deliverable row of a shadow run written before the commit-time choke   *)
(* point existed.                                                           *)
LegacyRow(r) == Insert(r, "PENDING", TRUE, TRUE)

-----------------------------------------------------------------------------
(* claimOutboxBatch *)

InUse == {token[r] : r \in Rows} \union {c.token : c \in UNION {todo[w] : w \in Workers}}
         \union {cur[w].token : w \in Workers}

(* Mutant: every claim of a worker carries the same token. *)
FixedToken(w) == CHOOSE t \in Tokens : TRUE

(* nextval('wf.wf_outbox_fencing_seq') *)
FreshToken(w) == CHOOSE t \in Tokens : t \notin InUse

(* Mutant: the orphaned claims of dead workers are never re-claimed. *)
EligiblePendingOnly(r) == status[r] = "PENDING"

(* PENDING rows and claims whose lease ran out. *)
Eligible(r) == status[r] = "PENDING" \/ (status[r] = "CLAIMED" /\ lapsed[r])

(* SKIP LOCKED makes any subset of the eligible rows a possible batch. *)
ClaimBatch(w) ==
    /\ pc[w] = "idle" /\ todo[w] = {}
    /\ Tokens \ InUse # {}
    /\ \E batch \in SUBSET {r \in Rows : Eligible(r)} :
          /\ batch # {} /\ Cardinality(batch) <= BatchLimit
          /\ status' = [r \in Rows |-> IF r \in batch THEN "CLAIMED" ELSE status[r]]
          /\ owner' = [r \in Rows |-> IF r \in batch THEN w ELSE owner[r]]
          /\ token' = [r \in Rows |-> IF r \in batch THEN FreshToken(w) ELSE token[r]]
          /\ lapsed' = [r \in Rows |-> lapsed[r] /\ r \notin batch]
          /\ todo' = [todo EXCEPT ![w] =
                        {[row |-> r, token |-> FreshToken(w), live |-> FALSE] : r \in batch}]
    /\ UNCHANGED <<attempts, shadow, intact, pc, cur, seen, fate, delivered, crashes, slow>>

-----------------------------------------------------------------------------
(* deliverClaimed *)

(* The call starts: `now` is read once, so whether a claim is still live is *)
(* settled here for the whole batch.  Without a list of claims it takes     *)
(* every CLAIMED row the worker owns.                                       *)
StartDelivery(w) ==
    LET given == todo[w]
        owned == {[row |-> r, token |-> token[r], live |-> FALSE] :
                     r \in {q \in Rows : status[q] = "CLAIMED" /\ owner[q] = w}}
    IN
    /\ pc[w] = "idle"
    /\ \E claims \in {given, owned} \ {{}} :
          todo' = [todo EXCEPT ![w] =
                     {[row |-> c.row, token |-> c.token,
                       live |-> token[c.row] = c.token /\ ~lapsed[c.row]] : c \in claims}]
    /\ pc' = [pc EXCEPT ![w] = "loop"]
    /\ UNCHANGED <<rowVars, cur, seen, fate, delivered, crashes, slow>>

(* isClaimCurrent *)
IsClaimCurrent(w, c) ==
    /\ status[c.row] = "CLAIMED" /\ owner[c.row] = w /\ token[c.row] = c.token
    /\ c.live

(* The row is read, the suppressed statuses are refused. *)
RefuseSuppressed(w, c) == status[c.row] \in Suppressed /\ UNCHANGED rowVars

(* Mutant: the send gate does not re-read the owning run. *)
GateOpen(r) == FALSE

(* The second shadow choke point: wf.runs.shadow of the owning run. *)
ShadowGate(r) == shadow[r]

(* MARK_SUPPRESSED_SHADOW *)
RefuseShadow(w, c) ==
    /\ status[c.row] \notin Suppressed /\ ShadowGate(c.row)
    /\ IF status[c.row] \in {"PENDING", "CLAIMED"}
       THEN /\ status' = [status EXCEPT ![c.row] = "SUPPRESSED_SHADOW"]
            /\ owner' = [owner EXCEPT ![c.row] = None]
            /\ token' = [token EXCEPT ![c.row] = None]
            /\ lapsed' = [lapsed EXCEPT ![c.row] = FALSE]
            /\ UNCHANGED <<attempts, shadow, intact>>
       ELSE UNCHANGED rowVars

RefuseStale(w, c) ==
    /\ status[c.row] \notin Suppressed /\ ~ShadowGate(c.row)
    /\ ~IsClaimCurrent(w, c)
    /\ UNCHANGED rowVars

(* One claim of the loop up to the send gate: refused and dropped, ... *)
SkipClaim(w) ==
    /\ pc[w] = "loop"
    /\ \E c \in todo[w] :
          /\ RefuseSuppressed(w, c) \/ RefuseShadow(w, c) \/ RefuseStale(w, c)
          /\ todo' = [todo EXCEPT ![w] = @ \ {c}]
    /\ UNCHANGED <<pc, cur, seen, fate, delivered, crashes, slow>>

(* ... or passed, with the attempts of the row just read. *)
PassGate(w) ==
    /\ pc[w] = "loop"
    /\ \E c \in todo[w] :
          /\ status[c.row] \notin Suppressed /\ ~ShadowGate(c.row) /\ IsClaimCurrent(w, c)
          /\ todo' = [todo EXCEPT ![w] = @ \ {c}]
          /\ cur' = [cur EXCEPT ![w] = c]
          /\ seen' = [seen EXCEPT ![w] = attempts[c.row]]
    /\ pc' = [pc EXCEPT ![w] = "resolve"]
    /\ UNCHANGED <<rowVars, fate, delivered, crashes, slow>>

FinishDelivery(w) ==
    /\ pc[w] = "loop" /\ todo[w] = {}
    /\ pc' = [pc EXCEPT ![w] = "idle"]
    /\ UNCHANGED <<rowVars, todo, cur, seen, fate, delivered, crashes, slow>>

(* Mutant: the action of the plan is stored as the status. *)
PlanActionAsStatus(n) == IF n < MaxAttempts THEN "RETRY" ELSE "STOP"

(* planAttempt for RETRY_OUTBOX *)
PlannedStatus(n) == IF n < MaxAttempts THEN "PENDING" ELSE "FAILED"

(* resolvePayload throws, or resolves to another hash, or succeeds. *)
ResolvePayload(w) ==
    /\ pc[w] = "resolve"
    /\ \/ /\ fate' = [fate EXCEPT ![w] = PlannedStatus(seen[w] + 1)]
          /\ pc' = [pc EXCEPT ![w] = "retry"]
       \/ /\ ~intact[cur[w].row]
          /\ fate' = [fate EXCEPT ![w] = "FAILED"]
          /\ pc' = [pc EXCEPT ![w] = "retry"]
       \/ /\ intact[cur[w].row]
          /\ pc' = [pc EXCEPT ![w] = "send"]
          /\ UNCHANGED fate
    /\ UNCHANGED <<rowVars, todo, cur, seen, delivered, crashes, slow>>

(* channel.send, idempotent by the outbox id (external): accepted, rejected *)
(* with a transient error (the delivery may have been recorded before the   *)
(* answer was lost), or rejected for good.                                  *)
Send(w) ==
    /\ pc[w] = "send"
    /\ \/ /\ delivered' = delivered \union {cur[w].row}
          /\ pc' = [pc EXCEPT ![w] = "mark"]
          /\ UNCHANGED fate
       \/ /\ delivered' \in {delivered, delivered \union {cur[w].row}}
          /\ fate' = [fate EXCEPT ![w] = PlannedStatus(seen[w] + 1)]
          /\ pc' = [pc EXCEPT ![w] = "retry"]
       \/ /\ fate' = [fate EXCEPT ![w] = "FAILED"]
          /\ pc' = [pc EXCEPT ![w] = "retry"]
          /\ UNCHANGED delivered
    /\ UNCHANGED <<rowVars, todo, cur, seen, crashes, slow>>

(* Mutant: MARK_SENT and MARK_RETRY match the row by its id alone. *)
MarkUnfenced(w) == status[cur[w].row] # "ABSENT"

(* The guard of MARK_SENT and MARK_RETRY. *)
MarkGuard(w) ==
    /\ status[cur[w].row] = "CLAIMED"
    /\ owner[cur[w].row] = w
    /\ token[cur[w].row] = cur[w].token

Forget(w) ==
    /\ cur' = [cur EXCEPT ![w] = NoClaim]
    /\ seen' = [seen EXCEPT ![w] = 0]
    /\ fate' = [fate EXCEPT ![w] = "FAILED"]

NextClaim(w) ==
    /\ pc' = [pc EXCEPT ![w] = "loop"]
    /\ Forget(w)
    /\ UNCHANGED <<todo, delivered, crashes, slow>>

(* MARK_SENT; zero rows is reported STALE. *)
MarkSent(w) ==
    /\ pc[w] = "mark"
    /\ status' = IF MarkGuard(w) THEN [status EXCEPT ![cur[w].row] = "SENT"] ELSE status
    /\ NextClaim(w)
    /\ UNCHANGED <<owner, token, lapsed, attempts, shadow, intact>>

(* MARK_RETRY: back to PENDING or FAILED, the claim is cleared.  The delay  *)
(* of the plan is not written anywhere: the row is claimable at once.       *)
MarkRetry(w) ==
    LET r == cur[w].row IN
    /\ pc[w] = "retry"
    /\ \/ /\ MarkGuard(w)
          /\ status' = [status EXCEPT ![r] = fate[w]]
          /\ attempts' = [attempts EXCEPT ![r] = seen[w] + 1]
          /\ owner' = [owner EXCEPT ![r] = None]
          /\ token' = [token EXCEPT ![r] = None]
          /\ lapsed' = [lapsed EXCEPT ![r] = FALSE]
          /\ UNCHANGED <<shadow, intact>>
       \/ /\ ~MarkGuard(w)
          /\ UNCHANGED rowVars
    /\ NextClaim(w)

-----------------------------------------------------------------------------
(* The environment. *)

HeldByLiveWorker(r) ==
    \E w \in Workers : \/ cur[w].row = r /\ cur[w].token = token[r]
                       \/ \E c \in todo[w] : c.row = r /\ c.token = token[r]

(* A claim lapses.  Under a worker that still works on it only MaxSlow      *)
(* times: workers are not slower than their lease for ever.                 *)
Lapse(r) ==
    /\ status[r] = "CLAIMED" /\ ~lapsed[r]
    /\ lapsed' = [lapsed EXCEPT ![r] = TRUE]
    /\ IF HeldByLiveWorker(r) THEN slow < MaxSlow /\ slow' = slow + 1 ELSE UNCHANGED slow
    /\ UNCHANGED <<status, owner, token, attempts, shadow, intact, workerVars,
                   delivered, crashes>>

(* The process dies: its claims stay in the table. *)
Crash(w) ==
    /\ crashes < MaxCrashes
    /\ pc[w] # "idle" \/ todo[w] # {}
    /\ crashes' = crashes + 1
    /\ pc' = [pc EXCEPT ![w] = "idle"]
    /\ todo' = [todo EXCEPT ![w] = {}]
    /\ Forget(w)
    /\ UNCHANGED <<rowVars, delivered, slow>>

Init ==
    /\ status = [r \in Rows |-> "ABSENT"]
    /\ owner = [r \in Rows |-> None] /\ token = [r \in Rows |-> None]
    /\ lapsed = [r \in Rows |-> FALSE] /\ attempts = [r \in Rows |-> 0]
    /\ shadow = [r \in Rows |-> FALSE] /\ intact = [r \in Rows |-> TRUE]
    /\ pc = [w \in Workers |-> "idle"] /\ todo = [w \in Workers |-> {}]
    /\ cur = [w \in Workers |-> NoClaim] /\ seen = [w \in Workers |-> 0]
    /\ fate = [w \in Workers |-> "FAILED"]
    /\ delivered = {} /\ crashes = 0 /\ slow = 0

Producer == \E r \in Rows : CommitDecision(r) \/ LegacyRow(r)

WorkerStep(w) ==
    \/ ClaimBatch(w) \/ StartDelivery(w) \/ SkipClaim(w) \/ PassGate(w) \/ FinishDelivery(w)
    \/ ResolvePayload(w) \/ Send(w) \/ MarkSent(w) \/ MarkRetry(w)

Environment == \/ \E r \in Rows : Lapse(r)
               \/ \E w \in Workers : Crash(w)

Next == Producer \/ (\E w \in Workers : WorkerStep(w)) \/ Environment

Spec == Init /\ [][Next]_vars

(* The delivery loop of every worker keeps running, and an orphaned claim   *)
(* eventually lapses because the clock does not stop.                       *)
FairSpec ==
    /\ Spec
    /\ \A w \in Workers : WF_vars(WorkerStep(w))
    /\ \A r \in Rows : WF_vars(Lapse(r))

-----------------------------------------------------------------------------
(* Properties *)

(* The type invariant: the columns of the outbox and the workers' claims. *)
TypeOK ==
    /\ status \in [Rows -> Statuses]
    /\ owner \in [Rows -> Workers \union {None}]
    /\ token \in [Rows -> Tokens \union {None}]
    /\ lapsed \in [Rows -> BOOLEAN] /\ attempts \in [Rows -> Nat]
    /\ shadow \in [Rows -> BOOLEAN] /\ intact \in [Rows -> BOOLEAN]
    /\ pc \in [Workers -> {"idle", "loop", "resolve", "send", "mark", "retry"}]
    /\ todo \in [Workers -> SUBSET Claims]
    /\ cur \in [Workers -> Claims \union {NoClaim}]
    /\ seen \in [Workers -> Nat]
    /\ fate \in [Workers -> {"PENDING", "FAILED"}]
    /\ delivered \subseteq Rows
    /\ crashes \in Nat /\ slow \in Nat
    /\ \A w \in Workers : pc[w] \in {"resolve", "send", "mark", "retry"} <=> cur[w] # NoClaim

(* FR-WF-008, AC-061: a notification of a shadow run, or one suppressed for *)
(* an outage, never reaches the channel, even from a legacy PENDING row and *)
(* whatever claims, crashes and takeovers happen around it; and a row is    *)
(* SENT only when the channel has the notification, also when the worker    *)
(* that marks it is not the one whose send was recorded.                    *)
StatusMatchesDelivery ==
    \A r \in Rows :
        /\ shadow[r] \/ status[r] \in Suppressed => r \notin delivered
        /\ status[r] = "SENT" => r \in delivered

(* The row still carries the token of the claim the worker is processing. *)
Holds(w, r) == cur[w].row = r /\ token[r] = cur[w].token /\ status[r] = "CLAIMED"

(* AC-011: "two workers cannot hold the same row" (outbox.ts:20), although  *)
(* a superseded worker may still be at any statement of its loop; the       *)
(* holder knows the row's number of attempts, so no failure is lost, and an *)
(* open row has attempts left.                                              *)
ClaimsExclusive ==
    \A r \in Rows :
        /\ \A v, w \in Workers : Holds(v, r) /\ Holds(w, r) => v = w
        /\ \A w \in Workers : Holds(w, r) => seen[w] = attempts[r]
        /\ status[r] \in {"PENDING", "CLAIMED"} => attempts[r] < MaxAttempts
        /\ attempts[r] <= MaxAttempts

(* "A stale claim must never send" (outbox.ts:502): a worker hands the row  *)
(* to the channel only while it holds the row's claim.                      *)
StaleClaimNeverSends ==
    [][\A w \in Workers : pc[w] = "send" /\ pc'[w] = "mark" => Holds(w, cur[w].row)]_vars

(* What the outbox promises: CLAIMED rows are open, rows of shadow runs are *)
(* withheld from the start.                                                 *)
Phase == [r \in Rows |->
            CASE status[r] = "ABSENT" -> "none"
              [] status[r] # "ABSENT" /\ (shadow[r] \/ status[r] \in Suppressed) -> "withheld"
              [] status[r] = "SENT" /\ ~shadow[r] -> "sent"
              [] status[r] = "FAILED" /\ ~shadow[r] -> "failed"
              [] OTHER -> "open"]

Contract == INSTANCE DeliveryContract WITH phase <- Phase

(* The outbox implements the delivery contract.  Safety: a settled          *)
(* notification stays settled, no late worker reopens or relabels a SENT,   *)
(* FAILED or suppressed row, and SENT means delivered.                      *)
ImplementsContract == Contract!ContractSpec
(* Liveness, with running workers: every committed notification that may be *)
(* delivered is eventually SENT or FAILED, across crashes and takeovers     *)
(* (the contract's promise to settle what is open).                         *)
ImplementsFairContract == Contract!ContractFairSpec

=============================================================================
