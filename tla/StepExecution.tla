--------------------------- MODULE StepExecution ---------------------------
(***************************************************************************)
(* Durable step execution of the workflow runtime: the lease manager of    *)
(* packages/workflow-runtime/src/leases.ts and the checkpointed steps of   *)
(* steps.ts, over the tables wf.step_leases and wf.steps of one run.       *)
(*                                                                         *)
(* One action is one SQL statement (or one transaction whose guarded write *)
(* re-checks everything it read).  beginStep is the exception: it reads    *)
(* the row, decides on the copy, and writes under a guard that re-checks   *)
(* the status only, so its read and its write are separate actions.  A     *)
(* worker is one process executing runStepOnce; it may crash between any   *)
(* two statements.  The clock is what the lease expiry is compared with;   *)
(* each worker reads it through its own skew.                              *)
(***************************************************************************)
EXTENDS Integers, FiniteSets

CONSTANTS
    Workers,       \* processes that run steps
    Keys,          \* idempotency keys of the run
    LeaseKeys,     \* lease resource keys: hashes of (runId, stepType)
    LeaseOf,       \* the lease resource key of the step type of each key
    Hashes,        \* input hashes a caller may supply
    NoHash,        \* input_hash NULL, output_hash NULL
    Outputs,       \* output hashes an effect may produce
    Absent,        \* no row for (run_id, idempotency_key)
    NoWorker,      \* no fence presented / no lease held
    Ttl,           \* lease time to live
    Skew,          \* how far each worker's clock runs ahead
    AllowBare,     \* callers may omit the fence
    AllowForeign,  \* callers may present a lease of another resource key
    MaxTime,       \* bound on the clock
    MaxToken,      \* bound on wf_lease_fencing_seq
    MaxAttempt     \* bound on the attempts of a step

Statuses == {"RUNNING", "SUCCEEDED", "FAILED_RETRYABLE",
             "FAILED_EXHAUSTED", "SKIPPED_POLICY"}

ASSUME StepAssumption ==
    /\ LeaseOf \in [Keys -> LeaseKeys]
    /\ Ttl \in Nat \ {0}
    /\ Skew \in [Workers -> Nat]
    /\ MaxTime \in Nat /\ MaxToken \in Nat /\ MaxAttempt \in Nat
    /\ AllowBare \in BOOLEAN /\ AllowForeign \in BOOLEAN
    /\ NoHash \notin Hashes /\ NoHash \notin Outputs
    /\ Absent \notin Statuses /\ Absent \notin Keys /\ NoWorker \notin LeaseKeys

Terminal == {"SUCCEEDED", "FAILED_EXHAUSTED", "SKIPPED_POLICY"}

(* Token 0 stands for "no token": wf_lease_fencing_seq starts at 1. *)
NoToken == 0

VARIABLES
    now,        \* the reference clock
    seq,        \* last value drawn from wf_lease_fencing_seq
    leaseTok,   \* fencing_token of each lease row, NoToken when there is no row
    leaseExp,   \* expires_at
    leaseFree,  \* released_at IS NOT NULL
    status,     \* status of each step row, Absent when there is no row
    attempt,    \* attempt
    input,      \* input_hash
    output,     \* output_hash
    pc,         \* where each worker stands in runStepOnce
    held,       \* the lease handle a worker owns: its resource key and token
    call,       \* the call in progress: key, input hash, fence, attempt, result
    snap,       \* the copy of the row beginStep read
    answers     \* history: outputs runStepOnce has returned as SUCCEEDED

leaseVars == <<seq, leaseTok, leaseExp, leaseFree>>
stepVars  == <<status, attempt, input, output>>
vars == <<now, leaseVars, stepVars, pc, held, call, snap, answers>>

-----------------------------------------------------------------------------
(* leases.ts *)

Clock(w) == now + Skew[w]

NoHandle == [key |-> NoWorker, token |-> NoToken]
Handles  == [key : LeaseKeys \union {NoWorker}, token : Nat]

(* STEP_LEASE_ASSERT: expiry is deliberately not part of it. *)
Current(lk, t) == leaseTok[lk] = t /\ ~leaseFree[lk]

(* isLive *)
Live(lk, t) == leaseTok[lk] # NoToken /\ ~leaseFree[lk] /\ leaseExp[lk] > t

(* STEP_LEASE_TAKEOVER: a missing, released or expired row. *)
MayTake(w, lk) ==
    leaseTok[lk] = NoToken \/ leaseFree[lk] \/ leaseExp[lk] <= Clock(w)

Acquire(w, lk) ==
    /\ pc[w] = "idle" /\ held[w] = NoHandle
    /\ seq < MaxToken
    /\ MayTake(w, lk)
    /\ seq' = seq + 1
    /\ leaseTok' = [leaseTok EXCEPT ![lk] = seq + 1]
    /\ leaseExp' = [leaseExp EXCEPT ![lk] = Clock(w) + Ttl]
    /\ leaseFree' = [leaseFree EXCEPT ![lk] = FALSE]
    /\ held' = [held EXCEPT ![w] = [key |-> lk, token |-> seq + 1]]
    /\ UNCHANGED <<now, stepVars, pc, call, snap, answers>>

(* release: a stale token updates no row and is refused; either way the    *)
(* worker is done with its handle.                                         *)
Release(w) ==
    /\ pc[w] = "idle" /\ held[w] # NoHandle
    /\ leaseFree' = IF Current(held[w].key, held[w].token)
                    THEN [leaseFree EXCEPT ![held[w].key] = TRUE]
                    ELSE leaseFree
    /\ held' = [held EXCEPT ![w] = NoHandle]
    /\ UNCHANGED <<now, seq, leaseTok, leaseExp, stepVars, pc, call, snap, answers>>

-----------------------------------------------------------------------------
(* steps.ts *)

(* Mutant: the commit checks that some lease is held, not whose token it is. *)
FenceIgnoresToken(w, k, fence) ==
    IF fence # NoHandle
    THEN leaseTok[fence.key] # NoToken /\ ~leaseFree[fence.key]
    ELSE ~Live(LeaseOf[k], Clock(w))

(* Mutant: fencing is opt-in, an omitted fence is always accepted. *)
FenceOptIn(w, k, fence) == fence # NoHandle => Current(fence.key, fence.token)

(* STEP_LEASE_FENCE_PREDICATE with fenceParams: a presented fence is        *)
(* compared on the resource key the caller names; an omitted one requires   *)
(* that no live lease exists on the step's own key.                         *)
FencePasses(w, k, fence) ==
    IF fence # NoHandle
    THEN Current(fence.key, fence.token)
    ELSE ~Live(LeaseOf[k], Clock(w))

(* The fences a caller may pass: its own handle, or none. *)
Fences(w, k) ==
    {f \in {held[w], NoHandle} :
        /\ f = NoHandle => AllowBare
        /\ f # NoHandle => (f.key = LeaseOf[k] \/ AllowForeign)}

NoCall == [key |-> Absent, hash |-> NoHash, fence |-> NoHandle,
           attempt |-> 0, result |-> NoHash]
NoSnap == [status |-> Absent, input |-> NoHash, output |-> NoHash]

(* Mutant: output_hash is missing from STEP_COLUMNS. *)
RowWithoutOutput(k) == [status |-> status[k], input |-> input[k]]

RowOf(k) == [status |-> status[k], input |-> input[k], output |-> output[k]]

Idle(w) ==
    /\ pc' = [pc EXCEPT ![w] = "idle"]
    /\ call' = [call EXCEPT ![w] = NoCall]
    /\ snap' = [snap EXCEPT ![w] = NoSnap]

(* runStepOnce calls beginStep, whose transaction first reads the row. *)
BeginRead(w, k, h, fence) ==
    /\ pc[w] = "idle"
    /\ fence \in Fences(w, k)
    /\ pc' = [pc EXCEPT ![w] = "begin"]
    /\ call' = [call EXCEPT ![w] = [NoCall EXCEPT !.key = k, !.hash = h, !.fence = fence]]
    /\ snap' = [snap EXCEPT ![w] = RowOf(k)]
    /\ UNCHANGED <<now, leaseVars, stepVars, held, answers>>

(* INSERT ... ON CONFLICT DO NOTHING: the first insert is not fenced; the   *)
(* loser of a concurrent insert re-reads the winner's row.                  *)
BeginInsert(w) ==
    LET k == call[w].key IN
    /\ pc[w] = "begin" /\ snap[w].status = Absent
    /\ \/ /\ status[k] = Absent
          /\ status' = [status EXCEPT ![k] = "RUNNING"]
          /\ attempt' = [attempt EXCEPT ![k] = 1]
          /\ input' = [input EXCEPT ![k] = call[w].hash]
          /\ pc' = [pc EXCEPT ![w] = "effect"]
          /\ call' = [call EXCEPT ![w].attempt = 1]
          /\ UNCHANGED <<output, snap>>
       \/ /\ status[k] # Absent
          /\ snap' = [snap EXCEPT ![w] = RowOf(k)]
          /\ UNCHANGED <<stepVars, pc, call>>
    /\ UNCHANGED <<now, leaseVars, held, answers>>

(* Mutant: the recorded input hash is never compared. *)
HashNeverCompared(w) == FALSE

HashMismatch(w) ==
    /\ call[w].hash # NoHash /\ snap[w].input # NoHash
    /\ call[w].hash # snap[w].input

(* A mismatching hash, or a step closed as exhausted or skipped. *)
BeginRefuse(w) ==
    /\ pc[w] = "begin" /\ snap[w].status # Absent
    /\ HashMismatch(w) \/ snap[w].status \in {"FAILED_EXHAUSTED", "SKIPPED_POLICY"}
    /\ Idle(w)
    /\ UNCHANGED <<now, leaseVars, stepVars, held, answers>>

(* SUCCEEDED: the recorded output is returned, the effect is not run. *)
BeginReplay(w) ==
    /\ pc[w] = "begin" /\ snap[w].status = "SUCCEEDED" /\ ~HashMismatch(w)
    /\ answers' = [answers EXCEPT ![call[w].key] = @ \union {snap[w].output}]
    /\ Idle(w)
    /\ UNCHANGED <<now, leaseVars, stepVars, held>>

(* Mutant: the re-claiming UPDATE does not re-check the status it read. *)
ReclaimUnguarded(w) == FencePasses(w, call[w].key, call[w].fence)

(* The guard of the re-claiming UPDATE: the status read, and the fence. *)
ReclaimGuard(w) ==
    /\ status[call[w].key] = snap[w].status
    /\ FencePasses(w, call[w].key, call[w].fence)

(* RUNNING or FAILED_RETRYABLE: claim the next attempt, or be refused. *)
BeginReclaim(w) ==
    LET k == call[w].key IN
    /\ pc[w] = "begin" /\ snap[w].status \in {"RUNNING", "FAILED_RETRYABLE"}
    /\ ~HashMismatch(w)
    /\ \/ /\ ReclaimGuard(w)
          /\ attempt[k] < MaxAttempt
          /\ status' = [status EXCEPT ![k] = "RUNNING"]
          /\ attempt' = [attempt EXCEPT ![k] = @ + 1]
          /\ input' = [input EXCEPT ![k] = IF call[w].hash # NoHash THEN call[w].hash ELSE @]
          /\ pc' = [pc EXCEPT ![w] = "effect"]
          /\ call' = [call EXCEPT ![w].attempt = attempt[k] + 1]
          /\ UNCHANGED <<output, snap>>
       \/ /\ ~ReclaimGuard(w)
          /\ Idle(w)
          /\ UNCHANGED stepVars
    /\ UNCHANGED <<now, leaseVars, held, answers>>

(* The caller's effect: it returns an output hash, or throws. *)
RunEffect(w) ==
    /\ pc[w] = "effect"
    /\ \/ \E o \in Outputs :
             /\ pc' = [pc EXCEPT ![w] = "commit"]
             /\ call' = [call EXCEPT ![w].result = o]
       \/ /\ pc' = [pc EXCEPT ![w] = "fail"]
          /\ UNCHANGED call
    /\ UNCHANGED <<now, leaseVars, stepVars, held, snap, answers>>

(* Mutant: a closed step may still be checkpointed. *)
MoveFromAny(from, to) == from # Absent /\ to \in Statuses \ {"RUNNING"}

(* ALLOWED_STEP_TRANSITIONS, for the targets checkpointStep accepts. *)
MayMove(from, to) ==
    \/ from = "RUNNING" /\ to \in Statuses \ {"RUNNING"}
    \/ from = "FAILED_RETRYABLE" /\ to = "FAILED_EXHAUSTED"

(* checkpointStep succeeds: a legal transition, and the fence. *)
CheckpointGuard(w, k, fence, target) ==
    /\ MayMove(status[k], target)
    /\ FencePasses(w, k, fence)

Checkpoint(k, target, out) ==
    /\ status' = [status EXCEPT ![k] = target]
    /\ output' = [output EXCEPT ![k] = out]
    /\ UNCHANGED <<attempt, input>>

(* runStepOnce records SUCCEEDED; a refused checkpoint is caught and falls  *)
(* through to the FAILED_RETRYABLE checkpoint.                              *)
Commit(w) ==
    LET k == call[w].key IN
    /\ pc[w] = "commit"
    /\ \/ /\ CheckpointGuard(w, k, call[w].fence, "SUCCEEDED")
          /\ Checkpoint(k, "SUCCEEDED", call[w].result)
          /\ answers' = [answers EXCEPT ![k] = @ \union {call[w].result}]
          /\ Idle(w)
       \/ /\ ~CheckpointGuard(w, k, call[w].fence, "SUCCEEDED")
          /\ pc' = [pc EXCEPT ![w] = "fail"]
          /\ UNCHANGED <<stepVars, call, snap, answers>>
    /\ UNCHANGED <<now, leaseVars, held>>

(* The catch block; if its own checkpoint is refused the error escapes. *)
Fail(w) ==
    LET k == call[w].key IN
    /\ pc[w] = "fail"
    /\ \/ /\ CheckpointGuard(w, k, call[w].fence, "FAILED_RETRYABLE")
          /\ Checkpoint(k, "FAILED_RETRYABLE", NoHash)
       \/ /\ ~CheckpointGuard(w, k, call[w].fence, "FAILED_RETRYABLE")
          /\ UNCHANGED stepVars
    /\ Idle(w)
    /\ UNCHANGED <<now, leaseVars, held, answers>>

(* A caller closes a step with checkpointStep: exhausted or skipped. *)
CloseStep(w, k, target, fence) ==
    /\ pc[w] = "idle"
    /\ fence \in Fences(w, k)
    /\ target \in {"FAILED_EXHAUSTED", "SKIPPED_POLICY"}
    /\ CheckpointGuard(w, k, fence, target)
    /\ Checkpoint(k, target, NoHash)
    /\ UNCHANGED <<now, leaseVars, pc, held, call, snap, answers>>

(* openDeadLetter (dead-letters.ts) exhausts the failed step, unfenced. *)
DeadLetterStep(k) ==
    /\ status[k] \in {"RUNNING", "FAILED_RETRYABLE"}
    /\ status' = [status EXCEPT ![k] = "FAILED_EXHAUSTED"]
    /\ UNCHANGED <<now, leaseVars, attempt, input, output, pc, held, call, snap, answers>>

-----------------------------------------------------------------------------
(* The environment: time passes, processes die and come back empty. *)

Tick ==
    /\ now < MaxTime
    /\ now' = now + 1
    /\ UNCHANGED <<leaseVars, stepVars, pc, held, call, snap, answers>>

Crash(w) ==
    /\ pc[w] # "idle" \/ held[w] # NoHandle
    /\ held' = [held EXCEPT ![w] = NoHandle]
    /\ Idle(w)
    /\ UNCHANGED <<now, leaseVars, stepVars, answers>>

Init ==
    /\ now = 0 /\ seq = 0
    /\ leaseTok = [lk \in LeaseKeys |-> NoToken]
    /\ leaseExp = [lk \in LeaseKeys |-> 0]
    /\ leaseFree = [lk \in LeaseKeys |-> FALSE]
    /\ status = [k \in Keys |-> Absent]
    /\ attempt = [k \in Keys |-> 0]
    /\ input = [k \in Keys |-> NoHash]
    /\ output = [k \in Keys |-> NoHash]
    /\ pc = [w \in Workers |-> "idle"]
    /\ held = [w \in Workers |-> NoHandle]
    /\ call = [w \in Workers |-> NoCall]
    /\ snap = [w \in Workers |-> NoSnap]
    /\ answers = [k \in Keys |-> {}]

LeaseStep == \E w \in Workers : Release(w) \/ \E lk \in LeaseKeys : Acquire(w, lk)

BeginStep ==
    \E w \in Workers :
        \/ \E k \in Keys, h \in Hashes \union {NoHash}, f \in {held[w], NoHandle} :
              BeginRead(w, k, h, f)
        \/ BeginInsert(w) \/ BeginRefuse(w) \/ BeginReplay(w) \/ BeginReclaim(w)

CheckpointStep ==
    \E w \in Workers :
        \/ RunEffect(w) \/ Commit(w) \/ Fail(w)
        \/ \E k \in Keys, t \in Terminal, f \in {held[w], NoHandle} :
              CloseStep(w, k, t, f)

Environment == Tick \/ (\E w \in Workers : Crash(w)) \/ (\E k \in Keys : DeadLetterStep(k))

Next == LeaseStep \/ BeginStep \/ CheckpointStep \/ Environment

Spec == Init /\ [][Next]_vars

-----------------------------------------------------------------------------
(* Properties *)

Calls == [key : Keys \union {Absent}, hash : Hashes \union {NoHash}, fence : Handles,
          attempt : Nat, result : Outputs \union {NoHash}]
Snaps == [status : Statuses \union {Absent}, input : Hashes \union {NoHash},
          output : Outputs \union {NoHash}]

(* The type invariant: the shapes of both tables and of the workers' local *)
(* state.                                                                  *)
TypeOK ==
    /\ now \in Nat /\ seq \in Nat
    /\ leaseTok \in [LeaseKeys -> Nat]
    /\ leaseExp \in [LeaseKeys -> Nat]
    /\ leaseFree \in [LeaseKeys -> BOOLEAN]
    /\ status \in [Keys -> Statuses \union {Absent}]
    /\ attempt \in [Keys -> Nat]
    /\ input \in [Keys -> Hashes \union {NoHash}]
    /\ output \in [Keys -> Outputs \union {NoHash}]
    /\ pc \in [Workers -> {"idle", "begin", "effect", "commit", "fail"}]
    /\ held \in [Workers -> Handles]
    /\ call \in [Workers -> Calls]
    /\ snap \in [Workers -> Snaps]
    /\ answers \in [Keys -> SUBSET (Outputs \union {NoHash})]
    /\ \A w \in Workers : pc[w] # "idle" => call[w].key \in Keys

(* A worker executing an attempt that it claimed under a fence. *)
Executing(w) == pc[w] \in {"effect", "commit", "fail"} /\ call[w].fence # NoHandle

(* Fencing (AC-012): a worker whose fence would still pass at its commit is *)
(* executing the latest attempt of its step, so the outcome recorded on the *)
(* row is never that of an attempt another worker has superseded, although  *)
(* the UPDATE of checkpointStep never compares the attempt.                 *)
FencedCommitIsLatestAttempt ==
    \A w \in Workers :
        Executing(w) /\ Current(call[w].fence.key, call[w].fence.token)
            => call[w].attempt = attempt[call[w].key]

(* Idempotency (25.4): every runStepOnce that answers SUCCEEDED for a key,  *)
(* executed or replayed, by any worker, answers the same output, and it is  *)
(* the one on the row.                                                      *)
OneAnswerPerKey ==
    \A k \in Keys : answers[k] # {} => status[k] = "SUCCEEDED" /\ answers[k] = {output[k]}

(* Completed history is never rewritten: a terminal row never changes in    *)
(* any column.                                                              *)
TerminalRowsFrozen ==
    [][\A k \in Keys : status[k] \in Terminal =>
          <<status[k], attempt[k], input[k], output[k]>>' =
          <<status[k], attempt[k], input[k], output[k]>>]_vars

(* While a lease on a step's own key is live, nobody but the worker that    *)
(* holds its current token claims, completes or fails the existing row: "a  *)
(* live lease always demands the matching token" (steps.ts:560).            *)
LiveLeaseExclusive ==
    [][\A k \in Keys :
          (/\ Live(LeaseOf[k], now) /\ status[k] # Absent
           /\ <<status'[k], attempt'[k]>> # <<status[k], attempt[k]>>
           /\ status'[k] \in {"RUNNING", "SUCCEEDED", "FAILED_RETRYABLE"})
              => \E w \in Workers :
                    /\ pc'[w] # pc[w]
                    /\ held[w] = [key |-> LeaseOf[k], token |-> leaseTok[LeaseOf[k]]]]_vars

(* A key is bound to its first input: "a reused key with a different        *)
(* input_hash -> refused" (steps.ts:334).                                   *)
InputHashBound ==
    [][\A k \in Keys : input[k] # NoHash => input'[k] = input[k]]_vars

=============================================================================
