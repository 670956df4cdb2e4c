----------------------------- MODULE DeadLetters -----------------------------
(***************************************************************************)
(* Dead-letter management of one run:                                      *)
(* packages/workflow-runtime/src/dead-letters.ts.                          *)
(*                                                                         *)
(* openDeadLetter is a transaction that reads the run without a lock and   *)
(* writes it unconditionally: OpenRead and OpenWrite.                      *)
(* retryFromLastValidCheckpoint is no transaction at all: each of its      *)
(* statements is an action, and the process may die between any two.       *)
(* Around them the workflow driver executes the original steps, the resume *)
(* callback executes the planned ones with runStepOnce, and a delivery     *)
(* under CANCEL_PREVIOUS may cancel the run.                               *)
(***************************************************************************)
EXTENDS Integers, FiniteSets

CONSTANTS
    N,            \* number of standard steps, in their standard order 1..N
    Letters,      \* dead letter ids
    Original,     \* stands for the original idempotency keys
    Operators,    \* processes that open or retry dead letters
    Refs,         \* what the callers of openDeadLetter record as the checkpoint
    MaxFailures,  \* bound on failing effects
    MaxCrashes    \* bound on operator crashes

ASSUME LetterAssumption ==
    /\ N \in Nat \ {0} /\ MaxFailures \in Nat /\ MaxCrashes \in Nat
    /\ Original \notin Letters

Steps == 1..N

(* The idempotency key of step t is its original one, or `wfr_<letter>_<t>`. *)
Keys  == Letters \union {Original}
Rows  == Keys \X Steps
NoRef == <<Original, 0>>

ASSUME RefsAssumption == Refs \subseteq Rows \union {NoRef}

VARIABLES
    run,      \* status of the run
    step,     \* status of each step row, by key and step type
    letter,   \* status of each dead letter
    ref,      \* last_valid_checkpoint_ref: a step row, or NoRef
    op,       \* what each operator is doing
    failures, \* failed effects so far
    crashes,  \* crashes so far
    reported, \* history: retries that returned RETRIED, by letter
    stranded  \* history: a retry marked its letter RETRIED and did not complete the run

vars == <<run, step, letter, ref, op, failures, crashes, reported, stranded>>

StepStatuses == {"ABSENT", "RUNNING", "SUCCEEDED", "FAILED_RETRYABLE", "FAILED_EXHAUSTED"}

Ops == [at : {"idle", "opening", "loaded", "planned", "resuming", "claimed",
              "returned", "resumed", "marked"},
        letter : Keys, row : Rows \union {NoRef}, ref : Rows \union {NoRef},
        completed : SUBSET Rows, plan : SUBSET Steps]

NoOp == [at |-> "idle", letter |-> Original, row |-> NoRef, ref |-> NoRef,
         completed |-> {}, plan |-> {}]

(* Type invariant. *)
TypeOK ==
    /\ run \in {"RUNNING", "SUCCEEDED", "CANCELLED", "DEAD_LETTERED"}
    /\ step \in [Keys -> [Steps -> StepStatuses]]
    /\ letter \in [Letters -> {"ABSENT", "OPEN", "RETRIED"}]
    /\ ref \in [Letters -> Rows \union {NoRef}]
    /\ op \in [Operators -> Ops]
    /\ failures \in 0..MaxFailures /\ crashes \in 0..MaxCrashes
    /\ reported \in [Letters -> Nat]
    /\ stranded \in BOOLEAN

Init ==
    /\ run = "RUNNING"
    /\ step = [k \in Keys |-> [t \in Steps |-> "ABSENT"]]
    /\ letter = [l \in Letters |-> "ABSENT"]
    /\ ref = [l \in Letters |-> NoRef]
    /\ op = [o \in Operators |-> NoOp]
    /\ failures = 0 /\ crashes = 0
    /\ reported = [l \in Letters |-> 0]
    /\ stranded = FALSE

Ended     == {"SUCCEEDED", "CANCELLED"}
Succeeded == {r \in Rows : step[r[1]][r[2]] = "SUCCEEDED"}
Completed(t) == \E k \in Keys : step[k][t] = "SUCCEEDED"

SetStep(k, t, status) == step' = [step EXCEPT ![k][t] = status]

-----------------------------------------------------------------------------
(* The driver and the effects, and what else moves the run *)

opVars     == <<letter, ref, op, crashes, reported, stranded>>

(* runStepOnce of the driver, which takes the steps in their order. *)
DriverStep(t, status) ==
    /\ run = "RUNNING"
    /\ \A u \in 1..(t - 1) : Completed(u)
    /\ \/ /\ step[Original][t] \in {"ABSENT", "FAILED_RETRYABLE"}
          /\ status = "RUNNING" /\ UNCHANGED failures
       \/ /\ step[Original][t] = "RUNNING"
          /\ status = "SUCCEEDED" /\ UNCHANGED failures
       \/ /\ step[Original][t] = "RUNNING" /\ failures < MaxFailures
          /\ status = "FAILED_RETRYABLE" /\ failures' = failures + 1
    /\ SetStep(Original, t, status)
    /\ UNCHANGED <<run, opVars>>

DriverComplete ==
    /\ run = "RUNNING"
    /\ \A t \in Steps : step[Original][t] = "SUCCEEDED"
    /\ run' = "SUCCEEDED"
    /\ UNCHANGED <<step, failures, opVars>>

(* A delivery under CANCEL_PREVIOUS cancels an active run. *)
CancelPrevious ==
    /\ run = "RUNNING"
    /\ run' = "CANCELLED"
    /\ UNCHANGED <<step, failures, opVars>>

-----------------------------------------------------------------------------
(* openDeadLetter *)

Goto(o, at) == op' = [op EXCEPT ![o].at = at]
Quit(o)     == op' = [op EXCEPT ![o] = NoOp]

(* The handoff comes after a failed step.  The recorded checkpoint is       *)
(* whatever the caller passes: a row that is not SUCCEEDED stands for every *)
(* reference the retry will not find.  The bound on letters counts the      *)
(* openings under way, so that each of them finds an unused id.             *)
OpenRead(o, row, checkpoint) ==
    /\ op[o] = NoOp
    /\ Cardinality({l \in Letters : letter[l] = "ABSENT"})
          > Cardinality({q \in Operators : op[q].at = "opening"})
    /\ step[row[1]][row[2]] = "FAILED_RETRYABLE"
    /\ run \notin Ended
    /\ op' = [op EXCEPT ![o] = [NoOp EXCEPT !.at = "opening", !.row = row,
                                            !.ref = checkpoint]]
    /\ UNCHANGED <<run, step, letter, ref, failures, crashes, reported, stranded>>

(* Mutant: the step is exhausted whatever became of it. *)
ExhaustAny(row) == SetStep(row[1], row[2], "FAILED_EXHAUSTED")

(* Mutant: the step UPDATE writes a status the table does not know. *)
ExhaustMisspelt(row) == SetStep(row[1], row[2], "EXHAUSTED")

(* The step UPDATE spares a row that has meanwhile ended. *)
Exhaust(row) ==
    IF step[row[1]][row[2]] \in {"RUNNING", "FAILED_RETRYABLE"}
    THEN SetStep(row[1], row[2], "FAILED_EXHAUSTED")
    ELSE UNCHANGED step

(* The run UPDATE compares nothing. *)
OpenWrite(o, l) ==
    /\ op[o].at = "opening"
    /\ letter[l] = "ABSENT"
    /\ Exhaust(op[o].row)
    /\ letter' = [letter EXCEPT ![l] = "OPEN"]
    /\ ref' = [ref EXCEPT ![l] = op[o].ref]
    /\ run' = "DEAD_LETTERED"
    /\ Quit(o)
    /\ UNCHANGED <<failures, crashes, reported, stranded>>

-----------------------------------------------------------------------------
(* retryFromLastValidCheckpoint *)

(* Mutant: only a run that is still DEAD_LETTERED may be retried. *)
LoadOfDeadLettered(o, l) ==
    /\ op[o] = NoOp
    /\ letter[l] = "OPEN" /\ run = "DEAD_LETTERED"
    /\ op' = [op EXCEPT ![o] = [NoOp EXCEPT !.at = "loaded", !.letter = l,
                                            !.ref = ref[l]]]
    /\ UNCHANGED <<run, step, letter, ref, failures, crashes, reported, stranded>>

LoadLetter(o, l) ==
    /\ op[o] = NoOp
    /\ letter[l] = "OPEN"
    /\ op' = [op EXCEPT ![o] = [NoOp EXCEPT !.at = "loaded", !.letter = l,
                                            !.ref = ref[l]]]
    /\ UNCHANGED <<run, step, letter, ref, failures, crashes, reported, stranded>>

(* latestCompletedStep: the highest completed step type, 0 when there is none. *)
Latest(rows) ==
    IF rows = {} THEN 0
    ELSE CHOOSE t \in Steps : /\ \E r \in rows : r[2] = t
                              /\ \A r \in rows : r[2] <= t

(* Mutant: the step right after the checkpoint is skipped. *)
PlanSkipsOne(checkpoint, rows) ==
    {t \in Steps : t > checkpoint + 1 /\ \A r \in rows : r[2] # t}

(* The steps after the checkpoint that no completed row stands for. *)
PlanAfter(checkpoint, rows) ==
    {t \in Steps : t > checkpoint /\ \A r \in rows : r[2] # t}

(* Without a checkpoint the retry is refused and writes nothing. *)
PlanRetry(o) ==
    LET done       == Succeeded
        checkpoint == IF op[o].ref # NoRef THEN op[o].ref[2] ELSE Latest(done)
    IN  /\ op[o].at = "loaded"
        /\ IF checkpoint = 0 \/ (op[o].ref # NoRef /\ op[o].ref \notin done)
           THEN Quit(o)
           ELSE op' = [op EXCEPT ![o].at = "planned", ![o].completed = done,
                                 ![o].plan = PlanAfter(checkpoint, done)]
        /\ UNCHANGED <<run, step, letter, ref, failures, crashes, reported, stranded>>

(* Mutant: the run is left DEAD_LETTERED while it is resumed. *)
StartWithoutRunning(o) ==
    /\ op[o].at = "planned"
    /\ Goto(o, "resuming")
    /\ UNCHANGED <<run, step, letter, ref, failures, crashes, reported, stranded>>

StartResume(o) ==
    /\ op[o].at = "planned"
    /\ run' = IF run = "DEAD_LETTERED" THEN "RUNNING" ELSE run
    /\ Goto(o, "resuming")
    /\ UNCHANGED <<step, letter, ref, failures, crashes, reported, stranded>>

NextPlanned(o, t) == t \in op[o].plan /\ \A u \in op[o].plan : t <= u

(* beginStep under the fresh key: a completed step is replayed, an          *)
(* exhausted one throws and ends the retry.                                 *)
ResumeBegin(o, t) ==
    LET k == op[o].letter
    IN  /\ op[o].at = "resuming" /\ NextPlanned(o, t)
        /\ CASE step[k][t] = "SUCCEEDED" ->
                  op' = [op EXCEPT ![o].plan = @ \ {t}] /\ UNCHANGED step
             [] step[k][t] = "FAILED_EXHAUSTED" -> Quit(o) /\ UNCHANGED step
             [] OTHER -> Goto(o, "claimed") /\ SetStep(k, t, "RUNNING")
        /\ UNCHANGED <<run, letter, ref, failures, crashes, reported, stranded>>

(* checkpointStep only moves a RUNNING row. *)
Commits(k, t) == step[k][t] = "RUNNING"

(* The effect and its checkpoint.  A refused checkpoint, like a failed      *)
(* effect, throws out of the retry.                                         *)
ResumeSucceed(o, t) ==
    LET k == op[o].letter
    IN  /\ op[o].at = "claimed" /\ NextPlanned(o, t)
        /\ IF Commits(k, t)
           THEN /\ SetStep(k, t, "SUCCEEDED")
                /\ op' = [op EXCEPT ![o].at = "resuming", ![o].plan = @ \ {t}]
           ELSE Quit(o) /\ UNCHANGED step
        /\ UNCHANGED <<run, letter, ref, failures, crashes, reported, stranded>>

ResumeFail(o, t) ==
    LET k == op[o].letter
    IN  /\ op[o].at = "claimed" /\ NextPlanned(o, t)
        /\ failures < MaxFailures /\ failures' = failures + 1
        /\ IF Commits(k, t) THEN SetStep(k, t, "FAILED_RETRYABLE") ELSE UNCHANGED step
        /\ Quit(o)
        /\ UNCHANGED <<run, letter, ref, crashes, reported, stranded>>

(* The callback has returned, with outcome.completed === true or without.   *)
(* It says so only when it has executed the whole plan, and it may return   *)
(* nothing after any part of it.  The completed rows are compared with what *)
(* they were before the resume.                                             *)
VerifyHistory(o, completed) ==
    /\ op[o].at = "resuming"
    /\ completed => op[o].plan = {}
    /\ IF op[o].completed \subseteq Succeeded
       THEN Goto(o, IF completed THEN "resumed" ELSE "returned")
       ELSE Quit(o)
    /\ UNCHANGED <<run, step, letter, ref, failures, crashes, reported, stranded>>

StillOpen(l) == letter[l] = "OPEN"

(* A retry whose callback did not report completion ends here: the letter   *)
(* is RETRIED and the run stays as it is.                                   *)
MarkRetried(o) ==
    LET l == op[o].letter
    IN  /\ op[o].at \in {"returned", "resumed"}
        /\ IF StillOpen(l)
           THEN /\ letter' = [letter EXCEPT ![l] = "RETRIED"]
                /\ reported' = [reported EXCEPT ![l] = @ + 1]
                /\ stranded' = (stranded \/ op[o].at = "returned")
                /\ IF op[o].at = "resumed" THEN Goto(o, "marked") ELSE Quit(o)
           ELSE Quit(o) /\ UNCHANGED <<letter, reported, stranded>>
        /\ UNCHANGED <<run, step, ref, failures, crashes>>

(* The statuses the completing UPDATE overwrites. *)
Completable == run \notin Ended

(* Reached with outcome.completed === true only. *)
CompleteRun(o) ==
    /\ op[o].at = "marked"
    /\ run' = IF Completable THEN "SUCCEEDED" ELSE run
    /\ Quit(o)
    /\ UNCHANGED <<step, letter, ref, failures, crashes, reported, stranded>>

Crash(o) ==
    /\ op[o] # NoOp /\ crashes < MaxCrashes
    /\ crashes' = crashes + 1
    /\ stranded' = (stranded \/ op[o].at = "marked")
    /\ Quit(o)
    /\ UNCHANGED <<run, step, letter, ref, failures, reported>>

Retry(o) ==
    \/ PlanRetry(o) \/ StartResume(o)
    \/ \E t \in Steps : ResumeBegin(o, t) \/ ResumeSucceed(o, t)
    \/ \E completed \in BOOLEAN : VerifyHistory(o, completed)
    \/ MarkRetried(o) \/ CompleteRun(o)

Next ==
    \/ \E t \in Steps, status \in StepStatuses : DriverStep(t, status)
    \/ DriverComplete \/ CancelPrevious
    \/ \E o \in Operators :
          \/ \E row \in Rows, checkpoint \in Refs : OpenRead(o, row, checkpoint)
          \/ \E l \in Letters : OpenWrite(o, l)
          \/ \E l \in Letters : LoadLetter(o, l)
          \/ Retry(o)
          \/ \E t \in Steps : ResumeFail(o, t)
          \/ Crash(o)

Spec == Init /\ [][Next]_vars

(* A process that has begun an opening or a retry goes on.  That each OPEN  *)
(* letter is retried again and again is an assumption on the people who run *)
(* the system: nothing in the code retries a dead letter by itself.         *)
FairSpec ==
    /\ Spec
    /\ \A o \in Operators : WF_vars(Retry(o)) /\ WF_vars(\E l \in Letters : OpenWrite(o, l))
    /\ \A l \in Letters : SF_vars(\E o \in Operators : LoadLetter(o, l))

-----------------------------------------------------------------------------
(* Completed history is never rewritten: not by an opening that decided on  *)
(* an older status of the step, not by a retry that shares its keys with    *)
(* another one.                                                             *)
CompletedStepsStay ==
    [][\A r \in Succeeded : step'[r[1]][r[2]] = "SUCCEEDED"]_vars

(* A run that is SUCCEEDED has every standard step completed, under its     *)
(* original key or a recovery key, however many letters and retries there   *)
(* were and wherever they resumed.                                          *)
SucceededIsComplete == run = "SUCCEEDED" => \A t \in Steps : Completed(t)

(* Of all the retries of one letter, concurrent and repeated after crashes, *)
(* one reports RETRIED.                                                     *)
RetriedOnce == \A l \in Letters : reported[l] <= 1

(* A dead-lettered run always has an OPEN letter for an operator to find.   *)
DeadLetteredIsActionable == run = "DEAD_LETTERED" => \E l \in Letters : letter[l] = "OPEN"

(* Every OPEN letter names a completed step or leaves the choice to the     *)
(* retry.                                                                   *)
UsableRefs == \A l \in Letters : letter[l] = "OPEN" => ref[l] \in Succeeded \union {NoRef}

(* A dead-lettered run with a checkpoint is brought to an end by the        *)
(* retries of the operators, unless one of them marks its letter RETRIED    *)
(* without completing the run (it died between the two writes, or its       *)
(* callback did not report completion) or a letter records a reference that *)
(* every retry refuses.                                                     *)
RecoveryEnds ==
    (run = "DEAD_LETTERED" /\ Completed(1)) ~> (run \in Ended \/ stranded \/ ~UsableRefs)

(* A run that has ended stays ended: it "cannot be dead-lettered"           *)
(* (openDeadLetter).                                                        *)
EndedRunStays == [][(run \in Ended) => (run' = run)]_vars
=============================================================================
