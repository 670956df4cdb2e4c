-------------------------- MODULE DeadLetterProofs --------------------------
(***************************************************************************)
(* Proofs about DeadLetters for every number of steps, every set of        *)
(* letters and operators, and every bound on failures and crashes.         *)
(***************************************************************************)
EXTENDS DeadLetters, WellFoundedInduction, TLAPS

-----------------------------------------------------------------------------
(* The inductive invariant, part by part *)

Retrying == {"loaded", "planned", "resuming", "claimed", "returned", "resumed",
             "marked"}

(* An opening names a step row, a retry names a letter that exists, and     *)
(* nothing else names a letter.                                             *)
Shape(r, letters) ==
    /\ r.at = "opening" => r.row \in Rows
    /\ r.at \in Retrying => r.letter \in Letters /\ letters[r.letter] # "ABSENT"
    /\ r.at \notin Retrying => r.letter = Original
    /\ r.at \in {"resumed", "marked"} => r.plan = {}

OpShape == \A o \in Operators : Shape(op[o], letter)

(* A letter counts one report exactly when it is RETRIED. *)
ReportsCounted ==
    \A l \in Letters : reported[l] = IF letter[l] = "RETRIED" THEN 1 ELSE 0

(* A dead-lettered run has an OPEN letter whose retries have not begun to   *)
(* resume: they will set the run RUNNING before they settle the letter.     *)
FreshLetter ==
    run = "DEAD_LETTERED" =>
        \E l \in Letters : /\ letter[l] = "OPEN"
                           /\ \A o \in Operators :
                                 op[o].letter = l => op[o].at \in {"loaded", "planned"}

(* Steps complete in their order. *)
CompletedPrefix ==
    \A t, u \in Steps : Completed(t) /\ u < t => Completed(u)

(* What a retry has not planned, or no longer plans, is completed. *)
Covers(r, table) ==
    r.at \in Retrying \ {"loaded"} =>
        \A t \in Steps \ r.plan : \E k \in Keys : table[k][t] = "SUCCEEDED"

PlanCovers == \A o \in Operators : Covers(op[o], step)

LetterInv ==
    /\ TypeOK /\ OpShape /\ ReportsCounted /\ FreshLetter
    /\ CompletedPrefix /\ PlanCovers /\ SucceededIsComplete

-----------------------------------------------------------------------------

(* The fields of an operator's state have their types. *)
LEMMA OpFields ==
    ASSUME TypeOK, NEW o \in Operators
    PROVE  /\ op[o].letter \in Keys /\ op[o].row \in Rows \union {NoRef}
           /\ op[o].ref \in Rows \union {NoRef}
           /\ op[o].completed \subseteq Rows /\ op[o].plan \subseteq Steps
  BY DEF TypeOK, Ops

(* Setting one step row keeps the type of the table. *)
LEMMA StepUpdate ==
    ASSUME TypeOK, NEW k \in Keys, NEW t \in Steps, NEW status \in StepStatuses,
           SetStep(k, t, status)
    PROVE  /\ step' \in [Keys -> [Steps -> StepStatuses]]
           /\ \A j \in Keys, u \in Steps :
                 step'[j][u] = IF j = k /\ u = t THEN status ELSE step[j][u]
  BY DEF TypeOK, SetStep

Places == {"idle", "opening", "loaded", "planned", "resuming", "claimed", "returned",
           "resumed", "marked"}

(* op' differs from op in what operator o is doing, which is now r. *)
OpBecomes(o, r) ==
    /\ op' \in [Operators -> Ops]
    /\ op'[o] = r
    /\ \A q \in Operators \ {o} : op'[q] = op[q]

(* An operator that moves on within its call keeps the type of op. *)
LEMMA GotoType ==
    ASSUME TypeOK, NEW o \in Operators, NEW at \in Places, Goto(o, at)
    PROVE  OpBecomes(o, [op[o] EXCEPT !.at = at])
<1>1. op \in [Operators -> Ops] /\ op[o] \in Ops
  BY DEF TypeOK
<1>2. [op[o] EXCEPT !.at = at] \in Ops
  BY <1>1 DEF Ops, Places
<1> QED
  BY <1>1, <1>2 DEF OpBecomes, Goto

(* An operator that is done keeps the type of op. *)
LEMMA QuitType == ASSUME TypeOK, NEW o \in Operators, Quit(o) PROVE OpBecomes(o, NoOp)
<1>1. NoOp \in Ops
  BY DEF NoOp, Ops, Keys
<1> QED
  BY <1>1 DEF TypeOK, Quit, OpBecomes

(* A replayed step leaves the plan. *)
LEMMA ReplayedType ==
    ASSUME TypeOK, NEW o \in Operators, NEW t \in Steps, op' = [op EXCEPT ![o].plan = @ \ {t}]
    PROVE  OpBecomes(o, [op[o] EXCEPT !.plan = @ \ {t}])
<1>1. op \in [Operators -> Ops] /\ op[o] \in Ops
  BY DEF TypeOK
<1>2. [op[o] EXCEPT !.plan = @ \ {t}] \in Ops
  BY <1>1 DEF Ops
<1> QED
  BY <1>1, <1>2 DEF OpBecomes

(* A step that was just completed leaves the plan. *)
LEMMA ResumedType ==
    ASSUME TypeOK, NEW o \in Operators, NEW t \in Steps,
           op' = [op EXCEPT ![o].at = "resuming", ![o].plan = @ \ {t}]
    PROVE  OpBecomes(o, [op[o] EXCEPT !.at = "resuming", !.plan = @ \ {t}])
<1>1. op \in [Operators -> Ops] /\ op[o] \in Ops
  BY DEF TypeOK
<1>2. [op[o] EXCEPT !.at = "resuming", !.plan = @ \ {t}] \in Ops
  BY <1>1 DEF Ops
<1>3. op' = [op EXCEPT ![o] = [op[o] EXCEPT !.at = "resuming", !.plan = @ \ {t}]]
  BY <1>1
<1> QED
  BY <1>1, <1>2, <1>3 DEF OpBecomes

(* A plan is recorded. *)
LEMMA PlannedType ==
    ASSUME TypeOK, NEW o \in Operators, NEW done \in SUBSET Rows, NEW plan \in SUBSET Steps,
           op' = [op EXCEPT ![o].at = "planned", ![o].completed = done, ![o].plan = plan]
    PROVE  OpBecomes(o, [op[o] EXCEPT !.at = "planned", !.completed = done, !.plan = plan])
<1>1. op \in [Operators -> Ops] /\ op[o] \in Ops
  BY DEF TypeOK
<1>2. [op[o] EXCEPT !.at = "planned", !.completed = done, !.plan = plan] \in Ops
  BY <1>1 DEF Ops
<1>3. op' = [op EXCEPT ![o] = [op[o] EXCEPT !.at = "planned", !.completed = done, !.plan = plan]]
  BY <1>1
<1> QED
  BY <1>1, <1>2, <1>3 DEF OpBecomes

(* Exhausting a step row keeps the type of the table and every completed row. *)
LEMMA ExhaustType ==
    ASSUME TypeOK, NEW k \in Keys, NEW t \in Steps, Exhaust(<<k, t>>)
    PROVE  /\ step' \in [Keys -> [Steps -> StepStatuses]]
           /\ \A j \in Keys, u \in Steps : step[j][u] = "SUCCEEDED" => step'[j][u] = "SUCCEEDED"
<1>1. CASE step[k][t] \in {"RUNNING", "FAILED_RETRYABLE"}
  <2>1. SetStep(k, t, "FAILED_EXHAUSTED")
    BY <1>1 DEF Exhaust
  <2> QED
    BY <1>1, <2>1, StepUpdate DEF StepStatuses
<1>2. CASE step[k][t] \notin {"RUNNING", "FAILED_RETRYABLE"}
  <2>1. step' = step
    BY <1>2 DEF Exhaust
  <2> QED
    BY <2>1 DEF TypeOK
<1> QED
  BY <1>1, <1>2

-----------------------------------------------------------------------------
(* What each step does to the step table: it keeps its type, and completed  *)
(* rows stay completed.                                                     *)
StepTableStep ==
    /\ step' \in [Keys -> [Steps -> StepStatuses]]
    /\ \A k \in Keys, t \in Steps : step[k][t] = "SUCCEEDED" => step'[k][t] = "SUCCEEDED"

(* Every handler keeps the step table typed and its completed rows completed. *)
LEMMA StepTable == ASSUME TypeOK, OpShape, [Next]_vars PROVE StepTableStep
<1>0. CASE step' = step
  BY <1>0 DEF TypeOK, StepTableStep
<1>1. ASSUME NEW t \in Steps, NEW status \in StepStatuses, DriverStep(t, status)
      PROVE  StepTableStep
  <2>1. SetStep(Original, t, status) /\ step[Original][t] # "SUCCEEDED"
    BY <1>1 DEF DriverStep
  <2> QED
    BY <2>1, StepUpdate DEF StepTableStep, Keys
<1>2. ASSUME NEW o \in Operators, NEW l \in Letters, OpenWrite(o, l) PROVE StepTableStep
  <2>1. op[o].row \in Rows /\ Exhaust(op[o].row)
    BY <1>2 DEF OpenWrite, OpShape, Shape
  <2>2. PICK k \in Keys, t \in Steps : op[o].row = <<k, t>>
    BY <2>1 DEF Rows
  <2> QED
    BY <2>1, <2>2, ExhaustType DEF StepTableStep
<1>3. ASSUME NEW o \in Operators, NEW t \in Steps, ResumeBegin(o, t) PROVE StepTableStep
  <2>1. op[o].letter \in Keys
    BY OpFields
  <2>2. CASE step[op[o].letter][t] \in {"SUCCEEDED", "FAILED_EXHAUSTED"}
    <3>1. step' = step
      BY <1>3, <2>2 DEF ResumeBegin
    <3> QED
      BY <3>1, <1>0
  <2>3. CASE step[op[o].letter][t] \notin {"SUCCEEDED", "FAILED_EXHAUSTED"}
    <3>1. SetStep(op[o].letter, t, "RUNNING")
      BY <1>3, <2>3 DEF ResumeBegin
    <3> QED
      BY <2>1, <2>3, <3>1, StepUpdate DEF StepTableStep, StepStatuses
  <2> QED
    BY <2>2, <2>3
<1>4. ASSUME NEW o \in Operators, NEW t \in Steps, ResumeSucceed(o, t) PROVE StepTableStep
  <2>1. op[o].letter \in Keys
    BY OpFields
  <2>2. step' = step \/ SetStep(op[o].letter, t, "SUCCEEDED")
    BY <1>4 DEF ResumeSucceed
  <2> QED
    BY <1>0, <2>1, <2>2, StepUpdate DEF StepTableStep, StepStatuses
<1>5. ASSUME NEW o \in Operators, NEW t \in Steps, ResumeFail(o, t) PROVE StepTableStep
  <2>1. op[o].letter \in Keys
    BY OpFields
  <2>2. \/ step' = step
        \/ step[op[o].letter][t] = "RUNNING" /\ SetStep(op[o].letter, t, "FAILED_RETRYABLE")
    BY <1>5 DEF ResumeFail, Commits
  <2> QED
    BY <1>0, <2>1, <2>2, StepUpdate DEF StepTableStep, StepStatuses
<1>6. ASSUME NEW o \in Operators, NEW row \in Rows, NEW c \in Refs,
             OpenRead(o, row, c)
      PROVE  step' = step
  BY <1>6 DEF OpenRead
<1>7. ASSUME NEW o \in Operators, NEW l \in Letters, LoadLetter(o, l) PROVE step' = step
  BY <1>7 DEF LoadLetter
<1>8. ASSUME NEW o \in Operators,
             \/ PlanRetry(o) \/ StartResume(o) \/ MarkRetried(o)
             \/ \E done \in BOOLEAN : VerifyHistory(o, done)
             \/ CompleteRun(o) \/ Crash(o)
      PROVE  step' = step
  BY <1>8 DEF PlanRetry, StartResume, VerifyHistory, MarkRetried, CompleteRun, Crash
<1>9. ASSUME DriverComplete \/ CancelPrevious PROVE step' = step
  BY <1>9 DEF DriverComplete, CancelPrevious
<1>10. CASE UNCHANGED vars
  BY <1>0, <1>10 DEF vars
<1> QED
  BY <1>0, <1>1, <1>2, <1>3, <1>4, <1>5, <1>6, <1>7, <1>8, <1>9, <1>10 DEF Next, Retry

(* So a step type that is completed stays completed. *)
LEMMA CompletedGrows ==
    ASSUME TypeOK, StepTableStep, NEW t \in Steps, Completed(t) PROVE Completed(t)'
  BY DEF Completed, StepTableStep

-----------------------------------------------------------------------------
(* Every handler keeps the types. *)
LEMMA TypeStep == ASSUME TypeOK, OpShape, [Next]_vars PROVE TypeOK'
<1> USE LetterAssumption
<1>0. step' \in [Keys -> [Steps -> StepStatuses]]
  BY StepTable DEF StepTableStep
<1>1. ASSUME NEW t \in Steps, NEW status \in StepStatuses, DriverStep(t, status) PROVE TypeOK'
  BY <1>0, <1>1 DEF DriverStep, opVars, TypeOK
<1>2. ASSUME NEW o \in Operators, NEW l \in Letters, OpenWrite(o, l) PROVE TypeOK'
  <2>1. op' \in [Operators -> Ops]
    BY <1>2, QuitType DEF OpenWrite, OpBecomes
  <2>2. op[o].ref \in Rows \union {NoRef}
    BY OpFields
  <2>3. /\ letter' = [letter EXCEPT ![l] = "OPEN"] /\ ref' = [ref EXCEPT ![l] = op[o].ref]
        /\ run' = "DEAD_LETTERED" /\ UNCHANGED <<failures, crashes, reported, stranded>>
    BY <1>2 DEF OpenWrite
  <2> QED
    BY <1>0, <2>1, <2>2, <2>3 DEF TypeOK
<1>3. ASSUME NEW o \in Operators, NEW t \in Steps, ResumeBegin(o, t) PROVE TypeOK'
  <2>1. op' \in [Operators -> Ops]
    <3>1. \/ Quit(o) \/ Goto(o, "claimed")
          \/ op' = [op EXCEPT ![o].plan = @ \ {t}]
      BY <1>3 DEF ResumeBegin
    <3> QED
      BY <3>1, QuitType, GotoType, ReplayedType DEF OpBecomes, Places
  <2> QED
    BY <1>0, <1>3, <2>1 DEF ResumeBegin, TypeOK
<1>4. ASSUME NEW o \in Operators, NEW t \in Steps, ResumeSucceed(o, t) PROVE TypeOK'
  <2>1. op' \in [Operators -> Ops]
    <3>1. \/ Quit(o)
          \/ op' = [op EXCEPT ![o].at = "resuming", ![o].plan = @ \ {t}]
      BY <1>4 DEF ResumeSucceed
    <3> QED
      BY <3>1, QuitType, ResumedType DEF OpBecomes
  <2> QED
    BY <1>0, <1>4, <2>1 DEF ResumeSucceed, TypeOK
<1>5. ASSUME NEW o \in Operators, NEW t \in Steps, ResumeFail(o, t) PROVE TypeOK'
  <2>1. op' \in [Operators -> Ops]
    BY <1>5, QuitType DEF ResumeFail, OpBecomes
  <2>2. failures' \in 0..MaxFailures /\ UNCHANGED <<run, letter, ref, crashes, reported, stranded>>
    BY <1>5 DEF ResumeFail, TypeOK
  <2> QED
    BY <1>0, <2>1, <2>2 DEF TypeOK
<1>6. ASSUME NEW o \in Operators, NEW row \in Rows, NEW c \in Refs,
             OpenRead(o, row, c)
      PROVE  TypeOK'
  <2>1. [NoOp EXCEPT !.at = "opening", !.row = row, !.ref = c] \in Ops
    BY RefsAssumption DEF NoOp, Ops, Keys
  <2> QED
    BY <1>6, <2>1 DEF OpenRead, TypeOK
<1>7. ASSUME NEW o \in Operators, NEW l \in Letters, LoadLetter(o, l) PROVE TypeOK'
  <2>1. [NoOp EXCEPT !.at = "loaded", !.letter = l, !.ref = ref[l]] \in Ops
    BY DEF NoOp, Ops, Keys, TypeOK
  <2> QED
    BY <1>7, <2>1 DEF LoadLetter, TypeOK
<1>8. ASSUME NEW o \in Operators, PlanRetry(o) PROVE TypeOK'
  <2> DEFINE checkpoint == IF op[o].ref # NoRef THEN op[o].ref[2] ELSE Latest(Succeeded)
  <2>1. Succeeded \subseteq Rows /\ PlanAfter(checkpoint, Succeeded) \subseteq Steps
    BY DEF Succeeded, PlanAfter
  <2>2. op' \in [Operators -> Ops]
    <3>1. \/ Quit(o)
          \/ op' = [op EXCEPT ![o].at = "planned", ![o].completed = Succeeded,
                              ![o].plan = PlanAfter(checkpoint, Succeeded)]
      BY <1>8 DEF PlanRetry
    <3> HIDE DEF checkpoint
    <3> QED
      BY <2>1, <3>1, QuitType, PlannedType DEF OpBecomes
  <2> QED
    BY <1>8, <2>2 DEF PlanRetry, TypeOK
<1>9. ASSUME NEW o \in Operators, StartResume(o) PROVE TypeOK'
  BY <1>9, GotoType DEF StartResume, TypeOK, OpBecomes, Places
<1>10. ASSUME NEW o \in Operators, NEW done \in BOOLEAN, VerifyHistory(o, done) PROVE TypeOK'
  <2>1. op' \in [Operators -> Ops]
    BY <1>10, GotoType, QuitType DEF VerifyHistory, OpBecomes, Places
  <2> QED
    BY <1>10, <2>1 DEF VerifyHistory, TypeOK
<1>11. ASSUME NEW o \in Operators, MarkRetried(o) PROVE TypeOK'
  <2>1. op' \in [Operators -> Ops]
    BY <1>11, GotoType, QuitType DEF MarkRetried, OpBecomes, Places
  <2>2. /\ letter' \in [Letters -> {"ABSENT", "OPEN", "RETRIED"}]
        /\ reported' \in [Letters -> Nat]
    BY <1>11 DEF MarkRetried, TypeOK
  <2> QED
    BY <1>11, <2>1, <2>2 DEF MarkRetried, TypeOK
<1>12. ASSUME NEW o \in Operators, CompleteRun(o) PROVE TypeOK'
  BY <1>12, QuitType DEF CompleteRun, TypeOK, OpBecomes
<1>13. ASSUME NEW o \in Operators, Crash(o) PROVE TypeOK'
  <2>1. op' \in [Operators -> Ops]
    BY <1>13, QuitType DEF Crash, OpBecomes
  <2>2. crashes' \in 0..MaxCrashes
    BY <1>13 DEF Crash, TypeOK
  <2>3. stranded' \in BOOLEAN
    BY <1>13, Zenon DEF Crash, TypeOK
  <2> QED
    BY <1>13, <2>1, <2>2, <2>3 DEF Crash, TypeOK
<1>14. ASSUME DriverComplete \/ CancelPrevious PROVE TypeOK'
  BY <1>14 DEF DriverComplete, CancelPrevious, opVars, TypeOK
<1>15. CASE UNCHANGED vars
  BY <1>15 DEF vars, TypeOK
<1> QED
  BY <1>1, <1>2, <1>3, <1>4, <1>5, <1>6, <1>7, <1>8, <1>9, <1>10, <1>11, <1>12, <1>13, <1>14,
     <1>15 DEF Next, Retry
-----------------------------------------------------------------------------
(* One operator moves on, letters stay; the calls of the others keep their shape. *)
LEMMA ShapeUpdate ==
    ASSUME OpShape, NEW o \in Operators, NEW r, OpBecomes(o, r), Shape(r, letter'),
           \A l \in Letters : letter[l] # "ABSENT" => letter'[l] # "ABSENT"
    PROVE  OpShape'
  BY DEF OpShape, Shape, OpBecomes

(* An operator that is done names no letter. *)
LEMMA QuitShape ==
    ASSUME TypeOK, OpShape, NEW o \in Operators, Quit(o),
           \A l \in Letters : letter[l] # "ABSENT" => letter'[l] # "ABSENT"
    PROVE  OpShape'
<1>1. Shape(NoOp, letter')
  BY DEF Shape, NoOp, Retrying
<1> QED
  BY <1>1, QuitType, ShapeUpdate

(* Every handler keeps the shape of the operators' calls. *)
LEMMA ShapeStep == ASSUME TypeOK, OpShape, [Next]_vars PROVE OpShape'
<1>0. CASE op' = op /\ letter' = letter
  BY <1>0 DEF OpShape
<1>1. ASSUME NEW t \in Steps, NEW status \in StepStatuses, DriverStep(t, status) PROVE OpShape'
  BY <1>0, <1>1 DEF DriverStep, opVars
<1>2. ASSUME NEW o \in Operators, NEW l \in Letters, OpenWrite(o, l) PROVE OpShape'
  <2>1. Quit(o) /\ letter' = [letter EXCEPT ![l] = "OPEN"]
    BY <1>2 DEF OpenWrite
  <2> QED
    BY <2>1, QuitShape DEF TypeOK
<1>3. ASSUME NEW o \in Operators, NEW t \in Steps, ResumeBegin(o, t) PROVE OpShape'
  <2>1. letter' = letter /\ op[o].at = "resuming" /\ op[o] \in Ops /\ Shape(op[o], letter)
    BY <1>3 DEF ResumeBegin, TypeOK, OpShape
  <2>2. CASE Quit(o)
    BY <2>1, <2>2, QuitShape
  <2>3. CASE Goto(o, "claimed")
    <3>1. Shape([op[o] EXCEPT !.at = "claimed"], letter')
      BY <2>1 DEF Shape, Retrying, Ops
    <3> QED
      BY <2>1, <2>3, <3>1, GotoType, ShapeUpdate DEF Places
  <2>4. CASE op' = [op EXCEPT ![o].plan = @ \ {t}]
    <3>1. Shape([op[o] EXCEPT !.plan = @ \ {t}], letter')
      BY <2>1 DEF Shape, Retrying, Ops
    <3> QED
      BY <2>1, <2>4, <3>1, ReplayedType, ShapeUpdate
  <2> QED
    BY <1>3, <2>2, <2>3, <2>4 DEF ResumeBegin
<1>4. ASSUME NEW o \in Operators, NEW t \in Steps, ResumeSucceed(o, t) PROVE OpShape'
  <2>1. letter' = letter /\ op[o].at = "claimed" /\ op[o] \in Ops /\ Shape(op[o], letter)
    BY <1>4 DEF ResumeSucceed, TypeOK, OpShape
  <2>2. CASE Quit(o)
    BY <2>1, <2>2, QuitShape
  <2>3. CASE op' = [op EXCEPT ![o].at = "resuming", ![o].plan = @ \ {t}]
    <3>1. Shape([op[o] EXCEPT !.at = "resuming", !.plan = @ \ {t}], letter')
      BY <2>1 DEF Shape, Retrying, Ops
    <3> QED
      BY <2>1, <2>3, <3>1, ResumedType, ShapeUpdate
  <2> QED
    BY <1>4, <2>2, <2>3 DEF ResumeSucceed
<1>5. ASSUME NEW o \in Operators, NEW t \in Steps, ResumeFail(o, t) PROVE OpShape'
  BY <1>5, QuitShape DEF ResumeFail
<1>6. ASSUME NEW o \in Operators, NEW row \in Rows, NEW c \in Refs,
             OpenRead(o, row, c)
      PROVE  OpShape'
  <2> DEFINE r == [NoOp EXCEPT !.at = "opening", !.row = row, !.ref = c]
  <2>1. Shape(r, letter')
    BY DEF Shape, NoOp, Retrying
  <2>2. op' = [op EXCEPT ![o] = r] /\ letter' = letter /\ op' \in [Operators -> Ops]
    BY <1>6, TypeStep DEF OpenRead, TypeOK
  <2> HIDE DEF r
  <2>3. OpBecomes(o, r)
    BY <2>2 DEF OpBecomes, TypeOK
  <2> QED
    BY <2>1, <2>2, <2>3, ShapeUpdate
<1>7. ASSUME NEW o \in Operators, NEW l \in Letters, LoadLetter(o, l) PROVE OpShape'
  <2> DEFINE r == [NoOp EXCEPT !.at = "loaded", !.letter = l, !.ref = ref[l]]
  <2>1. Shape(r, letter')
    BY <1>7 DEF LoadLetter, Shape, NoOp, Retrying
  <2>2. op' = [op EXCEPT ![o] = r] /\ letter' = letter /\ op' \in [Operators -> Ops]
    BY <1>7, TypeStep DEF LoadLetter, TypeOK
  <2> HIDE DEF r
  <2>3. OpBecomes(o, r)
    BY <2>2 DEF OpBecomes, TypeOK
  <2> QED
    BY <2>1, <2>2, <2>3, ShapeUpdate
<1>8. ASSUME NEW o \in Operators, PlanRetry(o) PROVE OpShape'
  <2> DEFINE checkpoint == IF op[o].ref # NoRef THEN op[o].ref[2] ELSE Latest(Succeeded)
             plan       == PlanAfter(checkpoint, Succeeded)
  <2>1. letter' = letter /\ op[o].at = "loaded" /\ op[o] \in Ops /\ Shape(op[o], letter)
    BY <1>8 DEF PlanRetry, TypeOK, OpShape
  <2>2. Succeeded \in SUBSET Rows /\ plan \in SUBSET Steps
    BY DEF Succeeded, PlanAfter
  <2>3. \/ Quit(o)
        \/ op' = [op EXCEPT ![o].at = "planned", ![o].completed = Succeeded, ![o].plan = plan]
    BY <1>8 DEF PlanRetry
  <2> HIDE DEF plan, checkpoint
  <2>4. Shape([op[o] EXCEPT !.at = "planned", !.completed = Succeeded, !.plan = plan], letter')
    BY <2>1 DEF Shape, Retrying, Ops
  <2> QED
    BY <2>1, <2>2, <2>3, <2>4, QuitShape, PlannedType, ShapeUpdate
<1>9. ASSUME NEW o \in Operators, NEW at \in Retrying, op[o].at \in Retrying, Goto(o, at),
             at \in {"resumed", "marked"} => op[o].plan = {},
             \A l \in Letters : letter[l] # "ABSENT" => letter'[l] # "ABSENT"
      PROVE  OpShape'
  <2>1. op[o] \in Ops /\ Shape(op[o], letter)
    BY DEF TypeOK, OpShape
  <2>2. Shape([op[o] EXCEPT !.at = at], letter')
    <3>1. /\ [op[o] EXCEPT !.at = at].at = at
          /\ [op[o] EXCEPT !.at = at].letter = op[o].letter
          /\ [op[o] EXCEPT !.at = at].plan = op[o].plan
      BY <2>1 DEF Ops
    <3>2. at # "opening" /\ op[o].letter \in Letters /\ letter'[op[o].letter] # "ABSENT"
      BY <1>9, <2>1 DEF Shape, Retrying
    <3> QED
      BY <1>9, <3>1, <3>2 DEF Shape
  <2> QED
    BY <1>9, <2>2, GotoType, ShapeUpdate DEF Retrying, Places
<1>10. ASSUME NEW o \in Operators, StartResume(o) PROVE OpShape'
  BY <1>9, <1>10 DEF StartResume, Retrying
<1>11. ASSUME NEW o \in Operators, NEW done \in BOOLEAN, VerifyHistory(o, done) PROVE OpShape'
  BY <1>9, <1>11, QuitShape DEF VerifyHistory, Retrying
<1>12. ASSUME NEW o \in Operators, MarkRetried(o) PROVE OpShape'
  <2>1. /\ op[o].at \in {"returned", "resumed"}
        /\ (Goto(o, "marked") /\ op[o].plan = {}) \/ Quit(o)
    BY <1>12 DEF MarkRetried, OpShape, Shape
  <2>2. \A l \in Letters : letter[l] # "ABSENT" => letter'[l] # "ABSENT"
    BY <1>12 DEF MarkRetried, TypeOK
  <2> QED
    BY <1>9, <2>1, <2>2, QuitShape DEF Retrying
<1>13. ASSUME NEW o \in Operators, CompleteRun(o) \/ Crash(o) PROVE OpShape'
  BY <1>13, QuitShape DEF CompleteRun, Crash
<1>14. ASSUME DriverComplete \/ CancelPrevious PROVE OpShape'
  BY <1>0, <1>14 DEF DriverComplete, CancelPrevious, opVars
<1>15. CASE UNCHANGED vars
  BY <1>0, <1>15 DEF vars
<1> QED
  BY <1>1, <1>2, <1>3, <1>4, <1>5, <1>6, <1>7, <1>8, <1>10, <1>11, <1>12, <1>13, <1>14, <1>15
  DEF Next, Retry
-----------------------------------------------------------------------------
(* Every handler keeps the count of the reports: a retry that settles the   *)
(* letter finds it OPEN.                                                    *)
LEMMA ReportsStep == ASSUME TypeOK, OpShape, ReportsCounted, [Next]_vars PROVE ReportsCounted'
<1>0. CASE letter' = letter /\ reported' = reported
  BY <1>0 DEF ReportsCounted
<1>1. ASSUME NEW o \in Operators, NEW l \in Letters, OpenWrite(o, l) PROVE ReportsCounted'
  BY <1>1 DEF OpenWrite, ReportsCounted, TypeOK
<1>2. ASSUME NEW o \in Operators, MarkRetried(o) PROVE ReportsCounted'
  <2>1. op[o].letter \in Letters
    BY <1>2 DEF MarkRetried, OpShape, Shape, Retrying
  <2> QED
    BY <1>2, <2>1 DEF MarkRetried, StillOpen, ReportsCounted, TypeOK
<1>3. ASSUME NEW t \in Steps, NEW status \in StepStatuses, DriverStep(t, status)
      PROVE  ReportsCounted'
  BY <1>0, <1>3 DEF DriverStep, opVars
<1>4. ASSUME NEW o \in Operators, NEW t \in Steps,
             ResumeBegin(o, t) \/ ResumeSucceed(o, t) \/ ResumeFail(o, t)
      PROVE  ReportsCounted'
  BY <1>0, <1>4 DEF ResumeBegin, ResumeSucceed, ResumeFail
<1>5. ASSUME NEW o \in Operators, NEW row \in Rows, NEW c \in Refs,
             OpenRead(o, row, c)
      PROVE  ReportsCounted'
  BY <1>0, <1>5 DEF OpenRead
<1>6. ASSUME NEW o \in Operators, NEW l \in Letters, LoadLetter(o, l) PROVE ReportsCounted'
  BY <1>0, <1>6 DEF LoadLetter
<1>7. ASSUME NEW o \in Operators,
             \/ PlanRetry(o) \/ StartResume(o) \/ CompleteRun(o) \/ Crash(o)
             \/ \E done \in BOOLEAN : VerifyHistory(o, done)
      PROVE  ReportsCounted'
  BY <1>0, <1>7 DEF PlanRetry, StartResume, VerifyHistory, CompleteRun, Crash
<1>8. ASSUME DriverComplete \/ CancelPrevious PROVE ReportsCounted'
  BY <1>0, <1>8 DEF DriverComplete, CancelPrevious, opVars
<1>9. CASE UNCHANGED vars
  BY <1>0, <1>9 DEF vars
<1> QED
  BY <1>1, <1>2, <1>3, <1>4, <1>5, <1>6, <1>7, <1>8, <1>9 DEF Next, Retry

-----------------------------------------------------------------------------
(* A letter some operator is done with, or has only loaded or planned,      *)
(* stays fresh.                                                             *)
LEMMA FreshUpdate ==
    ASSUME NEW l \in Letters, letter'[l] = "OPEN", NEW o \in Operators, NEW r, OpBecomes(o, r),
           \A q \in Operators : op[q].letter = l => op[q].at \in {"loaded", "planned"},
           r.letter = l => r.at \in {"loaded", "planned"}
    PROVE  FreshLetter'
  BY DEF FreshLetter, OpBecomes

(* Every handler keeps a dead-lettered run a fresh letter: an opening gives *)
(* it one, and a retry that begins to resume sets it RUNNING.               *)
LEMMA FreshStep ==
    ASSUME TypeOK, OpShape, FreshLetter, [Next]_vars PROVE FreshLetter'
<1> USE LetterAssumption
<1>0. NoOp.letter \notin Letters
  BY DEF NoOp
<1>1. ASSUME NEW o \in Operators, NEW l \in Letters, OpenWrite(o, l) PROVE FreshLetter'
  <2>1. letter[l] = "ABSENT" /\ letter'[l] = "OPEN" /\ Quit(o)
    BY <1>1 DEF OpenWrite, TypeOK
  <2>2. \A q \in Operators : op[q].letter # l
    BY <2>1 DEF OpShape, Shape
  <2> QED
    BY <1>0, <2>1, <2>2, QuitType, FreshUpdate
<1>2. SUFFICES ASSUME run' = "DEAD_LETTERED", run = "DEAD_LETTERED",
                      ~ \E o \in Operators, l \in Letters : OpenWrite(o, l)
               PROVE  FreshLetter'
  <2>1. ASSUME run' # "DEAD_LETTERED" PROVE FreshLetter'
    BY <2>1 DEF FreshLetter
  <2>2. ASSUME ~ \E o \in Operators, l \in Letters : OpenWrite(o, l), run # "DEAD_LETTERED"
        PROVE  run' # "DEAD_LETTERED"
    BY <2>2 DEF Next, Retry, DriverStep, DriverComplete, CancelPrevious, OpenRead, LoadLetter,
       PlanRetry, StartResume, ResumeBegin, ResumeSucceed, ResumeFail, VerifyHistory,
       MarkRetried, CompleteRun, Crash, vars
  <2> QED
    BY <1>1, <2>1, <2>2
<1>3. PICK l \in Letters : /\ letter[l] = "OPEN"
                           /\ \A q \in Operators :
                                 op[q].letter = l => op[q].at \in {"loaded", "planned"}
  BY <1>2 DEF FreshLetter
<1>4. CASE op' = op /\ letter' = letter
  BY <1>3, <1>4 DEF FreshLetter
<1>5. ASSUME NEW o \in Operators, Quit(o), letter'[l] = "OPEN" PROVE FreshLetter'
  BY <1>0, <1>3, <1>5, QuitType, FreshUpdate
<1>6. ASSUME NEW o \in Operators, NEW at \in Places, Goto(o, at), letter'[l] = "OPEN",
             op[o].letter # l
      PROVE  FreshLetter'
  <2>1. [op[o] EXCEPT !.at = at].letter = op[o].letter
    BY DEF TypeOK, Ops
  <2> QED
    BY <1>3, <1>6, <2>1, GotoType, FreshUpdate
<1>7. ASSUME NEW o \in Operators, NEW t \in Steps, ResumeBegin(o, t) PROVE FreshLetter'
  <2>1. op[o].letter # l /\ letter'[l] = "OPEN" /\ op[o] \in Ops
    BY <1>3, <1>7 DEF ResumeBegin, TypeOK
  <2>2. CASE op' = [op EXCEPT ![o].plan = @ \ {t}]
    <3>1. [op[o] EXCEPT !.plan = @ \ {t}].letter = op[o].letter
      BY <2>1 DEF Ops
    <3> QED
      BY <1>3, <2>1, <2>2, <3>1, ReplayedType, FreshUpdate
  <2> QED
    BY <1>5, <1>6, <1>7, <2>1, <2>2 DEF ResumeBegin, Places
<1>8. ASSUME NEW o \in Operators, NEW t \in Steps, ResumeSucceed(o, t) PROVE FreshLetter'
  <2>1. op[o].letter # l /\ letter'[l] = "OPEN" /\ op[o] \in Ops
    BY <1>3, <1>8 DEF ResumeSucceed, TypeOK
  <2>2. CASE op' = [op EXCEPT ![o].at = "resuming", ![o].plan = @ \ {t}]
    <3>1. [op[o] EXCEPT !.at = "resuming", !.plan = @ \ {t}].letter = op[o].letter
      BY <2>1 DEF Ops
    <3> QED
      BY <1>3, <2>1, <2>2, <3>1, ResumedType, FreshUpdate
  <2> QED
    BY <1>5, <1>8, <2>1, <2>2 DEF ResumeSucceed
<1>9. ASSUME NEW o \in Operators, NEW t \in Steps, ResumeFail(o, t) PROVE FreshLetter'
  BY <1>3, <1>5, <1>9 DEF ResumeFail
<1>10. ASSUME NEW o \in Operators, NEW row \in Rows, NEW c \in Refs,
              OpenRead(o, row, c)
       PROVE  FreshLetter'
  <2> DEFINE r == [NoOp EXCEPT !.at = "opening", !.row = row, !.ref = c]
  <2>1. r.letter \notin Letters
    BY DEF NoOp
  <2>2. op' = [op EXCEPT ![o] = r] /\ letter' = letter /\ op' \in [Operators -> Ops]
    BY <1>10, TypeStep DEF OpenRead, TypeOK
  <2> HIDE DEF r
  <2>3. OpBecomes(o, r)
    BY <2>2 DEF OpBecomes, TypeOK
  <2> QED
    BY <1>3, <2>1, <2>2, <2>3, FreshUpdate
<1>11. ASSUME NEW o \in Operators, NEW m \in Letters, LoadLetter(o, m) PROVE FreshLetter'
  <2> DEFINE r == [NoOp EXCEPT !.at = "loaded", !.letter = m, !.ref = ref[m]]
  <2>1. r.at = "loaded"
    BY DEF NoOp
  <2>2. op' = [op EXCEPT ![o] = r] /\ letter' = letter /\ op' \in [Operators -> Ops]
    BY <1>11, TypeStep DEF LoadLetter, TypeOK
  <2> HIDE DEF r
  <2>3. OpBecomes(o, r)
    BY <2>2 DEF OpBecomes, TypeOK
  <2> QED
    BY <1>3, <2>1, <2>2, <2>3, FreshUpdate
<1>12. ASSUME NEW o \in Operators, PlanRetry(o) PROVE FreshLetter'
  <2> DEFINE checkpoint == IF op[o].ref # NoRef THEN op[o].ref[2] ELSE Latest(Succeeded)
             plan       == PlanAfter(checkpoint, Succeeded)
  <2>1. letter' = letter /\ op[o] \in Ops
    BY <1>12 DEF PlanRetry, TypeOK
  <2>2. Succeeded \in SUBSET Rows /\ plan \in SUBSET Steps
    BY DEF Succeeded, PlanAfter
  <2>3. \/ Quit(o)
        \/ op' = [op EXCEPT ![o].at = "planned", ![o].completed = Succeeded, ![o].plan = plan]
    BY <1>12 DEF PlanRetry
  <2> HIDE DEF plan, checkpoint
  <2>4. [op[o] EXCEPT !.at = "planned", !.completed = Succeeded, !.plan = plan].at = "planned"
    BY <2>1 DEF Ops
  <2>5. CASE Quit(o)
    BY <1>3, <1>5, <2>1, <2>5
  <2>6. CASE op' = [op EXCEPT ![o].at = "planned", ![o].completed = Succeeded, ![o].plan = plan]
    <3>1. OpBecomes(o, [op[o] EXCEPT !.at = "planned", !.completed = Succeeded, !.plan = plan])
      BY <2>2, <2>6, PlannedType
    <3> QED
      BY <1>3, <2>1, <2>4, <3>1, FreshUpdate
  <2> QED
    BY <2>3, <2>5, <2>6
<1>13. ASSUME NEW o \in Operators, MarkRetried(o) PROVE FreshLetter'
  <2>1. op[o].letter # l /\ op[o].letter \in Letters
    BY <1>3, <1>13 DEF MarkRetried, OpShape, Shape, Retrying
  <2>2. letter'[l] = "OPEN" /\ (Goto(o, "marked") \/ Quit(o))
    BY <1>3, <1>13, <2>1 DEF MarkRetried, TypeOK
  <2> QED
    BY <1>5, <1>6, <2>1, <2>2 DEF Places
<1>14. ASSUME NEW o \in Operators, NEW done \in BOOLEAN, VerifyHistory(o, done) PROVE FreshLetter'
  <2>1. op[o].letter # l /\ letter'[l] = "OPEN" /\ (Goto(o, "resumed") \/ Goto(o, "returned") \/ Quit(o))
    BY <1>3, <1>14 DEF VerifyHistory
  <2> QED
    BY <1>5, <1>6, <2>1 DEF Places
<1>15. ASSUME NEW o \in Operators, StartResume(o) PROVE FreshLetter'
  BY <1>2, <1>15 DEF StartResume
<1>16. ASSUME NEW o \in Operators, CompleteRun(o) \/ Crash(o) PROVE FreshLetter'
  BY <1>3, <1>5, <1>16 DEF CompleteRun, Crash
<1>17. ASSUME NEW t \in Steps, NEW status \in StepStatuses, DriverStep(t, status)
       PROVE  FreshLetter'
  BY <1>4, <1>17 DEF DriverStep, opVars
<1>18. ASSUME DriverComplete \/ CancelPrevious PROVE FreshLetter'
  BY <1>4, <1>18 DEF DriverComplete, CancelPrevious, opVars
<1>19. CASE UNCHANGED vars
  BY <1>4, <1>19 DEF vars
<1> QED
  BY <1>1, <1>7, <1>8, <1>9, <1>10, <1>11, <1>12, <1>13, <1>14, <1>15, <1>16, <1>17, <1>18,
     <1>19 DEF Next, Retry
-----------------------------------------------------------------------------
(* The steps are completed in their order, and a plan leaves out completed  *)
(* steps only.                                                              *)

(* A nonempty set of naturals has a least element. *)
LEMMA LeastNatural ==
    ASSUME NEW T \in SUBSET Nat, T # {} PROVE \E x \in T : \A y \in T : x <= y
<1>1. PICK x \in T : \A y \in T : ~ (<<y, x>> \in OpToRel(<, Nat))
  BY NatLessThanWellFounded, WFMin
<1>2. ASSUME NEW y \in T, y < x PROVE <<y, x>> \in OpToRel(<, Nat)
  BY <1>2 DEF OpToRel
<1>3. \A y \in T : ~ (y < x)
  BY <1>1, <1>2, Zenon
<1> QED
  BY <1>3

(* latestCompletedStep returns a completed step when there is one. *)
LEMMA LatestCompleted ==
    ASSUME TypeOK, Succeeded # {} PROVE Latest(Succeeded) \in Steps /\ Completed(Latest(Succeeded))
<1> USE LetterAssumption
<1> DEFINE Bounds == {n \in Nat : \A r \in Succeeded : r[2] <= n}
<1>1. \A r \in Succeeded : r[1] \in Keys /\ r[2] \in Steps /\ step[r[1]][r[2]] = "SUCCEEDED"
  BY DEF Succeeded, Rows
<1>2. N \in Bounds
  BY <1>1 DEF Steps
<1>3. PICK m \in Bounds : \A n \in Bounds : m <= n
  BY <1>2, LeastNatural
<1>4. \E r \in Succeeded : r[2] = m
  <2>1. SUFFICES ASSUME \A r \in Succeeded : r[2] # m PROVE FALSE
    OBVIOUS
  <2>2. \A r \in Succeeded : r[2] <= m - 1
    BY <1>1, <2>1 DEF Steps
  <2>3. m - 1 \in Nat
    BY <1>1, <2>2 DEF Steps
  <2> QED
    BY <1>3, <2>2, <2>3
<1>5. Latest(Succeeded) \in Steps /\ \E r \in Succeeded : r[2] = Latest(Succeeded)
  BY <1>1, <1>3, <1>4 DEF Latest
<1> QED
  BY <1>1, <1>5 DEF Completed

(* PlanRetry plans every step that is not completed. *)
LEMMA PlanCoversAll ==
    ASSUME TypeOK, CompletedPrefix, NEW c \in Steps, Completed(c),
           NEW t \in Steps \ PlanAfter(c, Succeeded)
    PROVE  Completed(t)
<1>1. t <= c \/ \E r \in Succeeded : r[2] = t
  BY LetterAssumption DEF PlanAfter, Steps
<1>2. CASE \E r \in Succeeded : r[2] = t
  BY <1>2 DEF Succeeded, Rows, Completed
<1>3. CASE t <= c
  <2>1. t = c \/ t < c
    BY <1>3, LetterAssumption DEF Steps
  <2> QED
    BY <2>1 DEF CompletedPrefix
<1> QED
  BY <1>1, <1>2, <1>3

(* A step type is newly completed only after the ones before it. *)
LEMMA PrefixStep ==
    ASSUME TypeOK, OpShape, CompletedPrefix, PlanCovers, [Next]_vars PROVE CompletedPrefix'
<1> USE LetterAssumption
<1>0. StepTableStep
  BY StepTable
<1>1. ASSUME NEW k \in Keys, NEW t \in Steps, NEW status \in StepStatuses, SetStep(k, t, status),
             status = "SUCCEEDED" => \A u \in 1..(t - 1) : Completed(u)
      PROVE  CompletedPrefix'
  <2>1. SUFFICES ASSUME NEW v \in Steps, NEW u \in Steps, Completed(v)', u < v
                 PROVE  Completed(u)'
    BY DEF CompletedPrefix
  <2>2. CASE Completed(v)
    BY <1>0, <2>1, <2>2, CompletedGrows DEF CompletedPrefix
  <2>3. CASE ~Completed(v)
    <3>1. PICK j \in Keys : step'[j][v] = "SUCCEEDED"
      BY <2>1 DEF Completed
    <3>2. step[j][v] # "SUCCEEDED"
      BY <2>3 DEF Completed
    <3>3. v = t /\ status = "SUCCEEDED"
      BY <1>1, <3>1, <3>2, StepUpdate
    <3>4. Completed(u)
      BY <1>1, <2>1, <3>3 DEF Steps
    <3> QED
      BY <1>0, <3>4, CompletedGrows
  <2> QED
    BY <2>2, <2>3
<1>2. CASE step' = step
  BY <1>2 DEF CompletedPrefix, Completed
<1>3. ASSUME NEW t \in Steps, NEW status \in StepStatuses, DriverStep(t, status)
      PROVE  CompletedPrefix'
  BY <1>1, <1>3 DEF DriverStep, Keys
<1>4. ASSUME NEW o \in Operators, NEW l \in Letters, OpenWrite(o, l) PROVE CompletedPrefix'
  <2>1. op[o].row \in Rows /\ Exhaust(op[o].row)
    BY <1>4 DEF OpenWrite, OpShape, Shape
  <2>2. PICK k \in Keys, t \in Steps : op[o].row = <<k, t>>
    BY <2>1 DEF Rows
  <2>3. step' = step \/ SetStep(k, t, "FAILED_EXHAUSTED")
    BY <2>1, <2>2 DEF Exhaust
  <2> QED
    BY <1>1, <1>2, <2>3 DEF StepStatuses
<1>5. ASSUME NEW o \in Operators, NEW t \in Steps, ResumeSucceed(o, t) PROVE CompletedPrefix'
  <2>1. op[o].letter \in Keys /\ (step' = step \/ SetStep(op[o].letter, t, "SUCCEEDED"))
    BY <1>5, OpFields DEF ResumeSucceed
  <2>2. \A u \in 1..(t - 1) : u \in Steps \ op[o].plan
    BY <1>5 DEF ResumeSucceed, NextPlanned, Steps
  <2>3. \A u \in 1..(t - 1) : Completed(u)
    BY <1>5, <2>2 DEF ResumeSucceed, PlanCovers, Covers, Retrying, Completed
  <2> QED
    BY <1>1, <1>2, <2>1, <2>3 DEF StepStatuses
<1>6. ASSUME NEW o \in Operators, NEW t \in Steps, ResumeBegin(o, t) \/ ResumeFail(o, t)
      PROVE  CompletedPrefix'
  <2>1. /\ op[o].letter \in Keys
        /\ \/ step' = step
           \/ \E status \in {"RUNNING", "FAILED_RETRYABLE"} : SetStep(op[o].letter, t, status)
    BY <1>6, OpFields DEF ResumeBegin, ResumeFail
  <2> QED
    BY <1>1, <1>2, <2>1 DEF StepStatuses
<1>7. ASSUME NEW o \in Operators, NEW row \in Rows, NEW c \in Refs,
             OpenRead(o, row, c)
      PROVE  step' = step
  BY <1>7 DEF OpenRead
<1>8. ASSUME NEW o \in Operators, NEW l \in Letters, LoadLetter(o, l) PROVE step' = step
  BY <1>8 DEF LoadLetter
<1>9. ASSUME NEW o \in Operators,
             \/ PlanRetry(o) \/ StartResume(o) \/ MarkRetried(o)
             \/ \E done \in BOOLEAN : VerifyHistory(o, done)
             \/ CompleteRun(o) \/ Crash(o)
      PROVE  step' = step
  BY <1>9 DEF PlanRetry, StartResume, VerifyHistory, MarkRetried, CompleteRun, Crash
<1>10. ASSUME DriverComplete \/ CancelPrevious PROVE step' = step
  BY <1>10 DEF DriverComplete, CancelPrevious
<1>11. CASE UNCHANGED vars
  BY <1>2, <1>11 DEF vars
<1> QED
  BY <1>2, <1>3, <1>4, <1>5, <1>6, <1>7, <1>8, <1>9, <1>10, <1>11 DEF Next, Retry

(* What a step table completes, the next one does too. *)
LEMMA CoversGrows ==
    ASSUME StepTableStep, NEW r, Covers(r, step) PROVE Covers(r, step')
  BY DEF Covers, StepTableStep

(* One operator moves on; the plans of the others still cover. *)
LEMMA CoversUpdate ==
    ASSUME StepTableStep, PlanCovers, NEW o \in Operators, NEW r, OpBecomes(o, r), Covers(r, step')
    PROVE  PlanCovers'
  BY CoversGrows DEF PlanCovers, OpBecomes

(* Every handler keeps the plans covering. *)
LEMMA CoverStep ==
    ASSUME TypeOK, OpShape, CompletedPrefix, PlanCovers, [Next]_vars PROVE PlanCovers'
<1> USE LetterAssumption
<1>0. StepTableStep
  BY StepTable
<1>1. CASE op' = op
  BY <1>0, <1>1, CoversGrows DEF PlanCovers
<1>2. ASSUME NEW o \in Operators, Quit(o) PROVE PlanCovers'
  <2>1. Covers(NoOp, step')
    BY DEF Covers, NoOp, Retrying
  <2> QED
    BY <1>0, <1>2, <2>1, QuitType, CoversUpdate
<1>3. ASSUME NEW o \in Operators, NEW at \in Retrying, Goto(o, at), op[o].at \in Retrying \ {"loaded"}
      PROVE  PlanCovers'
  <2>1. /\ [op[o] EXCEPT !.at = at].at = at
        /\ [op[o] EXCEPT !.at = at].plan = op[o].plan
    BY DEF TypeOK, Ops
  <2>2. Covers(op[o], step')
    BY <1>0, CoversGrows DEF PlanCovers
  <2>3. Covers([op[o] EXCEPT !.at = at], step')
    BY <1>3, <2>1, <2>2 DEF Covers
  <2> QED
    BY <1>0, <1>3, <2>3, GotoType, CoversUpdate DEF Retrying, Places
<1>4. ASSUME NEW t \in Steps, NEW status \in StepStatuses, DriverStep(t, status) PROVE PlanCovers'
  BY <1>1, <1>4 DEF DriverStep, opVars
<1>5. ASSUME NEW o \in Operators, NEW l \in Letters, OpenWrite(o, l) PROVE PlanCovers'
  BY <1>2, <1>5 DEF OpenWrite
<1>6. ASSUME NEW o \in Operators, NEW t \in Steps, ResumeBegin(o, t) PROVE PlanCovers'
  <2>1. op[o].at = "resuming" /\ op[o] \in Ops /\ op[o].letter \in Keys
    BY <1>6, OpFields DEF ResumeBegin, TypeOK
  <2>2. CASE step[op[o].letter][t] = "SUCCEEDED"
    <3> DEFINE r == [op[o] EXCEPT !.plan = @ \ {t}]
    <3>1. op' = [op EXCEPT ![o].plan = @ \ {t}] /\ step' = step
      BY <1>6, <2>2 DEF ResumeBegin
    <3>2. r.at = "resuming" /\ r.plan = op[o].plan \ {t}
      BY <2>1 DEF Ops
    <3>3. Covers(op[o], step)
      BY DEF PlanCovers
    <3>4. Covers(r, step')
      BY <2>1, <2>2, <3>1, <3>2, <3>3 DEF Covers, Retrying
    <3> QED
      BY <1>0, <3>1, <3>4, ReplayedType, CoversUpdate
  <2>3. CASE Quit(o)
    BY <1>2, <2>3
  <2>4. CASE Goto(o, "claimed")
    BY <1>3, <2>1, <2>4 DEF Retrying
  <2> QED
    BY <1>6, <2>2, <2>3, <2>4 DEF ResumeBegin
<1>7. ASSUME NEW o \in Operators, NEW t \in Steps, ResumeSucceed(o, t) PROVE PlanCovers'
  <2>1. op[o].at = "claimed" /\ op[o] \in Ops /\ op[o].letter \in Keys
    BY <1>7, OpFields DEF ResumeSucceed, TypeOK
  <2>2. CASE /\ SetStep(op[o].letter, t, "SUCCEEDED")
             /\ op' = [op EXCEPT ![o].at = "resuming", ![o].plan = @ \ {t}]
    <3> DEFINE r == [op[o] EXCEPT !.at = "resuming", !.plan = @ \ {t}]
    <3>1. step'[op[o].letter][t] = "SUCCEEDED"
      BY <2>1, <2>2, StepUpdate DEF StepStatuses
    <3>2. r.at = "resuming" /\ r.plan = op[o].plan \ {t}
      BY <2>1 DEF Ops
    <3>3. Covers(op[o], step')
      BY <1>0, CoversGrows DEF PlanCovers
    <3>4. Covers(r, step')
      BY <2>1, <3>1, <3>2, <3>3 DEF Covers, Retrying
    <3> QED
      BY <1>0, <2>2, <3>4, ResumedType, CoversUpdate
  <2>3. CASE Quit(o)
    BY <1>2, <2>3
  <2> QED
    BY <1>7, <2>2, <2>3 DEF ResumeSucceed
<1>8. ASSUME NEW o \in Operators, NEW t \in Steps, ResumeFail(o, t) PROVE PlanCovers'
  BY <1>2, <1>8 DEF ResumeFail
<1>9. ASSUME NEW o \in Operators, NEW row \in Rows, NEW c \in Refs,
             OpenRead(o, row, c)
      PROVE  PlanCovers'
  <2> DEFINE r == [NoOp EXCEPT !.at = "opening", !.row = row, !.ref = c]
  <2>1. Covers(r, step')
    BY DEF Covers, NoOp, Retrying
  <2>2. op' = [op EXCEPT ![o] = r] /\ op' \in [Operators -> Ops]
    BY <1>9, TypeStep DEF OpenRead, TypeOK
  <2> HIDE DEF r
  <2>3. OpBecomes(o, r)
    BY <2>2 DEF OpBecomes, TypeOK
  <2> QED
    BY <1>0, <2>1, <2>3, CoversUpdate
<1>10. ASSUME NEW o \in Operators, NEW l \in Letters, LoadLetter(o, l) PROVE PlanCovers'
  <2> DEFINE r == [NoOp EXCEPT !.at = "loaded", !.letter = l, !.ref = ref[l]]
  <2>1. Covers(r, step')
    BY DEF Covers, NoOp
  <2>2. op' = [op EXCEPT ![o] = r] /\ op' \in [Operators -> Ops]
    BY <1>10, TypeStep DEF LoadLetter, TypeOK
  <2> HIDE DEF r
  <2>3. OpBecomes(o, r)
    BY <2>2 DEF OpBecomes, TypeOK
  <2> QED
    BY <1>0, <2>1, <2>3, CoversUpdate
<1>11. ASSUME NEW o \in Operators, PlanRetry(o) PROVE PlanCovers'
  <2> DEFINE checkpoint == IF op[o].ref # NoRef THEN op[o].ref[2] ELSE Latest(Succeeded)
             plan       == PlanAfter(checkpoint, Succeeded)
             r          == [op[o] EXCEPT !.at = "planned", !.completed = Succeeded, !.plan = plan]
  <2>1. op[o] \in Ops /\ step' = step
    BY <1>11 DEF PlanRetry, TypeOK
  <2>2. CASE Quit(o)
    BY <1>2, <2>2
  <2>3. CASE ~Quit(o)
    <3>1. /\ checkpoint # 0
          /\ op[o].ref # NoRef => op[o].ref \in Succeeded
          /\ op' = [op EXCEPT ![o].at = "planned", ![o].completed = Succeeded, ![o].plan = plan]
      BY <1>11, <2>3 DEF PlanRetry
    <3>2. checkpoint \in Steps /\ Completed(checkpoint)
      <4>1. CASE op[o].ref # NoRef
        BY <3>1, <4>1 DEF Succeeded, Rows, Completed
      <4>2. CASE op[o].ref = NoRef
        <5>1. checkpoint = Latest(Succeeded) /\ Succeeded # {}
          BY <3>1, <4>2 DEF Latest
        <5> QED
          BY <5>1, LatestCompleted
      <4> QED
        BY <4>1, <4>2
    <3>3. Succeeded \in SUBSET Rows /\ plan \in SUBSET Steps
      BY DEF Succeeded, PlanAfter
    <3> HIDE DEF checkpoint
    <3>4. \A t \in Steps \ plan : Completed(t)
      BY <3>2, PlanCoversAll
    <3> HIDE DEF plan
    <3>5. r.plan = plan
      BY <2>1 DEF Ops
    <3>6. Covers(r, step')
      BY <2>1, <3>4, <3>5 DEF Covers, Completed
    <3>7. OpBecomes(o, r)
      BY <3>1, <3>3, PlannedType
    <3> QED
      BY <1>0, <3>6, <3>7, CoversUpdate
  <2> QED
    BY <2>2, <2>3
<1>12. ASSUME NEW o \in Operators, StartResume(o) PROVE PlanCovers'
  BY <1>3, <1>12 DEF StartResume, Retrying
<1>13. ASSUME NEW o \in Operators,
              MarkRetried(o) \/ \E done \in BOOLEAN : VerifyHistory(o, done)
       PROVE  PlanCovers'
  <2>1. /\ op[o].at \in Retrying \ {"loaded"} /\ step' = step
        /\ Quit(o) \/ \E at \in {"returned", "resumed", "marked"} : Goto(o, at)
    BY <1>13 DEF VerifyHistory, MarkRetried, Retrying
  <2> QED
    BY <1>2, <1>3, <2>1 DEF Retrying
<1>14. ASSUME NEW o \in Operators, CompleteRun(o) \/ Crash(o) PROVE PlanCovers'
  BY <1>2, <1>14 DEF CompleteRun, Crash
<1>15. ASSUME DriverComplete \/ CancelPrevious PROVE PlanCovers'
  BY <1>1, <1>15 DEF DriverComplete, CancelPrevious, opVars
<1>16. CASE UNCHANGED vars
  BY <1>1, <1>16 DEF vars
<1> QED
  BY <1>4, <1>5, <1>6, <1>7, <1>8, <1>9, <1>10, <1>11, <1>12, <1>13, <1>14, <1>15, <1>16
  DEF Next, Retry

-----------------------------------------------------------------------------
(* A run becomes SUCCEEDED when the driver completed every step, or when a  *)
(* retry did what it planned.                                               *)
LEMMA SucceededStep ==
    ASSUME TypeOK, OpShape, PlanCovers, SucceededIsComplete, [Next]_vars
    PROVE  SucceededIsComplete'
<1>0. StepTableStep
  BY StepTable
<1>1. ASSUME \A t \in Steps : Completed(t) PROVE SucceededIsComplete'
  BY <1>0, <1>1, CompletedGrows DEF SucceededIsComplete
<1>2. CASE run' = run \/ run' # "SUCCEEDED"
  BY <1>1, <1>2 DEF SucceededIsComplete
<1>3. CASE DriverComplete
  BY <1>1, <1>3 DEF DriverComplete, Completed, Keys
<1>4. ASSUME NEW o \in Operators, CompleteRun(o) PROVE SucceededIsComplete'
  BY <1>1, <1>4 DEF CompleteRun, OpShape, Shape, PlanCovers, Covers, Retrying, Completed
<1>5. ASSUME ~DriverComplete, ~ \E o \in Operators : CompleteRun(o)
      PROVE  run' = run \/ run' # "SUCCEEDED"
  BY <1>5 DEF Next, Retry, DriverStep, CancelPrevious, OpenRead, OpenWrite, LoadLetter,
     PlanRetry, StartResume, ResumeBegin, ResumeSucceed, ResumeFail, VerifyHistory,
     MarkRetried, Crash, vars
<1> QED
  BY <1>2, <1>3, <1>4, <1>5

(* The invariant holds initially. *)
LEMMA LetterInit == ASSUME Init PROVE LetterInv
<1> USE LetterAssumption
<1>1. NoOp \in Ops
  BY DEF NoOp, Ops, Keys
<1>2. TypeOK
  <2>1. step \in [Keys -> [Steps -> StepStatuses]]
    BY DEF Init, StepStatuses
  <2>2. op \in [Operators -> Ops] /\ ref \in [Letters -> Rows \union {NoRef}]
    BY <1>1 DEF Init
  <2>3. failures \in 0..MaxFailures /\ crashes \in 0..MaxCrashes /\ reported \in [Letters -> Nat]
    BY DEF Init
  <2>4. stranded \in BOOLEAN
    BY DEF Init
  <2>5. /\ run \in {"RUNNING", "SUCCEEDED", "CANCELLED", "DEAD_LETTERED"}
        /\ letter \in [Letters -> {"ABSENT", "OPEN", "RETRIED"}]
    BY DEF Init
  <2> QED
    BY <2>1, <2>2, <2>3, <2>4, <2>5 DEF TypeOK
<1>3. OpShape /\ PlanCovers
  BY DEF Init, OpShape, PlanCovers, Shape, Covers, NoOp, Retrying
<1>4. ReportsCounted /\ FreshLetter /\ SucceededIsComplete
  BY DEF Init, ReportsCounted, FreshLetter, SucceededIsComplete
<1>5. CompletedPrefix
  BY DEF Init, CompletedPrefix, Completed
<1> QED
  BY <1>2, <1>3, <1>4, <1>5 DEF LetterInv

(* The invariant is inductive. *)
LEMMA LetterInductive == Spec => []LetterInv
<1>1. LetterInv /\ [Next]_vars => LetterInv'
  BY TypeStep, ShapeStep, ReportsStep, FreshStep, PrefixStep, CoverStep, SucceededStep
  DEF LetterInv
<1>2. Init => LetterInv
  BY LetterInit
<1> QED
  BY <1>1, <1>2, PTL DEF Spec

-----------------------------------------------------------------------------
(* However openings, retries, crashes and the driver interleave, the rows   *)
(* of workflow_runs, workflow_steps and dead_letters and the operators'     *)
(* locals have their types.                                                 *)
THEOREM LetterTypeOK == Spec => []TypeOK
<1>1. LetterInv => TypeOK
  BY DEF LetterInv
<1> QED
  BY <1>1, LetterInductive, PTL

(* retryFromLastValidCheckpoint never reports a run SUCCEEDED that lacks a  *)
(* standard step: its plan leaves out only completed steps, because steps   *)
(* complete in their order and completed rows stay completed.               *)
THEOREM SucceededRunIsComplete == Spec => []SucceededIsComplete
<1>1. LetterInv => SucceededIsComplete
  BY DEF LetterInv
<1> QED
  BY <1>1, LetterInductive, PTL

(* Any number of operators retrying one letter, with any number of crashes, *)
(* settle it once: the conditional UPDATE of dead_letters admits one.       *)
THEOREM LetterRetriedOnce == Spec => []RetriedOnce
<1>1. LetterInv => RetriedOnce
  BY DEF LetterInv, ReportsCounted, RetriedOnce
<1> QED
  BY <1>1, LetterInductive, PTL

(* A DEAD_LETTERED run never loses its last OPEN letter, so an operator can *)
(* always retry it: a retry sets the run RUNNING before it settles.         *)
THEOREM DeadLetteredRunIsActionable == Spec => []DeadLetteredIsActionable
<1>1. LetterInv => DeadLetteredIsActionable
  BY DEF LetterInv, FreshLetter, DeadLetteredIsActionable
<1> QED
  BY <1>1, LetterInductive, PTL

(* No handler rewrites a completed step row, not even openDeadLetter, which *)
(* decided on an older status of the row.                                   *)
THEOREM HistoryIsKept == Spec => CompletedStepsStay
<1>1. LetterInv /\ [Next]_vars => [\A r \in Succeeded : step'[r[1]][r[2]] = "SUCCEEDED"]_vars
  <2>1. ASSUME LetterInv, [Next]_vars, NEW r \in Succeeded PROVE step'[r[1]][r[2]] = "SUCCEEDED"
    BY <2>1, StepTable DEF LetterInv, StepTableStep, Succeeded, Rows
  <2> QED
    BY <2>1
<1> QED
  BY <1>1, LetterInductive, PTL DEF Spec, CompletedStepsStay
=============================================================================
