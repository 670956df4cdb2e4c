------------------------ MODULE StepExecutionProofs ------------------------
(***************************************************************************)
(* Proofs about StepExecution for every set of workers, keys and leases,   *)
(* every skew of the clocks and every bound.                               *)
(***************************************************************************)
EXTENDS StepExecution, TLAPS

(* The empty handle, call and copy have their types. *)
LEMMA EmptyTypes == NoHandle \in Handles /\ NoCall \in Calls /\ NoSnap \in Snaps
  BY DEF NoHandle, Handles, NoCall, Calls, NoSnap, Snaps, NoToken

(* The copy of a row that beginStep reads has the type of a copy. *)
LEMMA RowType == ASSUME TypeOK, NEW k \in Keys PROVE RowOf(k) \in Snaps
  BY DEF TypeOK, RowOf, Snaps

(* The fields of a call have their types. *)
LEMMA CallFields ==
    ASSUME NEW c \in Calls
    PROVE  /\ c.hash \in Hashes \union {NoHash} /\ c.fence \in Handles
           /\ c.result \in Outputs \union {NoHash} /\ c.attempt \in Nat
  BY DEF Calls

(* Recording the claimed attempt in the call of one worker keeps the type   *)
(* of the calls and every key.                                              *)
LEMMA AttemptUpdate ==
    ASSUME TypeOK, NEW w \in Workers, NEW n \in Nat, call' = [call EXCEPT ![w].attempt = n]
    PROVE  /\ call' \in [Workers -> Calls]
           /\ \A v \in Workers : call'[v].key = call[v].key
<1>1. call \in [Workers -> Calls]
  BY DEF TypeOK
<1>2. [call[w] EXCEPT !.attempt = n] \in Calls /\ [call[w] EXCEPT !.attempt = n].key = call[w].key
  BY <1>1 DEF Calls
<1> QED
  BY <1>1, <1>2

(* So does recording the result of the effect. *)
LEMMA ResultUpdate ==
    ASSUME TypeOK, NEW w \in Workers, NEW o \in Outputs, call' = [call EXCEPT ![w].result = o]
    PROVE  /\ call' \in [Workers -> Calls]
           /\ \A v \in Workers : call'[v].key = call[v].key
<1>1. call \in [Workers -> Calls]
  BY DEF TypeOK
<1>2. [call[w] EXCEPT !.result = o] \in Calls /\ [call[w] EXCEPT !.result = o].key = call[w].key
  BY <1>1 DEF Calls
<1> QED
  BY <1>1, <1>2

(* A worker that returns to idle keeps the types of the local state. *)
LEMMA IdleType ==
    ASSUME TypeOK, NEW w \in Workers, Idle(w)
    PROVE  /\ pc' \in [Workers -> {"idle", "begin", "effect", "commit", "fail"}]
           /\ call' \in [Workers -> Calls] /\ snap' \in [Workers -> Snaps]
           /\ \A v \in Workers : pc'[v] # "idle" => call'[v].key \in Keys
  BY EmptyTypes DEF TypeOK, Idle

(* Every handler of leases.ts and steps.ts writes values of the columns'    *)
(* types.                                                                   *)
LEMMA TypeStep == ASSUME TypeOK, [Next]_vars PROVE TypeOK'
<1>1. ASSUME NEW w \in Workers, Release(w) PROVE TypeOK'
  BY <1>1, EmptyTypes DEF Release, stepVars, TypeOK
<1>2. ASSUME NEW w \in Workers, NEW lk \in LeaseKeys, Acquire(w, lk) PROVE TypeOK'
  <2>1. [key |-> lk, token |-> seq + 1] \in Handles
    BY DEF Handles, TypeOK
  <2>2. Clock(w) + Ttl \in Nat
    BY StepAssumption DEF Clock, TypeOK
  <2> QED
    BY <1>2, <2>1, <2>2 DEF Acquire, stepVars, TypeOK
<1>3. ASSUME NEW w \in Workers, NEW k \in Keys, NEW h \in Hashes \union {NoHash},
             NEW f \in {held[w], NoHandle}, BeginRead(w, k, h, f)
      PROVE TypeOK'
  <2>1. f \in Handles
    BY EmptyTypes DEF TypeOK
  <2>2. [NoCall EXCEPT !.key = k, !.hash = h, !.fence = f] \in Calls
    BY <2>1 DEF NoCall, Calls
  <2> QED
    BY <1>3, <2>2, RowType DEF BeginRead, leaseVars, stepVars, TypeOK
<1>4. ASSUME NEW w \in Workers, BeginInsert(w) PROVE TypeOK'
  <2>1. call[w] \in Calls /\ call[w].key \in Keys
    BY <1>4 DEF BeginInsert, TypeOK
  <2>2. CASE call' = [call EXCEPT ![w].attempt = 1]
    <3>1. /\ call' \in [Workers -> Calls]
          /\ \A v \in Workers : call'[v].key = call[v].key
      BY <2>2, AttemptUpdate
    <3>2. call[w].hash \in Hashes \union {NoHash}
      BY <2>1, CallFields
    <3>3. RowOf(call[w].key) \in Snaps
      BY <2>1, RowType
    <3>4. pc' \in [Workers -> {"idle", "begin", "effect", "commit", "fail"}]
          /\ (\A v \in Workers : pc'[v] # "idle" => pc[v] # "idle")
          /\ snap' \in [Workers -> Snaps]
      BY <1>4, <3>3 DEF BeginInsert, TypeOK, stepVars
    <3>5. /\ status' \in [Keys -> Statuses \union {Absent}]
          /\ attempt' \in [Keys -> Nat]
          /\ input' \in [Keys -> Hashes \union {NoHash}]
          /\ output' \in [Keys -> Outputs \union {NoHash}]
      BY <1>4, <3>2 DEF BeginInsert, TypeOK, stepVars, Statuses
    <3> QED
      BY <1>4, <3>1, <3>4, <3>5 DEF BeginInsert, leaseVars, TypeOK
  <2>3. CASE call' = call
    BY <1>4, <2>1, <2>3, RowType, CallFields
    DEF BeginInsert, leaseVars, stepVars, TypeOK, Statuses
  <2> QED
    BY <1>4, <2>2, <2>3 DEF BeginInsert
<1>5. ASSUME NEW w \in Workers, BeginRefuse(w) PROVE TypeOK'
  BY <1>5, IdleType DEF BeginRefuse, leaseVars, stepVars, TypeOK
<1>6. ASSUME NEW w \in Workers, BeginReplay(w) PROVE TypeOK'
  <2>1. snap[w].output \in Outputs \union {NoHash}
    BY DEF TypeOK, Snaps
  <2> QED
    BY <1>6, <2>1, IdleType DEF BeginReplay, leaseVars, stepVars, TypeOK
<1>7. ASSUME NEW w \in Workers, BeginReclaim(w) PROVE TypeOK'
  <2>1. call[w] \in Calls /\ call[w].key \in Keys
    BY <1>7 DEF BeginReclaim, TypeOK
  <2>2. CASE call' = [call EXCEPT ![w].attempt = attempt[call[w].key] + 1]
             /\ pc' = [pc EXCEPT ![w] = "effect"]
    <3>1. attempt[call[w].key] + 1 \in Nat
      BY <2>1 DEF TypeOK
    <3>2. /\ call' \in [Workers -> Calls]
          /\ \A v \in Workers : call'[v].key = call[v].key
      BY <2>2, <3>1, AttemptUpdate
    <3>3. call[w].hash \in Hashes \union {NoHash}
      BY <2>1, CallFields
    <3>4. pc' \in [Workers -> {"idle", "begin", "effect", "commit", "fail"}]
          /\ (\A v \in Workers : pc'[v] # "idle" => pc[v] # "idle")
      BY <1>7, <2>2 DEF BeginReclaim, TypeOK
    <3>5. snap' \in [Workers -> Snaps]
      BY <1>7, EmptyTypes DEF BeginReclaim, Idle, TypeOK
    <3>6. /\ status' \in [Keys -> Statuses \union {Absent}]
          /\ attempt' \in [Keys -> Nat]
          /\ input' \in [Keys -> Hashes \union {NoHash}]
          /\ output' \in [Keys -> Outputs \union {NoHash}]
      BY <1>7, <3>1, <3>3 DEF BeginReclaim, TypeOK, stepVars, Statuses
    <3> QED
      BY <1>7, <3>2, <3>4, <3>5, <3>6 DEF BeginReclaim, leaseVars, TypeOK
  <2>3. CASE Idle(w) /\ UNCHANGED stepVars
    BY <1>7, <2>3, IdleType DEF BeginReclaim, leaseVars, stepVars, TypeOK
  <2> QED
    BY <1>7, <2>2, <2>3 DEF BeginReclaim
<1>8. ASSUME NEW w \in Workers, RunEffect(w) PROVE TypeOK'
  <2>1. /\ call' \in [Workers -> Calls]
        /\ \A v \in Workers : call'[v].key = call[v].key
    BY <1>8, ResultUpdate DEF RunEffect, TypeOK
  <2> QED
    BY <1>8, <2>1 DEF RunEffect, leaseVars, stepVars, TypeOK
<1>9. ASSUME NEW w \in Workers, Commit(w) PROVE TypeOK'
  <2>1. CASE Idle(w) /\ Checkpoint(call[w].key, "SUCCEEDED", call[w].result)
    BY <1>9, <2>1, IdleType, CallFields DEF Commit, Checkpoint, leaseVars, TypeOK, Statuses
  <2>2. CASE UNCHANGED <<stepVars, call, snap, answers>>
    BY <1>9, <2>2 DEF Commit, Idle, Checkpoint, leaseVars, stepVars, TypeOK
  <2> QED
    BY <1>9, <2>1, <2>2 DEF Commit
<1>10. ASSUME NEW w \in Workers, Fail(w) PROVE TypeOK'
  BY <1>10, IdleType DEF Fail, Checkpoint, leaseVars, stepVars, TypeOK, Statuses
<1>11. ASSUME NEW w \in Workers, NEW k \in Keys, NEW t \in Terminal,
              NEW f \in {held[w], NoHandle}, CloseStep(w, k, t, f)
       PROVE TypeOK'
  BY <1>11 DEF CloseStep, Checkpoint, Terminal, leaseVars, TypeOK, Statuses
<1>12. ASSUME Tick PROVE TypeOK'
  BY <1>12 DEF Tick, leaseVars, stepVars, TypeOK
<1>13. ASSUME NEW w \in Workers, Crash(w) PROVE TypeOK'
  BY <1>13, IdleType, EmptyTypes DEF Crash, leaseVars, stepVars, TypeOK
<1>14. ASSUME NEW k \in Keys, DeadLetterStep(k) PROVE TypeOK'
  BY <1>14 DEF DeadLetterStep, leaseVars, TypeOK, Statuses
<1>15. CASE UNCHANGED vars
  BY <1>15 DEF vars, leaseVars, stepVars, TypeOK
<1> QED
  BY <1>1, <1>2, <1>3, <1>4, <1>5, <1>6, <1>7, <1>8, <1>9, <1>10, <1>11, <1>12, <1>13,
     <1>14, <1>15
  DEF Next, LeaseStep, BeginStep, CheckpointStep, Environment

(* The type invariant is inductive on its own. *)
THEOREM TypeCorrect == Spec => []TypeOK
<1>1. Init => TypeOK
  BY StepAssumption, EmptyTypes DEF Init, TypeOK, NoToken
<1>2. TypeOK /\ [Next]_vars => TypeOK'
  BY TypeStep
<1> QED
  BY <1>1, <1>2, PTL DEF Spec

-----------------------------------------------------------------------------
(* Fencing, for deployments in which every call presents the lease of its   *)
(* own step type.                                                           *)

(* Tokens are drawn from one sequence, so no two workers hold the same one, *)
(* and no lease row carries a token that was not drawn.                     *)
TokensUnique ==
    /\ \A lk \in LeaseKeys : leaseTok[lk] <= seq
    /\ \A w \in Workers : held[w].token <= seq
    /\ \A w \in Workers : held[w] # NoHandle => held[w].token # NoToken
    /\ \A v, w \in Workers : v # w /\ held[v] # NoHandle => held[v].token # held[w].token

(* A call in progress presents the handle its worker still holds, on the    *)
(* resource key of its own step.                                            *)
FenceIsHeld ==
    \A w \in Workers : pc[w] # "idle" =>
        /\ held[w] # NoHandle /\ call[w].fence = held[w]
        /\ held[w].key = LeaseOf[call[w].key]

(* The row of an attempt in execution exists. *)
ClaimedRowExists ==
    \A w \in Workers : pc[w] \in {"effect", "commit", "fail"} => status[call[w].key] # Absent

FencingInv ==
    TypeOK /\ TokensUnique /\ FenceIsHeld /\ ClaimedRowExists /\ FencedCommitIsLatestAttempt

(* A step keeps the invariant when it touches neither leases, handles nor   *)
(* attempts, and every call in execution after it was one before it.        *)
LEMMA FencingFrame ==
    ASSUME FencingInv, TypeOK',
           UNCHANGED <<leaseVars, held, attempt>>,
           \A k \in Keys : status[k] # Absent => status'[k] # Absent,
           \A w \in Workers :
              \/ pc'[w] = "idle"
              \/ /\ pc[w] # "idle" /\ call'[w].key = call[w].key
                 /\ call'[w].fence = call[w].fence /\ call'[w].attempt = call[w].attempt
                 /\ pc'[w] \in {"effect", "commit", "fail"} => pc[w] \in {"effect", "commit", "fail"}
    PROVE  FencingInv'
<1>1. TokensUnique'
  BY DEF FencingInv, TokensUnique, leaseVars
<1>2. FenceIsHeld'
  BY DEF FencingInv, FenceIsHeld
<1>3. ClaimedRowExists'
  BY DEF FencingInv, ClaimedRowExists, TypeOK
<1>4. FencedCommitIsLatestAttempt'
  BY DEF FencingInv, FencedCommitIsLatestAttempt, Executing, Current, leaseVars
<1> QED
  BY <1>1, <1>2, <1>3, <1>4 DEF FencingInv

(* Leases move only by Acquire and Release, both taken by an idle worker:   *)
(* Acquire draws a token above every token in use, so a superseded holder   *)
(* is never current again.                                                  *)
LEMMA FencingLease ==
    ASSUME FencingInv, TypeOK', LeaseStep
    PROVE  FencingInv'
<1>1. PICK w \in Workers : Release(w) \/ \E lk \in LeaseKeys : Acquire(w, lk)
  BY DEF LeaseStep
<1>2. pc[w] = "idle" /\ UNCHANGED <<pc, call, status, attempt>>
      /\ \A v \in Workers \ {w} : held'[v] = held[v]
  BY <1>1 DEF Release, Acquire, stepVars, FencingInv, TypeOK
<1>3. FenceIsHeld' /\ ClaimedRowExists'
  BY <1>2 DEF FencingInv, FenceIsHeld, ClaimedRowExists
<1>4. TokensUnique'
  <2>1. CASE Release(w)
    BY <2>1 DEF Release, FencingInv, TokensUnique, TypeOK, NoHandle, NoToken
  <2>2. ASSUME NEW lk \in LeaseKeys, Acquire(w, lk) PROVE TokensUnique'
    BY <2>2 DEF Acquire, FencingInv, TokensUnique, TypeOK, NoHandle, NoToken, Handles
  <2> QED
    BY <1>1, <2>1, <2>2
<1>5. \A lk \in LeaseKeys, t \in Nat : t <= seq /\ Current(lk, t)' => Current(lk, t)
  BY <1>1 DEF Release, Acquire, Current, FencingInv, TypeOK
<1>6. FencedCommitIsLatestAttempt'
  <2> SUFFICES ASSUME NEW v \in Workers, Executing(v)',
                      Current(call[v].fence.key, call[v].fence.token)'
               PROVE  call[v].attempt = attempt[call[v].key]
    BY <1>2 DEF FencedCommitIsLatestAttempt
  <2>1. Executing(v) /\ pc[v] # "idle"
    BY <1>2 DEF Executing
  <2>2. call[v].key \in Keys /\ call[v].fence = held[v] /\ held[v].key = LeaseOf[call[v].key]
    BY <2>1 DEF FencingInv, FenceIsHeld, TypeOK
  <2>3. held[v].key \in LeaseKeys /\ held[v].token \in Nat /\ held[v].token <= seq
    BY <2>2, StepAssumption DEF FencingInv, TokensUnique, TypeOK, Handles
  <2>4. Current(call[v].fence.key, call[v].fence.token)
    BY <1>2, <1>5, <2>2, <2>3
  <2> QED
    BY <2>1, <2>4 DEF FencingInv, FencedCommitIsLatestAttempt
<1> QED
  BY <1>3, <1>4, <1>6 DEF FencingInv

(* Claiming an attempt: the new claimant's token is current, and tokens are *)
(* unique, so nobody else executing the same step still passes its fence.   *)
LEMMA FencingClaim ==
    ASSUME FencingInv, TypeOK', ~AllowBare, ~AllowForeign,
           NEW w \in Workers, BeginInsert(w) \/ BeginReclaim(w)
    PROVE  FencingInv'
<1> DEFINE k == call[w].key
<1>1. k \in Keys /\ pc[w] = "begin" /\ UNCHANGED <<leaseVars, held>>
  BY DEF FencingInv, TypeOK, BeginInsert, BeginReclaim
<1>2. CASE UNCHANGED stepVars /\ (Idle(w) \/ UNCHANGED <<pc, call>>)
  <2>1. \A v \in Workers : pc'[v] = "idle" \/ (pc'[v] = pc[v] /\ call'[v] = call[v])
    BY <1>2 DEF Idle, FencingInv, TypeOK
  <2>2. UNCHANGED <<leaseVars, held, attempt>> /\ status' = status
    BY <1>1, <1>2 DEF stepVars
  <2>3. \A v \in Workers :
              \/ pc'[v] = "idle"
              \/ /\ pc[v] # "idle" /\ call'[v].key = call[v].key
                 /\ call'[v].fence = call[v].fence /\ call'[v].attempt = call[v].attempt
                 /\ pc'[v] \in {"effect", "commit", "fail"} => pc[v] \in {"effect", "commit", "fail"}
    BY <2>1
  <2> QED
    BY <2>2, <2>3, FencingFrame
<1>3. CASE /\ pc' = [pc EXCEPT ![w] = "effect"] /\ status' = [status EXCEPT ![k] = "RUNNING"]
           /\ \/ status[k] = Absent /\ attempt' = [attempt EXCEPT ![k] = 1]
                 /\ call' = [call EXCEPT ![w].attempt = 1]
              \/ ReclaimGuard(w) /\ attempt' = [attempt EXCEPT ![k] = @ + 1]
                 /\ call' = [call EXCEPT ![w].attempt = attempt[k] + 1]
  <2>0. call \in [Workers -> Calls] /\ call' \in [Workers -> Calls]
    BY DEF FencingInv, TypeOK
  <2>1. \A v \in Workers : call'[v].key = call[v].key /\ call'[v].fence = call[v].fence
    BY <1>3, <2>0 DEF Calls
  <2>2. \A v \in Workers : v # w => call'[v] = call[v] /\ pc'[v] = pc[v]
    BY <1>3, <2>0 DEF FencingInv, TypeOK
  <2>3. call'[w].attempt = attempt'[k]
    BY <1>1, <1>3, <2>0 DEF Calls, FencingInv, TypeOK
  <2>4. TokensUnique'
    BY <1>1 DEF FencingInv, TokensUnique, leaseVars
  <2>5. FenceIsHeld'
    BY <1>1, <2>1, <2>2 DEF FencingInv, FenceIsHeld
  <2>6. ClaimedRowExists'
    BY <1>1, <1>3, <2>1, <2>2, StepAssumption DEF FencingInv, ClaimedRowExists, TypeOK, Statuses
  <2>7. FencedCommitIsLatestAttempt'
    <3> SUFFICES ASSUME NEW v \in Workers, Executing(v)',
                        Current(call[v].fence.key, call[v].fence.token)'
                 PROVE  call'[v].attempt = attempt'[call[v].key]
      BY <2>1 DEF FencedCommitIsLatestAttempt
    <3>1. CASE v = w
      BY <2>3, <3>1
    <3>2. CASE v # w
      <4>1. Executing(v) /\ Current(call[v].fence.key, call[v].fence.token) /\ pc[v] # "idle"
        BY <1>1, <2>2, <3>2 DEF Executing, Current, leaseVars
      <4>2. call[v].attempt = attempt[call[v].key]
        BY <4>1 DEF FencingInv, FencedCommitIsLatestAttempt
      <4>3. call[v].key # k
        <5> SUFFICES ASSUME call[v].key = k PROVE FALSE
          OBVIOUS
        <5>1. ~(status[k] = Absent)
          BY <4>1 DEF FencingInv, ClaimedRowExists, Executing
        <5>2. held[v].key = LeaseOf[k] /\ held[w].key = LeaseOf[k] /\ held[v].token # held[w].token
              /\ call[v].fence = held[v] /\ call[w].fence = held[w] /\ held[w] # NoHandle
          BY <1>1, <3>2, <4>1 DEF FencingInv, FenceIsHeld, TokensUnique
        <5>3. Current(held[w].key, held[w].token)
          BY <1>3, <5>1, <5>2 DEF ReclaimGuard, FencePasses
        <5> QED
          BY <4>1, <5>2, <5>3 DEF Current
      <4>4. attempt'[call[v].key] = attempt[call[v].key]
        BY <1>3, <4>1, <4>3 DEF FencingInv, TypeOK
      <4> QED
        BY <2>2, <3>2, <4>2, <4>4
    <3> QED
      BY <3>1, <3>2
  <2> QED
    BY <2>4, <2>5, <2>6, <2>7 DEF FencingInv
<1> QED
  BY <1>2, <1>3 DEF BeginInsert, BeginReclaim

LEMMA FencingInit == Init => FencingInv
<1>1. Init => TypeOK
  BY StepAssumption, EmptyTypes DEF Init, TypeOK, NoToken
<1> QED
  BY <1>1 DEF Init, FencingInv, TokensUnique, FenceIsHeld, ClaimedRowExists,
     FencedCommitIsLatestAttempt, Executing, NoHandle, NoToken

(* Every step of the runtime keeps the fencing invariant. *)
LEMMA FencingStep ==
    ASSUME ~AllowBare, ~AllowForeign, FencingInv, [Next]_vars
    PROVE  FencingInv'
<1>0. TypeOK'
  BY TypeStep DEF FencingInv
<1>1. CASE LeaseStep
  BY <1>0, <1>1, FencingLease
<1>2. ASSUME NEW w \in Workers, NEW k \in Keys, NEW h \in Hashes \union {NoHash},
             NEW f \in {held[w], NoHandle}, BeginRead(w, k, h, f)
      PROVE  FencingInv'
  <2>1. f = held[w] /\ f # NoHandle /\ f.key = LeaseOf[k]
    BY <1>2 DEF BeginRead, Fences
  <2>2. pc'[w] = "begin" /\ call'[w].key = k /\ call'[w].fence = held[w]
    BY <1>2, <2>1 DEF BeginRead, FencingInv, TypeOK, NoCall
  <2>3. \A v \in Workers : v # w => pc'[v] = pc[v] /\ call'[v] = call[v]
    BY <1>2 DEF BeginRead, FencingInv, TypeOK
  <2>4. UNCHANGED <<leaseVars, stepVars, held>>
    BY <1>2 DEF BeginRead
  <2>5. TokensUnique'
    BY <2>4 DEF FencingInv, TokensUnique, leaseVars
  <2>6. FenceIsHeld' /\ ClaimedRowExists'
    BY <2>1, <2>2, <2>3, <2>4 DEF FencingInv, FenceIsHeld, ClaimedRowExists, stepVars
  <2>7. FencedCommitIsLatestAttempt'
    BY <2>2, <2>3, <2>4
    DEF FencingInv, FencedCommitIsLatestAttempt, Executing, Current, leaseVars, stepVars
  <2> QED
    BY <1>0, <2>5, <2>6, <2>7 DEF FencingInv
<1>3. ASSUME NEW w \in Workers, BeginInsert(w) \/ BeginReclaim(w) PROVE FencingInv'
  BY <1>0, <1>3, FencingClaim
<1>4. ASSUME NEW w \in Workers, BeginRefuse(w) \/ BeginReplay(w) \/ Fail(w)
      PROVE  FencingInv'
  BY <1>0, <1>4, StepAssumption, FencingFrame
  DEF BeginRefuse, BeginReplay, Fail, Checkpoint, Idle, stepVars, FencingInv, TypeOK, Statuses
<1>5. ASSUME NEW w \in Workers, RunEffect(w) PROVE FencingInv'
  <2>1. \A v \in Workers : /\ call'[v].key = call[v].key /\ call'[v].fence = call[v].fence
                           /\ call'[v].attempt = call[v].attempt
    BY <1>5 DEF RunEffect, FencingInv, TypeOK, Calls
  <2> QED
    BY <1>0, <1>5, <2>1, FencingFrame DEF RunEffect, stepVars, FencingInv, TypeOK
<1>6. ASSUME NEW w \in Workers, Commit(w) PROVE FencingInv'
  BY <1>0, <1>6, StepAssumption, FencingFrame
  DEF Commit, Checkpoint, Idle, stepVars, FencingInv, TypeOK, Statuses
<1>7. ASSUME NEW w \in Workers, NEW k \in Keys, NEW t \in Terminal,
             NEW f \in {held[w], NoHandle}, CloseStep(w, k, t, f)
      PROVE FencingInv'
  BY <1>0, <1>7, StepAssumption, FencingFrame
  DEF CloseStep, Checkpoint, FencingInv, TypeOK, Statuses, Terminal
<1>8. CASE Tick
  BY <1>0, <1>8, FencingFrame DEF Tick, stepVars
<1>9. ASSUME NEW w \in Workers, Crash(w) PROVE FencingInv'
  <2>1. UNCHANGED <<leaseVars, stepVars>> /\ held'[w] = NoHandle /\ pc'[w] = "idle"
    BY <1>9 DEF Crash, Idle, FencingInv, TypeOK
  <2>2. \A v \in Workers : v # w => pc'[v] = pc[v] /\ call'[v] = call[v] /\ held'[v] = held[v]
    BY <1>9 DEF Crash, Idle, FencingInv, TypeOK
  <2>3. TokensUnique'
    BY <2>1, <2>2 DEF FencingInv, TokensUnique, leaseVars, NoHandle, NoToken, TypeOK
  <2>4. FenceIsHeld' /\ ClaimedRowExists'
    BY <2>1, <2>2 DEF FencingInv, FenceIsHeld, ClaimedRowExists, stepVars
  <2>5. FencedCommitIsLatestAttempt'
    BY <2>1, <2>2
    DEF FencingInv, FencedCommitIsLatestAttempt, Executing, Current, leaseVars, stepVars
  <2> QED
    BY <1>0, <2>3, <2>4, <2>5 DEF FencingInv
<1>10. ASSUME NEW k \in Keys, DeadLetterStep(k) PROVE FencingInv'
  BY <1>0, <1>10, StepAssumption, FencingFrame DEF DeadLetterStep, FencingInv, TypeOK, Statuses
<1>11. CASE UNCHANGED vars
  BY <1>0, <1>11, FencingFrame DEF vars, stepVars
<1> QED
  BY <1>1, <1>2, <1>3, <1>4, <1>5, <1>6, <1>7, <1>8, <1>9, <1>10, <1>11
  DEF Next, BeginStep, CheckpointStep, Environment

(* Fencing (AC-012), for every number of workers and every clock skew: when *)
(* all callers present the lease of their own step type, the checkpoint of  *)
(* steps.ts that passes its fence belongs to the latest attempt.            *)
THEOREM FencedCommits ==
    ASSUME ~AllowBare, ~AllowForeign
    PROVE  Spec => []FencedCommitIsLatestAttempt
<1>1. FencingInv /\ [Next]_vars => FencingInv'
  BY FencingStep
<1>2. FencingInv => FencedCommitIsLatestAttempt
  BY DEF FencingInv
<1> QED
  BY <1>1, <1>2, FencingInit, PTL DEF Spec

-----------------------------------------------------------------------------
(* Completed history and idempotent replay, for callers of every kind.      *)

(* One step leaves every column of a terminal row alone: the insert needs   *)
(* an absent row, the re-claim re-checks the status it read, a checkpoint   *)
(* needs a legal transition and a dead letter an open step.                 *)
LEMMA TerminalStep ==
    ASSUME TypeOK, [Next]_vars, NEW k \in Keys, status[k] \in Terminal
    PROVE  <<status[k], attempt[k], input[k], output[k]>>' =
           <<status[k], attempt[k], input[k], output[k]>>
<1> USE StepAssumption DEF TypeOK, Terminal, Statuses
<1>1. CASE LeaseStep
  BY <1>1 DEF LeaseStep, Release, Acquire, stepVars
<1>2. CASE BeginStep
  <2>1. PICK w \in Workers :
          \/ UNCHANGED stepVars
          \/ BeginInsert(w)
          \/ BeginReclaim(w)
    BY <1>2 DEF BeginStep, BeginRead, BeginRefuse, BeginReplay
  <2>2. CASE BeginInsert(w)
    BY <2>2 DEF BeginInsert, stepVars
  <2>3. CASE BeginReclaim(w)
    BY <2>3 DEF BeginReclaim, ReclaimGuard, stepVars
  <2> QED
    BY <2>1, <2>2, <2>3 DEF stepVars
<1>3. CASE CheckpointStep
  BY <1>3 DEF CheckpointStep, RunEffect, Commit, Fail, CloseStep, CheckpointGuard, MayMove,
     Checkpoint, stepVars
<1>4. CASE Environment
  BY <1>4 DEF Environment, Tick, Crash, DeadLetterStep, stepVars
<1>5. CASE UNCHANGED vars
  BY <1>5 DEF vars, stepVars
<1> QED
  BY <1>1, <1>2, <1>3, <1>4, <1>5 DEF Next

(* Completed history is never rewritten, whatever fences the callers of     *)
(* steps.ts present.                                                        *)
THEOREM HistoryFrozen == Spec => TerminalRowsFrozen
<1>1. TypeOK /\ [Next]_vars =>
        [\A k \in Keys : status[k] \in Terminal =>
            <<status[k], attempt[k], input[k], output[k]>>' =
            <<status[k], attempt[k], input[k], output[k]>>]_vars
  BY TerminalStep
<1> QED
  BY <1>1, TypeCorrect, PTL DEF Spec, TerminalRowsFrozen

(* A copy that shows SUCCEEDED still shows the row: the row is frozen. *)
SnapshotsOfSuccessHold ==
    \A w \in Workers : pc[w] = "begin" /\ snap[w].status = "SUCCEEDED" =>
        status[call[w].key] = "SUCCEEDED" /\ output[call[w].key] = snap[w].output

AnswerInv == TypeOK /\ OneAnswerPerKey /\ SnapshotsOfSuccessHold

(* A step that records no answer and takes no copy keeps the invariant. *)
LEMMA AnswerFrame ==
    ASSUME AnswerInv, TypeOK', [Next]_vars, answers' = answers,
           \A w \in Workers : pc'[w] # "begin" \/
              (pc[w] = "begin" /\ call'[w].key = call[w].key /\ snap'[w] = snap[w])
    PROVE  AnswerInv'
<1>1. \A k \in Keys : status[k] = "SUCCEEDED" =>
         status'[k] = "SUCCEEDED" /\ output'[k] = output[k]
  BY TerminalStep DEF AnswerInv, Terminal
<1>2. OneAnswerPerKey'
  BY <1>1 DEF AnswerInv, OneAnswerPerKey
<1>3. SnapshotsOfSuccessHold'
  BY <1>1 DEF AnswerInv, SnapshotsOfSuccessHold, TypeOK
<1> QED
  BY <1>2, <1>3 DEF AnswerInv

(* A worker that reads the row takes a copy that agrees with it. *)
LEMMA AnswerRead ==
    ASSUME AnswerInv, TypeOK', [Next]_vars, answers' = answers, UNCHANGED stepVars,
           NEW w \in Workers, pc[w] # "begin" \/ call'[w].key = call[w].key,
           call'[w].key \in Keys, snap'[w] = RowOf(call'[w].key),
           \A v \in Workers : v # w =>
              pc'[v] = pc[v] /\ call'[v] = call[v] /\ snap'[v] = snap[v]
    PROVE  AnswerInv'
<1>1. OneAnswerPerKey'
  BY DEF AnswerInv, OneAnswerPerKey, stepVars
<1>2. SnapshotsOfSuccessHold'
  BY DEF AnswerInv, SnapshotsOfSuccessHold, RowOf, stepVars
<1> QED
  BY <1>1, <1>2 DEF AnswerInv

(* Every answer of runStepOnce for one key is the output of its one         *)
(* SUCCEEDED row, executed or replayed, by any worker.                      *)
THEOREM SameAnswer == Spec => []OneAnswerPerKey
<1>1. Init => AnswerInv
  <2>1. Init => TypeOK
    BY StepAssumption, EmptyTypes DEF Init, TypeOK, NoToken
  <2> QED
    BY <2>1 DEF Init, AnswerInv, OneAnswerPerKey, SnapshotsOfSuccessHold
<1>2. AnswerInv /\ [Next]_vars => AnswerInv'
  <2> SUFFICES ASSUME AnswerInv, [Next]_vars PROVE AnswerInv'
    OBVIOUS
  <2>0. TypeOK'
    BY TypeStep DEF AnswerInv
  <2>1. CASE LeaseStep
    BY <2>0, <2>1, AnswerFrame DEF LeaseStep, Release, Acquire
  <2>2. ASSUME NEW w \in Workers, NEW k \in Keys, NEW h \in Hashes \union {NoHash},
               NEW f \in {held[w], NoHandle}, BeginRead(w, k, h, f)
        PROVE  AnswerInv'
    <3>1. call'[w].key = k /\ pc[w] = "idle" /\ snap'[w] = RowOf(k)
      BY <2>2 DEF BeginRead, AnswerInv, TypeOK, NoCall
    <3> QED
      BY <2>0, <2>2, <3>1, AnswerRead DEF BeginRead, AnswerInv, TypeOK
  <2>3. ASSUME NEW w \in Workers, BeginInsert(w) PROVE AnswerInv'
    <3>1. CASE call' = call
      BY <2>0, <2>3, <3>1, AnswerRead, AnswerFrame DEF BeginInsert, AnswerInv, TypeOK
    <3>2. CASE pc' = [pc EXCEPT ![w] = "effect"] /\ call' = [call EXCEPT ![w].attempt = 1]
               /\ snap' = snap
      BY <2>0, <2>3, <3>2, AnswerFrame DEF BeginInsert, AnswerInv, TypeOK
    <3> QED
      BY <2>3, <3>1, <3>2 DEF BeginInsert
  <2>4. ASSUME NEW w \in Workers, BeginReplay(w) PROVE AnswerInv'
    <3> DEFINE k == call[w].key
    <3>1. k \in Keys /\ status[k] = "SUCCEEDED" /\ output[k] = snap[w].output
      BY <2>4 DEF BeginReplay, AnswerInv, SnapshotsOfSuccessHold, TypeOK
    <3>2. OneAnswerPerKey'
      BY <2>4, <3>1 DEF BeginReplay, AnswerInv, OneAnswerPerKey, TypeOK, stepVars
    <3>3. SnapshotsOfSuccessHold'
      BY <2>4 DEF BeginReplay, Idle, AnswerInv, SnapshotsOfSuccessHold, TypeOK, stepVars
    <3> QED
      BY <2>0, <3>2, <3>3 DEF AnswerInv
  <2>5. ASSUME NEW w \in Workers, BeginReclaim(w) PROVE AnswerInv'
    <3>1. \A v \in Workers : v # w => pc'[v] = pc[v] /\ call'[v] = call[v] /\ snap'[v] = snap[v]
      BY <2>5 DEF BeginReclaim, Idle, AnswerInv, TypeOK
    <3>2. pc'[w] # "begin" /\ answers' = answers
      BY <2>5 DEF BeginReclaim, Idle, AnswerInv, TypeOK
    <3> QED
      BY <2>0, <3>1, <3>2, AnswerFrame
  <2>6. ASSUME NEW w \in Workers, BeginRefuse(w) \/ Fail(w) \/ Crash(w) PROVE AnswerInv'
    BY <2>0, <2>6, AnswerFrame DEF BeginRefuse, Fail, Crash, Idle, AnswerInv, TypeOK
  <2>7. ASSUME NEW w \in Workers, RunEffect(w) PROVE AnswerInv'
    BY <2>0, <2>7, AnswerFrame DEF RunEffect, AnswerInv, TypeOK
  <2>8. ASSUME NEW w \in Workers, Commit(w) PROVE AnswerInv'
    <3> DEFINE k == call[w].key
    <3>1. CASE answers' = answers
      BY <2>0, <2>8, <3>1, AnswerFrame DEF Commit, Idle, AnswerInv, TypeOK
    <3>2. CASE /\ CheckpointGuard(w, k, call[w].fence, "SUCCEEDED")
               /\ Checkpoint(k, "SUCCEEDED", call[w].result)
               /\ answers' = [answers EXCEPT ![k] = @ \union {call[w].result}]
               /\ Idle(w)
      <4>1. k \in Keys /\ status[k] = "RUNNING"
        BY <2>8, <3>2 DEF Commit, CheckpointGuard, MayMove, AnswerInv, TypeOK
      <4>2. answers[k] = {}
        BY <4>1 DEF AnswerInv, OneAnswerPerKey
      <4>3. OneAnswerPerKey'
        BY <3>2, <4>1, <4>2 DEF Checkpoint, AnswerInv, OneAnswerPerKey, TypeOK
      <4>4. SnapshotsOfSuccessHold'
        BY <3>2, <4>1 DEF Checkpoint, Idle, AnswerInv, SnapshotsOfSuccessHold, TypeOK
      <4> QED
        BY <2>0, <4>3, <4>4 DEF AnswerInv
    <3> QED
      BY <2>8, <3>1, <3>2 DEF Commit
  <2>9. ASSUME NEW w \in Workers, NEW k \in Keys, NEW t \in Terminal,
               NEW f \in {held[w], NoHandle}, CloseStep(w, k, t, f)
        PROVE  AnswerInv'
    BY <2>0, <2>9, AnswerFrame DEF CloseStep
  <2>10. CASE Tick \/ \E k \in Keys : DeadLetterStep(k)
    BY <2>0, <2>10, AnswerFrame DEF Tick, DeadLetterStep
  <2>11. CASE UNCHANGED vars
    BY <2>0, <2>11, AnswerFrame DEF vars
  <2> QED
    BY <2>1, <2>2, <2>3, <2>4, <2>5, <2>6, <2>7, <2>8, <2>9, <2>10, <2>11
    DEF Next, BeginStep, CheckpointStep, Environment
<1>3. AnswerInv => OneAnswerPerKey
  BY DEF AnswerInv
<1> QED
  BY <1>1, <1>2, <1>3, PTL DEF Spec

-----------------------------------------------------------------------------
(* The input of a key, for deployments in which every call presents the     *)
(* lease of its own step type.                                              *)

(* The re-claim compares the caller's hash with the copy it read, and       *)
(* re-checks the status and the fence only.  While the fence would pass the *)
(* copy of input_hash is still the row's: whoever claimed the row since     *)
(* then holds a later token.                                                *)
CopiesAreCurrent ==
    \A w \in Workers : pc[w] = "begin" /\ snap[w].status # Absent =>
        /\ status[call[w].key] # Absent
        /\ Current(call[w].fence.key, call[w].fence.token) => input[call[w].key] = snap[w].input

(* A row that does not exist has no input. *)
AbsentIsEmpty == \A k \in Keys : status[k] = Absent => input[k] = NoHash

HashInv == FencingInv /\ CopiesAreCurrent /\ AbsentIsEmpty

BoundInputs == \A k \in Keys : input[k] # NoHash => input'[k] = input[k]

(* A step that writes no input, takes no copy, moves no lease. *)
LEMMA HashFrame ==
    ASSUME HashInv, FencingInv', UNCHANGED <<leaseVars, input>>,
           \A k \in Keys : status[k] # Absent => status'[k] # Absent,
           \A w \in Workers :
              \/ pc'[w] # "begin"
              \/ pc[w] = "begin" /\ call'[w] = call[w] /\ snap'[w] = snap[w]
    PROVE  HashInv' /\ BoundInputs
<1>1. \A w \in Workers : pc[w] = "begin" => call[w].key \in Keys
  BY DEF HashInv, FencingInv, TypeOK
<1>2. CopiesAreCurrent'
  BY <1>1 DEF HashInv, CopiesAreCurrent, Current, leaseVars
<1>3. AbsentIsEmpty'
  BY DEF HashInv, AbsentIsEmpty
<1> QED
  BY <1>2, <1>3 DEF HashInv, BoundInputs

(* A worker that reads the row takes a copy that agrees with it. *)
LEMMA HashRead ==
    ASSUME HashInv, FencingInv', UNCHANGED <<leaseVars, stepVars>>,
           NEW w \in Workers, snap'[w] = RowOf(call'[w].key),
           \A v \in Workers : v # w =>
              pc'[v] = pc[v] /\ call'[v] = call[v] /\ snap'[v] = snap[v]
    PROVE  HashInv' /\ BoundInputs
<1>1. snap'[w].status = status[call'[w].key] /\ snap'[w].input = input[call'[w].key]
  BY DEF RowOf
<1>2. CopiesAreCurrent'
  BY <1>1 DEF HashInv, CopiesAreCurrent, Current, leaseVars, stepVars
<1>3. AbsentIsEmpty'
  BY DEF HashInv, AbsentIsEmpty, stepVars
<1> QED
  BY <1>2, <1>3 DEF HashInv, BoundInputs, stepVars

(* Leases move under idle workers only, and a token drawn once is never     *)
(* current again after it was superseded.                                   *)
LEMMA HashLease ==
    ASSUME HashInv, FencingInv', LeaseStep
    PROVE  HashInv' /\ BoundInputs
<1>1. PICK w \in Workers : Release(w) \/ \E lk \in LeaseKeys : Acquire(w, lk)
  BY DEF LeaseStep
<1>2. UNCHANGED <<pc, call, snap, stepVars>>
  BY <1>1 DEF Release, Acquire
<1>3. \A lk \in LeaseKeys, t \in Nat : t <= seq /\ Current(lk, t)' => Current(lk, t)
  BY <1>1 DEF Release, Acquire, Current, HashInv, FencingInv, TypeOK
<1>4. ASSUME NEW v \in Workers, pc[v] = "begin",
             Current(call[v].fence.key, call[v].fence.token)'
      PROVE  Current(call[v].fence.key, call[v].fence.token)
  <2>1. call[v].key \in Keys /\ call[v].fence = held[v] /\ held[v].key = LeaseOf[call[v].key]
    BY <1>4 DEF HashInv, FencingInv, FenceIsHeld, TypeOK
  <2>2. held[v].key \in LeaseKeys /\ held[v].token \in Nat /\ held[v].token <= seq
    BY <2>1, StepAssumption DEF HashInv, FencingInv, TokensUnique, TypeOK, Handles
  <2> QED
    BY <1>2, <1>3, <1>4, <2>1, <2>2
<1>5. CopiesAreCurrent'
  BY <1>2, <1>4 DEF HashInv, CopiesAreCurrent, stepVars
<1>6. AbsentIsEmpty' /\ BoundInputs
  BY <1>2 DEF HashInv, AbsentIsEmpty, BoundInputs, stepVars
<1> QED
  BY <1>5, <1>6 DEF HashInv

(* The claims: an insert needs an absent row, which nobody holds a copy of; *)
(* a re-claim's token is current, so the copy it compared its hash with     *)
(* still shows the row's input, and nobody else's fence passes afterwards.  *)
LEMMA HashClaim ==
    ASSUME HashInv, FencingInv', NEW w \in Workers, BeginInsert(w) \/ BeginReclaim(w)
    PROVE  HashInv' /\ BoundInputs
<1>1. PICK k \in Keys : k = call[w].key
  BY DEF HashInv, FencingInv, TypeOK, BeginInsert, BeginReclaim
<1>2. /\ pc[w] = "begin" /\ UNCHANGED <<leaseVars, held>>
      /\ pc \in [Workers -> {"idle", "begin", "effect", "commit", "fail"}]
      /\ status \in [Keys -> Statuses \union {Absent}]
      /\ input \in [Keys -> Hashes \union {NoHash}]
      /\ call \in [Workers -> Calls] /\ snap \in [Workers -> Snaps]
  BY DEF HashInv, FencingInv, TypeOK, BeginInsert, BeginReclaim
<1>3. CASE UNCHANGED stepVars /\ UNCHANGED <<pc, call>> /\ snap' = [snap EXCEPT ![w] = RowOf(k)]
  BY <1>1, <1>2, <1>3, HashRead
<1>4. CASE UNCHANGED stepVars /\ Idle(w)
  BY <1>2, <1>4, HashFrame DEF Idle, stepVars
<1>5. CASE /\ status[k] = Absent /\ status' = [status EXCEPT ![k] = "RUNNING"]
           /\ input' = [input EXCEPT ![k] = call[w].hash] /\ pc' = [pc EXCEPT ![w] = "effect"]
           /\ call' = [call EXCEPT ![w].attempt = 1] /\ snap' = snap
  <2>1. "RUNNING" # Absent
    BY StepAssumption DEF Statuses
  <2>2. \A v \in Workers : v # w => pc'[v] = pc[v] /\ call'[v] = call[v]
    BY <1>2, <1>5
  <2>3. pc'[w] = "effect"
    BY <1>2, <1>5
  <2>4. \A v \in Workers : pc[v] = "begin" /\ snap[v].status # Absent => call[v].key # k
    BY <1>5 DEF HashInv, CopiesAreCurrent
  <2>5. CopiesAreCurrent'
    BY <1>2, <1>5, <2>2, <2>3, <2>4
    DEF HashInv, CopiesAreCurrent, Current, leaseVars, FencingInv, TypeOK
  <2>6. AbsentIsEmpty' /\ BoundInputs
    BY <1>2, <1>5, <2>1 DEF HashInv, AbsentIsEmpty, BoundInputs
  <2> QED
    BY <2>5, <2>6 DEF HashInv
<1>6. CASE /\ snap[w].status \in {"RUNNING", "FAILED_RETRYABLE"} /\ ~HashMismatch(w)
           /\ ReclaimGuard(w) /\ status' = [status EXCEPT ![k] = "RUNNING"]
           /\ input' = [input EXCEPT ![k] = IF call[w].hash # NoHash THEN call[w].hash ELSE @]
           /\ pc' = [pc EXCEPT ![w] = "effect"]
           /\ call' = [call EXCEPT ![w].attempt = attempt[k] + 1] /\ snap' = snap
  <2>1. /\ "RUNNING" # Absent /\ "FAILED_RETRYABLE" # Absent /\ snap[w].status # Absent
    BY <1>6, StepAssumption DEF Statuses
  <2>2. \A v \in Workers : v # w => pc'[v] = pc[v] /\ call'[v] = call[v]
    BY <1>2, <1>6
  <2>3. pc'[w] = "effect"
    BY <1>2, <1>6
  <2>4. /\ held[w] # NoHandle /\ call[w].fence = held[w] /\ held[w].key = LeaseOf[k]
    BY <1>1, <1>2 DEF HashInv, FencingInv, FenceIsHeld
  <2>5. Current(held[w].key, held[w].token)
    BY <1>1, <1>6, <2>4 DEF ReclaimGuard, FencePasses
  <2>6. input[k] = snap[w].input
    BY <1>1, <1>2, <2>1, <2>4, <2>5 DEF HashInv, CopiesAreCurrent
  <2>7. input[k] # NoHash => input'[k] = input[k]
    BY <1>2, <1>6, <2>6 DEF HashMismatch
  <2>8. BoundInputs
    BY <1>2, <1>6, <2>7 DEF BoundInputs
  <2>9. AbsentIsEmpty'
    BY <1>2, <1>6, <2>1 DEF HashInv, AbsentIsEmpty
  <2>10. ASSUME NEW v \in Workers, v # w, pc[v] = "begin", call[v].key = k
         PROVE  ~Current(call[v].fence.key, call[v].fence.token)
    <3>1. call[v].fence = held[v] /\ held[v].key = LeaseOf[k] /\ held[v].token # held[w].token
      BY <2>4, <2>10 DEF HashInv, FencingInv, FenceIsHeld, TokensUnique
    <3> QED
      BY <2>4, <2>5, <3>1 DEF Current
  <2>11. CopiesAreCurrent'
    <3> SUFFICES ASSUME NEW v \in Workers, pc'[v] = "begin", snap'[v].status # Absent
                 PROVE  /\ status'[call'[v].key] # Absent
                        /\ Current(call[v].fence.key, call[v].fence.token)'
                              => input'[call'[v].key] = snap'[v].input
      BY DEF CopiesAreCurrent
    <3>1. v # w /\ pc[v] = "begin" /\ call'[v] = call[v] /\ snap'[v] = snap[v]
      BY <1>6, <2>2, <2>3
    <3>2. call[v].key \in Keys
      BY <3>1 DEF HashInv, FencingInv, TypeOK
    <3>3. status'[call[v].key] # Absent
      BY <1>2, <1>6, <2>1, <3>1, <3>2 DEF HashInv, CopiesAreCurrent
    <3>4. CASE call[v].key = k
      <4>1. ~Current(call[v].fence.key, call[v].fence.token)
        BY <2>10, <3>1, <3>4
      <4> QED
        BY <1>2, <3>1, <3>3, <4>1 DEF Current, leaseVars
    <3>5. CASE call[v].key # k
      <4>1. input'[call[v].key] = input[call[v].key]
        BY <1>2, <1>6, <3>2, <3>5
      <4> QED
        BY <1>2, <3>1, <3>3, <4>1 DEF HashInv, CopiesAreCurrent, Current, leaseVars
    <3> QED
      BY <3>4, <3>5
  <2> QED
    BY <2>8, <2>9, <2>11 DEF HashInv
<1> QED
  BY <1>1, <1>3, <1>4, <1>5, <1>6 DEF BeginInsert, BeginReclaim

LEMMA HashStep ==
    ASSUME ~AllowBare, ~AllowForeign, HashInv, [Next]_vars
    PROVE  HashInv' /\ BoundInputs
<1>0. FencingInv' /\ TypeOK
  BY FencingStep DEF HashInv, FencingInv
<1>1. CASE LeaseStep
  BY <1>0, <1>1, HashLease
<1>2. ASSUME NEW w \in Workers, NEW k \in Keys, NEW h \in Hashes \union {NoHash},
             NEW f \in {held[w], NoHandle}, BeginRead(w, k, h, f)
      PROVE  HashInv' /\ BoundInputs
  <2>1. call'[w].key = k /\ snap'[w] = RowOf(k)
    BY <1>0, <1>2 DEF BeginRead, TypeOK, NoCall
  <2> QED
    BY <1>0, <1>2, <2>1, HashRead DEF BeginRead, TypeOK
<1>3. ASSUME NEW w \in Workers, BeginInsert(w) \/ BeginReclaim(w) PROVE HashInv' /\ BoundInputs
  BY <1>0, <1>3, HashClaim
<1>4. ASSUME NEW w \in Workers, BeginRefuse(w) \/ BeginReplay(w) \/ Fail(w) \/ Commit(w) \/ Crash(w)
      PROVE  HashInv' /\ BoundInputs
  <2>1. \A v \in Workers :
            \/ pc'[v] # "begin"
            \/ pc[v] = "begin" /\ call'[v] = call[v] /\ snap'[v] = snap[v]
    BY <1>0, <1>4 DEF BeginRefuse, BeginReplay, Fail, Commit, Crash, Idle, TypeOK
  <2>2. UNCHANGED <<leaseVars, input>>
    BY <1>4 DEF BeginRefuse, BeginReplay, Fail, Commit, Crash, Checkpoint, stepVars
  <2>3. \A k \in Keys : status[k] # Absent => status'[k] # Absent
    BY <1>0, <1>4, StepAssumption
    DEF BeginRefuse, BeginReplay, Fail, Commit, Crash, Checkpoint, stepVars, TypeOK, Statuses
  <2> QED
    BY <1>0, <2>1, <2>2, <2>3, HashFrame
<1>5. ASSUME NEW w \in Workers, RunEffect(w) PROVE HashInv' /\ BoundInputs
  <2>1. \A v \in Workers :
            \/ pc'[v] # "begin"
            \/ pc[v] = "begin" /\ call'[v] = call[v] /\ snap'[v] = snap[v]
    BY <1>0, <1>5 DEF RunEffect, TypeOK
  <2> QED
    BY <1>0, <1>5, <2>1, HashFrame DEF RunEffect, stepVars
<1>6. ASSUME NEW w \in Workers, NEW k \in Keys, NEW t \in Terminal,
             NEW f \in {held[w], NoHandle}, CloseStep(w, k, t, f)
      PROVE  HashInv' /\ BoundInputs
  BY <1>0, <1>6, StepAssumption, HashFrame DEF CloseStep, Checkpoint, TypeOK, Statuses, Terminal
<1>7. CASE Tick
  BY <1>0, <1>7, HashFrame DEF Tick, stepVars
<1>8. ASSUME NEW k \in Keys, DeadLetterStep(k) PROVE HashInv' /\ BoundInputs
  BY <1>0, <1>8, StepAssumption, HashFrame DEF DeadLetterStep, TypeOK, Statuses
<1>9. CASE UNCHANGED vars
  BY <1>0, <1>9, HashFrame DEF vars, stepVars
<1> QED
  BY <1>1, <1>2, <1>3, <1>4, <1>5, <1>6, <1>7, <1>8, <1>9
  DEF Next, BeginStep, CheckpointStep, Environment

(* A key stays bound to its first input, for any number of workers, keys    *)
(* and hashes and any skew, when every caller presents the lease of its own *)
(* step type: beginStep compares hashes on a copy that may be old, and the  *)
(* fence of the re-claiming UPDATE makes up for it.                         *)
THEOREM InputStaysBound ==
    ASSUME ~AllowBare, ~AllowForeign
    PROVE  Spec => InputHashBound
<1>1. Init => HashInv
  BY FencingInit DEF Init, HashInv, CopiesAreCurrent, AbsentIsEmpty
<1>2. HashInv /\ [Next]_vars => HashInv' /\ BoundInputs
  BY HashStep
<1>3. HashInv /\ [Next]_vars =>
         [\A k \in Keys : input[k] # NoHash => input'[k] = input[k]]_vars
  BY <1>2 DEF BoundInputs
<1> QED
  BY <1>1, <1>2, <1>3, PTL DEF Spec, InputHashBound

-----------------------------------------------------------------------------
(* Live leases, for callers with and without fences whose clocks agree.     *)

(* A fence in use is the handle its worker still holds, on the key of its   *)
(* own step.                                                                *)
FenceIsOwn ==
    \A w \in Workers : pc[w] # "idle" /\ call[w].fence # NoHandle =>
        call[w].fence = held[w] /\ held[w].key = LeaseOf[call[w].key]

LEMMA OwnFenceStep ==
    ASSUME ~AllowForeign, TypeOK, FenceIsOwn, [Next]_vars
    PROVE  FenceIsOwn'
<1>1. ASSUME NEW w \in Workers, Release(w) \/ \E lk \in LeaseKeys : Acquire(w, lk)
      PROVE  FenceIsOwn'
  <2>1. pc[w] = "idle" /\ UNCHANGED <<pc, call>> /\ \A v \in Workers : v # w => held'[v] = held[v]
    BY <1>1 DEF Release, Acquire, TypeOK
  <2> QED
    BY <2>1 DEF FenceIsOwn
<1>2. ASSUME NEW w \in Workers, NEW k \in Keys, NEW h \in Hashes \union {NoHash},
             NEW f \in {held[w], NoHandle}, BeginRead(w, k, h, f)
      PROVE  FenceIsOwn'
  <2>1. f = NoHandle \/ (f = held[w] /\ f.key = LeaseOf[k])
    BY <1>2 DEF BeginRead, Fences
  <2>2. call'[w].key = k /\ call'[w].fence = f /\ held' = held
    BY <1>2 DEF BeginRead, TypeOK, NoCall
  <2>3. \A v \in Workers : v # w => pc'[v] = pc[v] /\ call'[v] = call[v]
    BY <1>2 DEF BeginRead, TypeOK
  <2> QED
    BY <2>1, <2>2, <2>3 DEF FenceIsOwn
<1>3. ASSUME NEW w \in Workers, BeginInsert(w) \/ BeginReclaim(w) \/ RunEffect(w)
      PROVE  FenceIsOwn'
  <2>1. \A v \in Workers : /\ pc'[v] # "idle" => pc[v] # "idle"
                           /\ \/ pc'[v] = "idle"
                              \/ call'[v].key = call[v].key /\ call'[v].fence = call[v].fence
    BY <1>3 DEF BeginInsert, BeginReclaim, RunEffect, Idle, TypeOK, Calls
  <2>2. held' = held
    BY <1>3 DEF BeginInsert, BeginReclaim, RunEffect
  <2> QED
    BY <2>1, <2>2 DEF FenceIsOwn
<1>4. ASSUME NEW w \in Workers, BeginRefuse(w) \/ BeginReplay(w) \/ Fail(w) \/ Commit(w) \/ Crash(w)
      PROVE  FenceIsOwn'
  <2>1. \A v \in Workers :
            pc'[v] = "idle" \/ (pc[v] # "idle" /\ call'[v] = call[v] /\ held'[v] = held[v])
    BY <1>4 DEF BeginRefuse, BeginReplay, Fail, Commit, Crash, Idle, TypeOK
  <2> QED
    BY <2>1 DEF FenceIsOwn
<1>5. CASE \/ \E w \in Workers, k \in Keys, t \in Terminal : \E f \in {held[w], NoHandle} :
                 CloseStep(w, k, t, f)
           \/ Tick \/ (\E k \in Keys : DeadLetterStep(k)) \/ UNCHANGED vars
  BY <1>5 DEF CloseStep, Tick, DeadLetterStep, vars, FenceIsOwn
<1> QED
  BY <1>1, <1>2, <1>3, <1>4, <1>5 DEF Next, LeaseStep, BeginStep, CheckpointStep, Environment

LiveLeaseHeld ==
    \A k \in Keys :
       (/\ Live(LeaseOf[k], now) /\ status[k] # Absent
        /\ <<status'[k], attempt'[k]>> # <<status[k], attempt[k]>>
        /\ status'[k] \in {"RUNNING", "SUCCEEDED", "FAILED_RETRYABLE"})
           => \E w \in Workers :
                 /\ pc'[w] # pc[w]
                 /\ held[w] = [key |-> LeaseOf[k], token |-> leaseTok[LeaseOf[k]]]

(* A fence that passes under a live lease is the worker's own current handle. *)
LEMMA PassingFenceIsHeld ==
    ASSUME \A v \in Workers : Skew[v] = 0, TypeOK, FenceIsOwn, NEW w \in Workers, pc[w] # "idle",
           FencePasses(w, call[w].key, call[w].fence), Live(LeaseOf[call[w].key], now)
    PROVE  held[w] = [key |-> LeaseOf[call[w].key], token |-> leaseTok[LeaseOf[call[w].key]]]
<1>1. Clock(w) = now
  BY DEF Clock, TypeOK
<1>2. call[w].fence # NoHandle
  BY <1>1 DEF FencePasses
<1>3. call[w].fence = held[w] /\ held[w].key = LeaseOf[call[w].key] /\ held[w] \in Handles
  BY <1>2 DEF FenceIsOwn, TypeOK
<1>4. leaseTok[held[w].key] = held[w].token
  BY <1>2, <1>3 DEF FencePasses, Current
<1>5. held[w] = [key |-> held[w].key, token |-> held[w].token]
  BY <1>3 DEF Handles
<1> QED
  BY <1>3, <1>4, <1>5

LEMMA LiveLeaseStep ==
    ASSUME \A v \in Workers : Skew[v] = 0, TypeOK, FenceIsOwn, Next
    PROVE  LiveLeaseHeld
<1> SUFFICES ASSUME NEW k \in Keys, Live(LeaseOf[k], now), status[k] # Absent,
                    <<status'[k], attempt'[k]>> # <<status[k], attempt[k]>>,
                    status'[k] \in {"RUNNING", "SUCCEEDED", "FAILED_RETRYABLE"}
             PROVE  \E w \in Workers :
                       /\ pc'[w] # pc[w]
                       /\ held[w] = [key |-> LeaseOf[k], token |-> leaseTok[LeaseOf[k]]]
  BY DEF LiveLeaseHeld
<1>1. status'[k] # status[k] \/ attempt'[k] # attempt[k]
  OBVIOUS
<1>2. CASE LeaseStep
  BY <1>1, <1>2 DEF LeaseStep, Release, Acquire, stepVars
<1>3. CASE Environment
  BY <1>1, <1>3 DEF Environment, Tick, Crash, DeadLetterStep, stepVars, TypeOK
<1>4. CASE BeginStep
  <2>1. PICK w \in Workers : BeginInsert(w) \/ BeginReclaim(w)
    BY <1>1, <1>4 DEF BeginStep, BeginRead, BeginRefuse, BeginReplay, stepVars
  <2>2. call[w].key \in Keys
    BY <2>1 DEF BeginInsert, BeginReclaim, TypeOK
  <2>3. CASE BeginInsert(w)
    BY <1>1, <2>2, <2>3 DEF BeginInsert, stepVars, TypeOK
  <2>4. CASE BeginReclaim(w)
    <3>1. /\ call[w].key = k /\ FencePasses(w, call[w].key, call[w].fence)
          /\ pc[w] = "begin" /\ pc'[w] = "effect"
      BY <1>1, <2>2, <2>4 DEF BeginReclaim, ReclaimGuard, stepVars, TypeOK
    <3> QED
      BY <3>1, PassingFenceIsHeld
  <2> QED
    BY <2>1, <2>3, <2>4
<1>5. CASE CheckpointStep
  <2>1. ASSUME NEW w \in Workers, Commit(w) \/ Fail(w)
        PROVE  \E v \in Workers :
                  /\ pc'[v] # pc[v]
                  /\ held[v] = [key |-> LeaseOf[k], token |-> leaseTok[LeaseOf[k]]]
    <3>1. call[w].key \in Keys /\ pc[w] \in {"commit", "fail"}
      BY <2>1 DEF Commit, Fail, TypeOK
    <3>2. call[w].key = k /\ FencePasses(w, call[w].key, call[w].fence) /\ pc'[w] = "idle"
      BY <1>1, <2>1, <3>1 DEF Commit, Fail, Checkpoint, CheckpointGuard, Idle, stepVars, TypeOK
    <3> QED
      BY <3>1, <3>2, PassingFenceIsHeld
  <2>2. ASSUME NEW w \in Workers, NEW q \in Keys, NEW t \in Terminal,
               NEW f \in {held[w], NoHandle}, CloseStep(w, q, t, f)
        PROVE  FALSE
    BY <1>1, <2>2 DEF CloseStep, Checkpoint, TypeOK
  <2> QED
    BY <1>1, <1>5, <2>1, <2>2 DEF CheckpointStep, RunEffect, stepVars
<1> QED
  BY <1>2, <1>3, <1>4, <1>5 DEF Next

(* While a lease on a step's own key is live, only the worker that holds    *)
(* its current token claims, completes or fails the existing row, for any   *)
(* mix of fenced and bare callers whose clocks agree with the database's    *)
(* (STEP_LEASE_FENCE_PREDICATE in beginStep and checkpointStep).            *)
THEOREM LiveLeasesExclude ==
    ASSUME ~AllowForeign, \A w \in Workers : Skew[w] = 0
    PROVE  Spec => LiveLeaseExclusive
<1>1. Init => FenceIsOwn
  BY DEF Init, FenceIsOwn
<1>2. TypeOK /\ FenceIsOwn /\ [Next]_vars => FenceIsOwn'
  BY OwnFenceStep
<1>3. TypeOK /\ FenceIsOwn /\ Next => LiveLeaseHeld
  BY LiveLeaseStep
<1>4. TypeOK /\ FenceIsOwn /\ [Next]_vars =>
         [\A k \in Keys :
             (/\ Live(LeaseOf[k], now) /\ status[k] # Absent
              /\ <<status'[k], attempt'[k]>> # <<status[k], attempt[k]>>
              /\ status'[k] \in {"RUNNING", "SUCCEEDED", "FAILED_RETRYABLE"})
                 => \E w \in Workers :
                       /\ pc'[w] # pc[w]
                       /\ held[w] = [key |-> LeaseOf[k], token |-> leaseTok[LeaseOf[k]]]]_vars
  BY <1>3 DEF LiveLeaseHeld
<1> QED
  BY <1>1, <1>2, <1>4, TypeCorrect, PTL DEF Spec, LiveLeaseExclusive

=============================================================================
