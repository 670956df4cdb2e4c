---------------------- MODULE NotificationOutboxProofs ----------------------
(***************************************************************************)
(* Proofs about NotificationOutbox for every set of rows, workers and      *)
(* fencing tokens and every bound on batches, attempts, crashes and slow   *)
(* workers: types, delivery, exclusive claims, and the delivery contract.  *)
(***************************************************************************)
EXTENDS NotificationOutbox, TLAPS

Places == {"idle", "loop", "resolve", "send", "mark", "retry"}
Processing == {"resolve", "send", "mark", "retry"}

(* A claim is a record with a row and a token of the table; NoClaim has     *)
(* neither.                                                                 *)
LEMMA ClaimFields ==
    /\ \A c \in Claims : c.row \in Rows /\ c.token \in Tokens /\ c.live \in BOOLEAN
    /\ \A c \in Claims : c # NoClaim
    /\ \A r \in Rows, t \in Tokens, b \in BOOLEAN : [row |-> r, token |-> t, live |-> b] \in Claims
    /\ NoClaim.row \notin Rows /\ NoClaim.token \notin Tokens
  BY OutboxAssumption DEF Claims, NoClaim

(* nextval draws a token that no row and no worker remembers. *)
LEMMA FreshTokenIsFresh ==
    ASSUME NEW w \in Workers, Tokens \ InUse # {}
    PROVE  FreshToken(w) \in Tokens /\ FreshToken(w) \notin InUse
  BY DEF FreshToken

(* A worker that forgets its claim has the empty local state. *)
LEMMA ForgetType ==
    ASSUME TypeOK, NEW w \in Workers, Forget(w)
    PROVE  /\ cur' \in [Workers -> Claims \union {NoClaim}] /\ cur'[w] = NoClaim
           /\ \A v \in Workers \ {w} : cur'[v] = cur[v]
           /\ seen' \in [Workers -> Nat] /\ fate' \in [Workers -> {"PENDING", "FAILED"}]
  BY DEF TypeOK, Forget

(* The status planAttempt gives a failed row is an open or a final one. *)
LEMMA PlannedType ==
    ASSUME NEW n \in Nat
    PROVE  /\ PlannedStatus(n) \in {"PENDING", "FAILED"}
           /\ PlannedStatus(n) = "PENDING" => n < MaxAttempts
  BY OutboxAssumption DEF PlannedStatus

(* TypeOK is not inductive: deliverClaimed without a list takes the tokens  *)
(* of the rows it finds CLAIMED, so these must have one.                    *)
ClaimedHasToken == \A r \in Rows : status[r] = "CLAIMED" => token[r] \in Tokens
TypeInv == TypeOK /\ ClaimedHasToken

(* Every statement of the outbox and of its workers keeps the types. *)
LEMMA TypeStep == ASSUME TypeInv, [Next]_vars PROVE TypeOK'
<1> USE DEF Places, Processing
<1>0. TypeOK
  BY DEF TypeInv
<1>1. ASSUME NEW r \in Rows, CommitDecision(r) \/ LegacyRow(r) PROVE TypeOK'
  <2>1. PICK st \in Statuses, isShadow \in BOOLEAN, ok \in BOOLEAN : Insert(r, st, isShadow, ok)
    BY <1>0, <1>1 DEF CommitDecision, LegacyRow, CommitStatus, Statuses, Final, Suppressed
  <2> QED
    BY <1>0, <2>1 DEF Insert, workerVars, TypeOK
<1>2. ASSUME NEW w \in Workers, ClaimBatch(w) PROVE TypeOK'
  <2> DEFINE t == FreshToken(w)
  <2>1. t \in Tokens
    BY <1>0, <1>2, FreshTokenIsFresh DEF ClaimBatch
  <2>2. PICK batch \in SUBSET Rows :
          /\ status' = [r \in Rows |-> IF r \in batch THEN "CLAIMED" ELSE status[r]]
          /\ owner' = [r \in Rows |-> IF r \in batch THEN w ELSE owner[r]]
          /\ token' = [r \in Rows |-> IF r \in batch THEN t ELSE token[r]]
          /\ lapsed' = [r \in Rows |-> lapsed[r] /\ r \notin batch]
          /\ todo' = [todo EXCEPT ![w] = {[row |-> r, token |-> t, live |-> FALSE] : r \in batch}]
    BY <1>0, <1>2 DEF ClaimBatch
  <2>3. {[row |-> r, token |-> t, live |-> FALSE] : r \in batch} \in SUBSET Claims
    BY <1>0, <2>1, ClaimFields
  <2>4. /\ status' \in [Rows -> Statuses] /\ owner' \in [Rows -> Workers \union {None}]
        /\ token' \in [Rows -> Tokens \union {None}]
    BY <1>0, <2>1, <2>2 DEF TypeOK, Statuses
  <2>5. lapsed' \in [Rows -> BOOLEAN]
    BY <1>0, <2>2, Zenon
  <2>6. todo' \in [Workers -> SUBSET Claims]
    BY <1>0, <2>2, <2>3 DEF TypeOK
  <2> QED
    BY <1>0, <1>2, <2>4, <2>5, <2>6 DEF ClaimBatch, TypeOK
<1>3. ASSUME NEW w \in Workers, StartDelivery(w) PROVE TypeOK'
  <2> DEFINE owned == {[row |-> r, token |-> token[r], live |-> FALSE] :
                         r \in {q \in Rows : status[q] = "CLAIMED" /\ owner[q] = w}}
             Live(c) == token[c.row] = c.token /\ ~lapsed[c.row]
  <2>1. PICK claims \in {todo[w], owned} :
          todo' = [todo EXCEPT ![w] = {[row |-> c.row, token |-> c.token, live |-> Live(c)]
                                         : c \in claims}]
    BY <1>0, <1>3 DEF StartDelivery
  <2>2. \A c \in claims : c.row \in Rows /\ c.token \in Tokens
    <3>1. CASE claims = todo[w]
      BY <1>0, <3>1, ClaimFields DEF TypeOK
    <3>2. CASE claims = owned
      BY <3>2 DEF TypeInv, ClaimedHasToken
    <3> QED
      BY <1>0, <3>1, <3>2
  <2>3. \A c \in claims : [row |-> c.row, token |-> c.token, live |-> Live(c)] \in Claims
    BY <1>0, <2>2, ClaimFields
  <2>4. todo' \in [Workers -> SUBSET Claims]
    BY <1>0, <2>1, <2>3 DEF TypeOK
  <2> QED
    BY <1>0, <1>3, <2>4 DEF StartDelivery, rowVars, TypeOK
<1>4. ASSUME NEW w \in Workers, SkipClaim(w) PROVE TypeOK'
  <2>1. PICK c \in todo[w] : /\ RefuseSuppressed(w, c) \/ RefuseShadow(w, c) \/ RefuseStale(w, c)
                             /\ todo' = [todo EXCEPT ![w] = @ \ {c}]
    BY <1>0, <1>4 DEF SkipClaim
  <2>2. c.row \in Rows
    BY <1>0, ClaimFields DEF TypeOK
  <2>3. todo' \in [Workers -> SUBSET Claims]
    BY <1>0, <2>1 DEF TypeOK
  <2>4. /\ status' \in [Rows -> Statuses] /\ owner' \in [Rows -> Workers \union {None}]
        /\ token' \in [Rows -> Tokens \union {None}] /\ lapsed' \in [Rows -> BOOLEAN]
        /\ UNCHANGED <<attempts, shadow, intact>>
    BY <1>0, <2>1, <2>2
    DEF RefuseSuppressed, RefuseShadow, RefuseStale, rowVars, TypeOK, Statuses, Final, Suppressed
  <2> QED
    BY <1>0, <1>4, <2>3, <2>4 DEF SkipClaim, TypeOK
<1>5. ASSUME NEW w \in Workers, PassGate(w) PROVE TypeOK'
  <2>1. PICK c \in todo[w] : /\ todo' = [todo EXCEPT ![w] = @ \ {c}]
                             /\ cur' = [cur EXCEPT ![w] = c]
                             /\ seen' = [seen EXCEPT ![w] = attempts[c.row]]
    BY <1>0, <1>5 DEF PassGate
  <2>2. c \in Claims /\ c # NoClaim /\ attempts[c.row] \in Nat
    BY <1>0, ClaimFields DEF TypeOK
  <2>3. /\ todo' \in [Workers -> SUBSET Claims] /\ cur' \in [Workers -> Claims \union {NoClaim}]
        /\ seen' \in [Workers -> Nat]
    BY <1>0, <2>1, <2>2 DEF TypeOK
  <2>4. \A v \in Workers : pc'[v] \in Processing <=> cur'[v] # NoClaim
    BY <1>0, <1>5, <2>1, <2>2 DEF PassGate, TypeOK
  <2> QED
    BY <1>0, <1>5, <2>3, <2>4 DEF PassGate, rowVars, TypeOK
<1>6. ASSUME NEW w \in Workers, FinishDelivery(w) PROVE TypeOK'
  BY <1>0, <1>6 DEF FinishDelivery, rowVars, TypeOK
<1>7. ASSUME NEW w \in Workers, ResolvePayload(w) PROVE TypeOK'
  <2>1. PlannedStatus(seen[w] + 1) \in {"PENDING", "FAILED"}
    BY <1>0, PlannedType DEF TypeOK
  <2> QED
    BY <1>0, <1>7, <2>1 DEF ResolvePayload, rowVars, TypeOK
<1>8. ASSUME NEW w \in Workers, Send(w) PROVE TypeOK'
  <2>1. PlannedStatus(seen[w] + 1) \in {"PENDING", "FAILED"}
    BY <1>0, PlannedType DEF TypeOK
  <2>2. cur[w].row \in Rows
    BY <1>0, <1>8, ClaimFields DEF Send, TypeOK
  <2> QED
    BY <1>0, <1>8, <2>1, <2>2 DEF Send, rowVars, TypeOK
<1>9. ASSUME NEW w \in Workers, MarkSent(w) PROVE TypeOK'
  <2>1. status' \in [Rows -> Statuses]
    BY <1>0, <1>9 DEF MarkSent, TypeOK, Statuses, Final
  <2> QED
    BY <1>0, <1>9, <2>1, ForgetType DEF MarkSent, NextClaim, TypeOK
<1>10. ASSUME NEW w \in Workers, MarkRetry(w) PROVE TypeOK'
  <2>1. /\ status' \in [Rows -> Statuses] /\ attempts' \in [Rows -> Nat]
        /\ owner' \in [Rows -> Workers \union {None}] /\ token' \in [Rows -> Tokens \union {None}]
        /\ UNCHANGED <<shadow, intact>>
    BY <1>0, <1>10 DEF MarkRetry, rowVars, TypeOK, Statuses, Final
  <2>2. lapsed' \in [Rows -> BOOLEAN]
    BY <1>0, <1>10 DEF MarkRetry, rowVars, TypeOK
  <2> QED
    BY <1>0, <1>10, <2>1, <2>2, ForgetType DEF MarkRetry, NextClaim, TypeOK
<1>11. ASSUME NEW r \in Rows, Lapse(r) PROVE TypeOK'
  BY <1>0, <1>11 DEF Lapse, workerVars, TypeOK
<1>12. ASSUME NEW w \in Workers, Crash(w) PROVE TypeOK'
  BY <1>0, <1>12, ForgetType DEF Crash, rowVars, TypeOK
<1>13. ASSUME UNCHANGED vars PROVE TypeOK'
  BY <1>0, <1>13 DEF vars, rowVars, workerVars, TypeOK
<1> QED
  BY <1>0, <1>1, <1>2, <1>3, <1>4, <1>5, <1>6, <1>7, <1>8, <1>9, <1>10, <1>11, <1>12, <1>13
  DEF Next, Producer, WorkerStep, Environment

(* A row is CLAIMED only together with a token. *)
LEMMA ClaimedStep == ASSUME TypeInv, [Next]_vars PROVE ClaimedHasToken'
<1> USE DEF TypeInv, ClaimedHasToken
<1>1. ASSUME NEW r \in Rows, CommitDecision(r) \/ LegacyRow(r) PROVE ClaimedHasToken'
  BY <1>1 DEF CommitDecision, LegacyRow, Insert, CommitStatus, TypeOK
<1>2. ASSUME NEW w \in Workers, ClaimBatch(w) PROVE ClaimedHasToken'
  BY <1>2, FreshTokenIsFresh DEF ClaimBatch, TypeOK
<1>3. ASSUME NEW w \in Workers, SkipClaim(w) PROVE ClaimedHasToken'
  BY <1>3 DEF SkipClaim, RefuseSuppressed, RefuseShadow, RefuseStale, rowVars, TypeOK
<1>4. ASSUME NEW w \in Workers, MarkSent(w) PROVE ClaimedHasToken'
  BY <1>4 DEF MarkSent, TypeOK
<1>5. ASSUME NEW w \in Workers, MarkRetry(w) PROVE ClaimedHasToken'
  BY <1>5 DEF MarkRetry, rowVars, TypeOK
<1>6. ASSUME UNCHANGED <<status, token>> PROVE ClaimedHasToken'
  BY <1>6
<1> QED
  BY <1>1, <1>2, <1>3, <1>4, <1>5, <1>6
  DEF Next, Producer, WorkerStep, Environment, StartDelivery, PassGate, FinishDelivery,
      ResolvePayload, Send, Lapse, Crash, rowVars, vars

(* Initially nothing is committed and every worker is idle. *)
LEMMA TypeInit == Init => TypeInv
  BY DEF Init, TypeInv, ClaimedHasToken, TypeOK, Statuses

(* The columns of the outbox and the claims of the workers keep their types *)
(* whatever the workers do.                                                 *)
THEOREM TypeCorrect == Spec => []TypeOK
<1>1. Init => TypeInv
  BY TypeInit
<1>2. TypeInv /\ [Next]_vars => TypeInv'
  BY TypeStep, ClaimedStep DEF TypeInv
<1>3. TypeInv => TypeOK
  BY DEF TypeInv
<1> QED
  BY <1>1, <1>2, <1>3, PTL DEF Spec

-----------------------------------------------------------------------------
(* Delivery *)

(* What may be in the hands of the channel: a committed row of a run that   *)
(* is not a shadow run and not suppressed.                                  *)
Deliverable(r) == ~shadow[r] /\ status[r] \notin Suppressed \union {"ABSENT"}

(* The gates of deliverClaimed are passed once and hold for as long as the  *)
(* worker goes on with the claim: shadow never changes after the commit,    *)
(* and only shadow rows are suppressed later.                               *)
GatePassed == \A w \in Workers : cur[w] # NoClaim => Deliverable(cur[w].row)
DeliveredRows == \A r \in delivered : Deliverable(r)
SentRows == \A r \in Rows : status[r] = "SENT" => r \in delivered
MarkFollowsSend == \A w \in Workers : pc[w] = "mark" => cur[w].row \in delivered

DeliveryInv == TypeInv /\ GatePassed /\ DeliveredRows /\ SentRows /\ MarkFollowsSend

(* A worker that is processing a claim names a row of the table. *)
LEMMA CurrentRow ==
    ASSUME TypeOK, NEW w \in Workers, pc[w] \in {"resolve", "send", "mark", "retry"} \/ cur[w] # NoClaim
    PROVE  cur[w] \in Claims /\ cur[w].row \in Rows /\ cur[w].token \in Tokens
  BY ClaimFields DEF TypeOK

(* No step takes from a deliverable row what makes it so. *)
LEMMA DeliverableStays ==
    ASSUME TypeInv, [Next]_vars, NEW r \in Rows, Deliverable(r)
    PROVE  Deliverable(r)'
<1> USE DEF Deliverable, TypeInv, Suppressed
<1>1. ASSUME NEW q \in Rows, CommitDecision(q) \/ LegacyRow(q) PROVE Deliverable(r)'
  BY <1>1 DEF CommitDecision, LegacyRow, Insert, TypeOK
<1>2. ASSUME NEW w \in Workers, ClaimBatch(w) PROVE Deliverable(r)'
  BY <1>2 DEF ClaimBatch, TypeOK
<1>3. ASSUME NEW w \in Workers, SkipClaim(w) PROVE Deliverable(r)'
  BY <1>3 DEF SkipClaim, RefuseSuppressed, RefuseShadow, RefuseStale, ShadowGate, rowVars, TypeOK
<1>4. ASSUME NEW w \in Workers, MarkSent(w) PROVE Deliverable(r)'
  BY <1>4 DEF MarkSent, TypeOK
<1>5. ASSUME NEW w \in Workers, MarkRetry(w) PROVE Deliverable(r)'
  BY <1>5 DEF MarkRetry, rowVars, TypeOK
<1>6. ASSUME UNCHANGED <<status, shadow>> PROVE Deliverable(r)'
  BY <1>6
<1> QED
  BY <1>1, <1>2, <1>3, <1>4, <1>5, <1>6
  DEF Next, Producer, WorkerStep, Environment, StartDelivery, PassGate, FinishDelivery,
      ResolvePayload, Send, Lapse, Crash, rowVars, vars

(* The delivery invariant is inductive. *)
LEMMA DeliveryStep == ASSUME DeliveryInv, [Next]_vars PROVE DeliveryInv'
<1>0. TypeInv /\ TypeOK /\ TypeInv'
  BY TypeStep, ClaimedStep DEF DeliveryInv, TypeInv
<1>1. GatePassed'
  <2> SUFFICES ASSUME NEW v \in Workers, cur'[v] # NoClaim PROVE Deliverable(cur[v].row)'
    BY DEF GatePassed
  <2>1. CASE cur'[v] = cur[v]
    <3>1. Deliverable(cur[v].row) /\ cur[v].row \in Rows
      BY <1>0, <2>1, CurrentRow DEF DeliveryInv, GatePassed
    <3>2. ASSUME NEW r \in Rows, r = cur[v].row PROVE Deliverable(r)'
      BY <1>0, <3>1, <3>2, DeliverableStays
    <3> QED
      BY <2>1, <3>1, <3>2 DEF Deliverable
  <2>2. CASE cur'[v] # cur[v]
    <3>1. PassGate(v)
      BY <1>0, <2>2 DEF Next, Producer, WorkerStep, Environment, CommitDecision, LegacyRow, Insert,
         ClaimBatch, StartDelivery, SkipClaim, PassGate, FinishDelivery, ResolvePayload, Send,
         MarkSent, MarkRetry, NextClaim, Forget, Lapse, Crash, workerVars, vars, TypeOK
    <3>2. PICK c \in todo[v] : /\ status[c.row] \notin Suppressed /\ ~ShadowGate(c.row)
                               /\ IsClaimCurrent(v, c) /\ cur' = [cur EXCEPT ![v] = c]
      BY <3>1 DEF PassGate
    <3>3. UNCHANGED <<status, shadow>> /\ cur'[v] = c
      BY <1>0, <3>1, <3>2 DEF PassGate, rowVars, TypeOK
    <3> QED
      BY <3>2, <3>3 DEF Deliverable, ShadowGate, IsClaimCurrent
  <2> QED
    BY <2>1, <2>2
<1>2. /\ DeliveredRows'
      /\ delivered \subseteq delivered'
  <2>1. ASSUME NEW r \in delivered PROVE Deliverable(r)'
    BY <1>0, DeliverableStays DEF DeliveryInv, DeliveredRows, TypeOK
  <2>2. CASE delivered' = delivered
    BY <2>1, <2>2 DEF DeliveredRows
  <2>3. ASSUME NEW w \in Workers, Send(w) PROVE DeliveredRows' /\ delivered \subseteq delivered'
    <3>1. cur[w].row \in Rows /\ Deliverable(cur[w].row)
      BY <1>0, <2>3, CurrentRow DEF Send, DeliveryInv, GatePassed, TypeOK
    <3>2. delivered' \subseteq delivered \union {cur[w].row} /\ delivered \subseteq delivered'
      BY <2>3 DEF Send
    <3>3. UNCHANGED <<status, shadow>>
      BY <2>3 DEF Send, rowVars
    <3> QED
      BY <2>1, <3>1, <3>2, <3>3 DEF DeliveredRows, Deliverable
  <2> QED
    BY <2>2, <2>3 DEF Next, Producer, WorkerStep, Environment, CommitDecision, LegacyRow, Insert,
       ClaimBatch, StartDelivery, SkipClaim, PassGate, FinishDelivery, ResolvePayload,
       MarkSent, MarkRetry, NextClaim, Lapse, Crash, vars
<1>3. SentRows'
  <2> SUFFICES ASSUME NEW r \in Rows, status'[r] = "SENT" PROVE r \in delivered'
    BY DEF SentRows
  <2>1. CASE status[r] = "SENT"
    BY <1>2, <2>1 DEF DeliveryInv, SentRows
  <2>2. CASE status[r] # "SENT"
    <3>1. PICK w \in Workers : MarkSent(w) /\ cur[w].row = r
      <4>1. ASSUME NEW q \in Rows, CommitDecision(q) \/ LegacyRow(q) PROVE FALSE
        BY <1>0, <2>2, <4>1 DEF CommitDecision, LegacyRow, Insert, CommitStatus, TypeOK
      <4>2. ASSUME NEW w \in Workers, ClaimBatch(w) PROVE FALSE
        BY <1>0, <2>2, <4>2 DEF ClaimBatch, TypeOK
      <4>3. ASSUME NEW w \in Workers, SkipClaim(w) PROVE FALSE
        BY <1>0, <2>2, <4>3
        DEF SkipClaim, RefuseSuppressed, RefuseShadow, RefuseStale, rowVars, TypeOK
      <4>4. ASSUME NEW w \in Workers, MarkRetry(w) PROVE FALSE
        BY <1>0, <2>2, <4>4 DEF MarkRetry, rowVars, TypeOK
      <4>5. ASSUME UNCHANGED status PROVE FALSE
        BY <2>2, <4>5
      <4>6. ASSUME NEW w \in Workers, MarkSent(w) PROVE cur[w].row = r
        BY <1>0, <2>2, <4>6 DEF MarkSent, TypeOK
      <4> QED
        BY <4>1, <4>2, <4>3, <4>4, <4>5, <4>6
        DEF Next, Producer, WorkerStep, Environment, StartDelivery, PassGate, FinishDelivery,
            ResolvePayload, Send, Lapse, Crash, rowVars, vars
    <3> QED
      BY <1>2, <3>1 DEF MarkSent, DeliveryInv, MarkFollowsSend
  <2> QED
    BY <2>1, <2>2
<1>4. MarkFollowsSend'
  <2> SUFFICES ASSUME NEW v \in Workers, pc'[v] = "mark" PROVE cur'[v].row \in delivered'
    BY DEF MarkFollowsSend
  <2>1. CASE pc[v] = "mark" /\ cur'[v] = cur[v]
    BY <1>2, <2>1 DEF DeliveryInv, MarkFollowsSend
  <2>2. CASE Send(v)
    BY <1>0, <2>2 DEF Send, TypeOK
  <2>3. (pc[v] = "mark" /\ cur'[v] = cur[v]) \/ Send(v)
    BY <1>0 DEF Next, Producer, WorkerStep, Environment, CommitDecision, LegacyRow, Insert,
       ClaimBatch, StartDelivery, SkipClaim, PassGate, FinishDelivery, ResolvePayload, Send,
       MarkSent, MarkRetry, NextClaim, Forget, Lapse, Crash, workerVars, vars, TypeOK
  <2> QED
    BY <2>1, <2>2, <2>3
<1> QED
  BY <1>0, <1>1, <1>2, <1>3, <1>4 DEF DeliveryInv

(* The delivery invariant holds in every reachable state. *)
LEMMA DeliveryInvariant == Spec => []DeliveryInv
<1>1. Init => DeliveryInv
  BY TypeInit DEF Init, DeliveryInv, GatePassed, DeliveredRows, SentRows, MarkFollowsSend
<1>2. DeliveryInv /\ [Next]_vars => DeliveryInv'
  BY DeliveryStep
<1> QED
  BY <1>1, <1>2, PTL DEF Spec

(* FR-WF-008, AC-061 for any number of rows, workers and takeovers: no      *)
(* notification of a shadow run and no suppressed one is ever delivered,    *)
(* and SENT means delivered.                                                *)
THEOREM NothingSuppressedIsDelivered == Spec => []StatusMatchesDelivery
<1>1. DeliveryInv => StatusMatchesDelivery
  BY DEF DeliveryInv, DeliveredRows, SentRows, Deliverable, StatusMatchesDelivery
<1> QED
  BY <1>1, DeliveryInvariant, PTL

-----------------------------------------------------------------------------
(* Claims *)

(* A token names its owner: a claim in anybody's hands whose token the row  *)
(* still carries is a claim of the row's owner.                             *)
TokenNamesOwner ==
    \A w \in Workers : \A c \in todo[w] \union {cur[w]} :
        c.row \in Rows /\ token[c.row] = c.token => owner[c.row] = w

(* A failure that goes back to PENDING leaves an attempt. *)
RetryLeavesAttempt ==
    \A w \in Workers : pc[w] = "retry" /\ fate[w] = "PENDING" => seen[w] + 1 < MaxAttempts

(* An attempt is a failure of a committed row. *)
AbsentUntried == \A r \in Rows : status[r] = "ABSENT" => attempts[r] = 0

ClaimInv == TypeInv /\ TokenNamesOwner /\ RetryLeavesAttempt /\ AbsentUntried /\ ClaimsExclusive

(* Every token that a row or a claim carries is in use. *)
LEMMA Remembered ==
    ASSUME NEW w \in Workers
    PROVE  /\ \A r \in Rows : token[r] \in InUse
           /\ \A c \in todo[w] : c.token \in InUse
           /\ cur[w].token \in InUse
  BY DEF InUse

(* A claim batch installs one fresh token: no claim made before matches a   *)
(* row of the batch.                                                        *)
LEMMA TokenOwnerStep == ASSUME ClaimInv, [Next]_vars PROVE TokenNamesOwner'
<1>0. TypeInv /\ TypeOK /\ TypeOK' /\ TokenNamesOwner
  BY TypeStep DEF ClaimInv, TypeInv
<1>1. ASSUME NEW r \in Rows, CommitDecision(r) \/ LegacyRow(r) PROVE TokenNamesOwner'
  BY <1>0, <1>1 DEF CommitDecision, LegacyRow, Insert, workerVars, TokenNamesOwner
<1>2. ASSUME NEW w \in Workers, ClaimBatch(w) PROVE TokenNamesOwner'
  <2> DEFINE t == FreshToken(w)
  <2>1. t \in Tokens /\ t \notin InUse
    BY <1>2, FreshTokenIsFresh DEF ClaimBatch
  <2>2. PICK batch \in SUBSET Rows :
          /\ owner' = [r \in Rows |-> IF r \in batch THEN w ELSE owner[r]]
          /\ token' = [r \in Rows |-> IF r \in batch THEN t ELSE token[r]]
          /\ todo' = [todo EXCEPT ![w] = {[row |-> r, token |-> t, live |-> FALSE] : r \in batch}]
    BY <1>2 DEF ClaimBatch
  <2>3. UNCHANGED cur
    BY <1>2 DEF ClaimBatch
  <2> HIDE DEF t
  <2> SUFFICES ASSUME NEW v \in Workers, NEW c \in todo'[v] \union {cur'[v]},
                      c.row \in Rows, token'[c.row] = c.token
               PROVE  owner'[c.row] = v
    BY DEF TokenNamesOwner
  <2>4. CASE c \in todo[v] \union {cur[v]}
    <3>1. c.token \in InUse
      BY <2>4, Remembered
    <3>2. c.row \notin batch
      BY <2>1, <2>2, <3>1
    <3> QED
      BY <1>0, <2>2, <2>4, <3>2 DEF TokenNamesOwner
  <2>5. CASE c \notin todo[v] \union {cur[v]}
    <3>1. v = w /\ c \in {[row |-> r, token |-> t, live |-> FALSE] : r \in batch}
      BY <1>0, <2>2, <2>3, <2>5 DEF TypeOK
    <3> QED
      BY <2>2, <3>1
  <2> QED
    BY <2>4, <2>5
<1>3. ASSUME NEW w \in Workers, StartDelivery(w) PROVE TokenNamesOwner'
  <2> DEFINE owned == {[row |-> r, token |-> token[r], live |-> FALSE] :
                         r \in {q \in Rows : status[q] = "CLAIMED" /\ owner[q] = w}}
             Live(c) == token[c.row] = c.token /\ ~lapsed[c.row]
  <2>1. PICK claims \in {todo[w], owned} :
          todo' = [todo EXCEPT ![w] = {[row |-> c.row, token |-> c.token, live |-> Live(c)]
                                         : c \in claims}]
    BY <1>3 DEF StartDelivery
  <2>2. UNCHANGED <<owner, token, cur>>
    BY <1>3 DEF StartDelivery, rowVars
  <2>3. \A c \in claims : c.row \in Rows /\ token[c.row] = c.token => owner[c.row] = w
    <3>1. CASE claims = todo[w]
      BY <1>0, <3>1 DEF TokenNamesOwner
    <3>2. CASE claims = owned
      BY <3>2
    <3> QED
      BY <3>1, <3>2
  <2>4. \A c \in todo'[w] : \E d \in claims : c.row = d.row /\ c.token = d.token
    BY <1>0, <2>1 DEF TypeOK
  <2>5. \A v \in Workers \ {w} : todo'[v] = todo[v]
    BY <1>0, <2>1 DEF TypeOK
  <2> QED
    BY <1>0, <2>2, <2>3, <2>4, <2>5 DEF TokenNamesOwner
<1>4. ASSUME NEW w \in Workers, SkipClaim(w) PROVE TokenNamesOwner'
  <2>1. PICK d \in todo[w] : /\ RefuseSuppressed(w, d) \/ RefuseShadow(w, d) \/ RefuseStale(w, d)
                             /\ todo' = [todo EXCEPT ![w] = @ \ {d}]
    BY <1>4 DEF SkipClaim
  <2>2. \A v \in Workers : todo'[v] \subseteq todo[v]
    BY <1>0, <2>1 DEF TypeOK
  <2>3. UNCHANGED cur
    BY <1>4 DEF SkipClaim
  <2>4. \A r \in Rows : (token'[r] = token[r] /\ owner'[r] = owner[r]) \/ token'[r] = None
    BY <1>0, <2>1 DEF RefuseSuppressed, RefuseShadow, RefuseStale, rowVars, TypeOK
  <2>5. \A v \in Workers : \A c \in todo[v] \union {cur[v]} : c.row \in Rows => c.token # None
    BY <1>0, ClaimFields, OutboxAssumption DEF TypeOK
  <2> QED
    BY <1>0, <2>2, <2>3, <2>4, <2>5 DEF TokenNamesOwner
<1>5. ASSUME NEW w \in Workers, PassGate(w) PROVE TokenNamesOwner'
  <2>1. PICK c \in todo[w] : /\ todo' = [todo EXCEPT ![w] = @ \ {c}]
                             /\ cur' = [cur EXCEPT ![w] = c]
    BY <1>5 DEF PassGate
  <2>2. \A v \in Workers : todo'[v] \union {cur'[v]} \subseteq todo[v] \union {cur[v]}
    BY <1>0, <2>1 DEF TypeOK
  <2> QED
    BY <1>0, <1>5, <2>2 DEF PassGate, rowVars, TokenNamesOwner
<1>6. ASSUME NEW w \in Workers, MarkSent(w) \/ MarkRetry(w) PROVE TokenNamesOwner'
  <2>1. \A v \in Workers : /\ todo'[v] \subseteq todo[v]
                           /\ cur'[v] = cur[v] \/ cur'[v] = NoClaim
    BY <1>0, <1>6 DEF MarkSent, MarkRetry, NextClaim, Forget, TypeOK
  <2>2. \A r \in Rows : (token'[r] = token[r] /\ owner'[r] = owner[r]) \/ token'[r] = None
    BY <1>0, <1>6 DEF MarkSent, MarkRetry, rowVars, TypeOK
  <2>3. \A v \in Workers : \A c \in todo[v] \union {cur[v]} : c.row \in Rows => c.token # None
    BY <1>0, ClaimFields, OutboxAssumption DEF TypeOK
  <2>4. ASSUME NEW v \in Workers, NEW c \in todo'[v] \union {cur'[v]}, c.row \in Rows,
               token'[c.row] = c.token
        PROVE  owner'[c.row] = v
    <3>0. c # NoClaim
      BY <2>4, ClaimFields
    <3>1. c \in todo[v] \union {cur[v]}
      BY <2>1, <3>0
    <3>2. token'[c.row] = token[c.row] /\ owner'[c.row] = owner[c.row]
      BY <2>2, <2>3, <2>4, <3>1
    <3> QED
      BY <1>0, <2>4, <3>1, <3>2 DEF TokenNamesOwner
  <2> QED
    BY <2>4 DEF TokenNamesOwner
<1>7. ASSUME NEW w \in Workers, Crash(w) PROVE TokenNamesOwner'
  <2>1. \A v \in Workers : /\ todo'[v] \subseteq todo[v]
                           /\ cur'[v] = cur[v] \/ cur'[v] = NoClaim
    BY <1>0, <1>7 DEF Crash, Forget, TypeOK
  <2> QED
    BY <1>0, <1>7, <2>1, ClaimFields DEF Crash, rowVars, TokenNamesOwner
<1>8. ASSUME UNCHANGED <<owner, token, todo, cur>> PROVE TokenNamesOwner'
  BY <1>0, <1>8 DEF TokenNamesOwner
<1> QED
  BY <1>1, <1>2, <1>3, <1>4, <1>5, <1>6, <1>7, <1>8
  DEF Next, Producer, WorkerStep, Environment, FinishDelivery, ResolvePayload, Send, Lapse,
      rowVars, workerVars, vars

(* A retry that returns a row to PENDING was planned with attempts left. *)
LEMMA RetryStep == ASSUME ClaimInv, [Next]_vars PROVE RetryLeavesAttempt' /\ AbsentUntried'
<1>0. TypeInv /\ TypeOK /\ RetryLeavesAttempt /\ AbsentUntried
  BY DEF ClaimInv, TypeInv
<1>1. RetryLeavesAttempt'
  <2> SUFFICES ASSUME NEW v \in Workers, pc'[v] = "retry", fate'[v] = "PENDING"
               PROVE  seen'[v] + 1 < MaxAttempts
    BY DEF RetryLeavesAttempt
  <2>1. CASE pc[v] = "retry" /\ fate'[v] = fate[v] /\ seen'[v] = seen[v]
    BY <1>0, <2>1 DEF RetryLeavesAttempt
  <2>2. CASE ResolvePayload(v) \/ Send(v)
    <3>1. seen'[v] = seen[v] /\ fate'[v] \in {PlannedStatus(seen[v] + 1), "FAILED"}
      BY <1>0, <2>2 DEF ResolvePayload, Send, TypeOK
    <3> QED
      BY <1>0, <3>1, PlannedType DEF TypeOK
  <2>3. \/ pc[v] = "retry" /\ fate'[v] = fate[v] /\ seen'[v] = seen[v]
        \/ ResolvePayload(v) \/ Send(v)
    BY <1>0 DEF Next, Producer, WorkerStep, Environment, CommitDecision, LegacyRow, Insert,
       ClaimBatch, StartDelivery, SkipClaim, PassGate, FinishDelivery, ResolvePayload, Send,
       MarkSent, MarkRetry, NextClaim, Forget, Lapse, Crash, workerVars, vars, TypeOK
  <2> QED
    BY <2>1, <2>2, <2>3
<1>2. AbsentUntried'
  <2>1. ASSUME NEW r \in Rows, CommitDecision(r) \/ LegacyRow(r) PROVE AbsentUntried'
    BY <1>0, <2>1 DEF CommitDecision, LegacyRow, Insert, TypeOK, AbsentUntried
  <2>2. ASSUME NEW w \in Workers, ClaimBatch(w) PROVE AbsentUntried'
    BY <1>0, <2>2 DEF ClaimBatch, TypeOK, AbsentUntried
  <2>3. ASSUME NEW w \in Workers, SkipClaim(w) PROVE AbsentUntried'
    BY <1>0, <2>3 DEF SkipClaim, RefuseSuppressed, RefuseShadow, RefuseStale, rowVars, TypeOK,
       AbsentUntried
  <2>4. ASSUME NEW w \in Workers, MarkSent(w) PROVE AbsentUntried'
    BY <1>0, <2>4 DEF MarkSent, TypeOK, AbsentUntried
  <2>5. ASSUME NEW w \in Workers, MarkRetry(w) PROVE AbsentUntried'
    BY <1>0, <2>5 DEF MarkRetry, rowVars, TypeOK, AbsentUntried
  <2>6. ASSUME UNCHANGED <<status, attempts>> PROVE AbsentUntried'
    BY <1>0, <2>6 DEF AbsentUntried
  <2> QED
    BY <2>1, <2>2, <2>3, <2>4, <2>5, <2>6
    DEF Next, Producer, WorkerStep, Environment, StartDelivery, PassGate, FinishDelivery,
        ResolvePayload, Send, Lapse, Crash, rowVars, vars
<1> QED
  BY <1>1, <1>2

(* No attempt is lost and no row is held twice: an attempt is counted only  *)
(* by the holder, whose claim ends with it.                                 *)
LEMMA ExclusiveStep == ASSUME ClaimInv, [Next]_vars PROVE ClaimsExclusive'
<1>0. /\ TypeInv /\ TypeOK /\ TypeOK' /\ TokenNamesOwner' /\ RetryLeavesAttempt /\ AbsentUntried
      /\ ClaimsExclusive /\ MaxAttempts \in Nat \ {0}
  BY TypeStep, TokenOwnerStep, OutboxAssumption DEF ClaimInv, TypeInv
<1>1. \A r \in Rows : \A v, w \in Workers : (Holds(v, r) /\ Holds(w, r) => v = w)'
  <2> SUFFICES ASSUME NEW r \in Rows, NEW v \in Workers, Holds(v, r)' PROVE owner'[r] = v
    OBVIOUS
  <2> QED
    BY <1>0 DEF TokenNamesOwner, Holds
<1>2. \A r \in Rows : \A w \in Workers : (Holds(w, r) => seen[w] = attempts[r])'
  <2> SUFFICES ASSUME NEW r \in Rows, NEW w \in Workers, Holds(w, r)'
               PROVE  seen'[w] = attempts'[r]
    OBVIOUS
  <2>1. CASE PassGate(w)
    BY <1>0, <2>1 DEF PassGate, rowVars, Holds, TypeOK
  <2>2. CASE ~PassGate(w)
    <3>1. cur'[w].token # None /\ cur'[w] # NoClaim
      BY <1>0, ClaimFields, CurrentRow, OutboxAssumption DEF Holds, TypeOK
    <3>2. cur'[w] = cur[w] /\ seen'[w] = seen[w]
      BY <1>0, <2>2, <3>1 DEF Next, Producer, WorkerStep, Environment, CommitDecision, LegacyRow,
         Insert, ClaimBatch, StartDelivery, SkipClaim, PassGate, FinishDelivery, ResolvePayload,
         Send, MarkSent, MarkRetry, NextClaim, Forget, Lapse, Crash, workerVars, vars, TypeOK
    <3>3. status[r] = "CLAIMED" /\ token[r] = cur[w].token /\ attempts'[r] = attempts[r]
      <4>1. ASSUME NEW q \in Rows, CommitDecision(q) \/ LegacyRow(q)
            PROVE  status[r] = "CLAIMED" /\ token[r] = token'[r] /\ attempts'[r] = attempts[r]
        BY <1>0, <4>1 DEF CommitDecision, LegacyRow, Insert, CommitStatus, Holds, TypeOK
      <4>2. ASSUME NEW v \in Workers, ClaimBatch(v)
            PROVE  status[r] = "CLAIMED" /\ token[r] = token'[r] /\ attempts'[r] = attempts[r]
        <5>1. FreshToken(v) # cur[w].token
          BY <4>2, FreshTokenIsFresh, Remembered DEF ClaimBatch
        <5> QED
          BY <1>0, <3>2, <4>2, <5>1 DEF ClaimBatch, Holds, TypeOK
      <4>3. ASSUME NEW v \in Workers, SkipClaim(v)
            PROVE  status[r] = "CLAIMED" /\ token[r] = token'[r] /\ attempts'[r] = attempts[r]
        BY <1>0, <4>3 DEF SkipClaim, RefuseSuppressed, RefuseShadow, RefuseStale, rowVars, Holds,
           TypeOK
      <4>4. ASSUME NEW v \in Workers, MarkSent(v)
            PROVE  status[r] = "CLAIMED" /\ token[r] = token'[r] /\ attempts'[r] = attempts[r]
        BY <1>0, <4>4 DEF MarkSent, Holds, TypeOK
      <4>5. ASSUME NEW v \in Workers, MarkRetry(v)
            PROVE  status[r] = "CLAIMED" /\ token[r] = token'[r] /\ attempts'[r] = attempts[r]
        BY <1>0, <3>1, <4>5 DEF MarkRetry, rowVars, Holds, TypeOK
      <4>6. ASSUME UNCHANGED <<status, token, attempts>>
            PROVE  status[r] = "CLAIMED" /\ token[r] = token'[r] /\ attempts'[r] = attempts[r]
        BY <4>6 DEF Holds
      <4>7. status[r] = "CLAIMED" /\ token[r] = token'[r] /\ attempts'[r] = attempts[r]
        BY <4>1, <4>2, <4>3, <4>4, <4>5, <4>6
        DEF Next, Producer, WorkerStep, Environment, StartDelivery, PassGate, FinishDelivery,
            ResolvePayload, Send, Lapse, Crash, rowVars, vars
      <4> QED
        BY <3>2, <4>7 DEF Holds
    <3> QED
      BY <1>0, <3>2, <3>3 DEF ClaimsExclusive, Holds
  <2> QED
    BY <2>1, <2>2
<1>3. \A r \in Rows : /\ status'[r] \in {"PENDING", "CLAIMED"} => attempts'[r] < MaxAttempts
                      /\ attempts'[r] <= MaxAttempts
  <2> DEFINE Budget(r) == /\ status'[r] \in {"PENDING", "CLAIMED"} => attempts'[r] < MaxAttempts
                          /\ attempts'[r] <= MaxAttempts
  <2> SUFFICES ASSUME NEW r \in Rows PROVE Budget(r)
    OBVIOUS
  <2>0. /\ status[r] \in {"PENDING", "CLAIMED"} => attempts[r] < MaxAttempts
        /\ attempts[r] <= MaxAttempts /\ attempts[r] \in Nat
    BY <1>0 DEF ClaimsExclusive, TypeOK
  <2>1. ASSUME NEW q \in Rows, CommitDecision(q) \/ LegacyRow(q) PROVE Budget(r)
    BY <1>0, <2>0, <2>1 DEF CommitDecision, LegacyRow, Insert, TypeOK, AbsentUntried
  <2>2. ASSUME NEW w \in Workers, ClaimBatch(w) PROVE Budget(r)
    BY <1>0, <2>0, <2>2 DEF ClaimBatch, Eligible, TypeOK
  <2>3. ASSUME NEW w \in Workers, SkipClaim(w) PROVE Budget(r)
    BY <1>0, <2>0, <2>3 DEF SkipClaim, RefuseSuppressed, RefuseShadow, RefuseStale, rowVars, TypeOK
  <2>4. ASSUME NEW w \in Workers, MarkSent(w) PROVE Budget(r)
    BY <1>0, <2>0, <2>4 DEF MarkSent, TypeOK
  <2>5. ASSUME NEW w \in Workers, MarkRetry(w) PROVE Budget(r)
    <3>1. CASE MarkGuard(w) /\ r = cur[w].row
      <4>1. Holds(w, r)
        BY <3>1 DEF MarkGuard, Holds
      <4>2. seen[w] = attempts[r] /\ attempts[r] < MaxAttempts
        BY <1>0, <4>1 DEF ClaimsExclusive, Holds
      <4>3. attempts'[r] = seen[w] + 1 /\ status'[r] = fate[w]
        BY <1>0, <2>5, <3>1 DEF MarkRetry, TypeOK
      <4>4. fate[w] \in {"PENDING", "FAILED"} /\ (fate[w] = "PENDING" => seen[w] + 1 < MaxAttempts)
        BY <1>0, <2>5 DEF MarkRetry, RetryLeavesAttempt, TypeOK
      <4> QED
        BY <1>0, <2>0, <4>2, <4>3, <4>4
    <3>2. CASE ~(MarkGuard(w) /\ r = cur[w].row)
      <4>1. status'[r] = status[r] /\ attempts'[r] = attempts[r]
        BY <1>0, <2>5, <3>2 DEF MarkRetry, rowVars, TypeOK
      <4> QED
        BY <2>0, <4>1
    <3> QED
      BY <3>1, <3>2
  <2>6. ASSUME UNCHANGED <<status, attempts>> PROVE Budget(r)
    BY <2>0, <2>6
  <2> QED
    BY <2>1, <2>2, <2>3, <2>4, <2>5, <2>6
    DEF Next, Producer, WorkerStep, Environment, StartDelivery, PassGate, FinishDelivery,
        ResolvePayload, Send, Lapse, Crash, rowVars, vars
<1> QED
  BY <1>1, <1>2, <1>3 DEF ClaimsExclusive

(* AC-011 for any number of workers: two workers never hold the same row,   *)
(* the holder knows the row's attempts, and open rows have attempts left.   *)
THEOREM ClaimsAreExclusive == Spec => []ClaimsExclusive
<1>1. Init => ClaimInv
  <2> SUFFICES ASSUME Init PROVE ClaimInv
    OBVIOUS
  <2>1. TypeInv /\ TypeOK
    BY TypeInit DEF TypeInv
  <2>2. TokenNamesOwner /\ RetryLeavesAttempt /\ AbsentUntried
    BY ClaimFields DEF Init, TokenNamesOwner, RetryLeavesAttempt, AbsentUntried
  <2>3. ClaimsExclusive
    BY ClaimFields, OutboxAssumption DEF Init, ClaimsExclusive, Holds
  <2> QED
    BY <2>1, <2>2, <2>3 DEF ClaimInv
<1>2. ClaimInv /\ [Next]_vars => ClaimInv'
  BY TypeStep, ClaimedStep, TokenOwnerStep, RetryStep, ExclusiveStep DEF ClaimInv, TypeInv
<1>3. ClaimInv => ClaimsExclusive
  BY DEF ClaimInv
<1> QED
  BY <1>1, <1>2, <1>3, PTL DEF Spec

-----------------------------------------------------------------------------
(* The delivery contract *)

(* What Phase is, row by row. *)
LEMMA PhaseOf ==
    ASSUME TypeOK, NEW r \in Rows
    PROVE  /\ status[r] = "ABSENT" => Phase[r] = "none"
           /\ status[r] # "ABSENT" /\ (shadow[r] \/ status[r] \in Suppressed) => Phase[r] = "withheld"
           /\ Deliverable(r) /\ status[r] = "SENT" => Phase[r] = "sent"
           /\ Deliverable(r) /\ status[r] = "FAILED" => Phase[r] = "failed"
           /\ Deliverable(r) /\ status[r] \in {"PENDING", "CLAIMED"} => Phase[r] = "open"
  BY DEF Phase, Deliverable, Suppressed, TypeOK

(* Steps that write no status and no shadow flag leave the phases alone. *)
LEMMA PhaseUnchanged == ASSUME UNCHANGED <<status, shadow>> PROVE Phase' = Phase
  BY DEF Phase

(* A step that moves one row moves one phase. *)
LEMMA PhaseExcept ==
    ASSUME NEW r \in Rows, \A q \in Rows \ {r} : Phase'[q] = Phase[q]
    PROVE  Phase' = [Phase EXCEPT ![r] = Phase'[r]]
<1>1. Phase = [q \in Rows |-> Phase[q]] /\ Phase' = [q \in Rows |-> Phase'[q]]
  BY DEF Phase
<1> QED
  BY <1>1

(* A row whose status and shadow flag stay has the same phase. *)
LEMMA PhaseOther ==
    ASSUME NEW q \in Rows, status'[q] = status[q], shadow'[q] = shadow[q]
    PROVE  Phase'[q] = Phase[q]
  BY DEF Phase

(* Every step of the outbox is a step of the contract or leaves it alone.   *)
LEMMA ContractStep ==
    ASSUME DeliveryInv, [Next]_vars
    PROVE  [Contract!ContractNext]_(Contract!contractVars)
<1> DEFINE Same == Phase' = Phase /\ delivered' = delivered
           Goal == Contract!ContractNext \/ Same
<1>0. TypeOK /\ TypeOK' /\ GatePassed /\ MarkFollowsSend
  BY TypeStep DEF DeliveryInv, TypeInv
<1>1. ASSUME NEW r \in Rows, CommitDecision(r) \/ LegacyRow(r) PROVE Goal
  <2>1. PICK isShadow \in BOOLEAN, outage \in BOOLEAN, ok \in BOOLEAN :
          \/ Insert(r, CommitStatus(isShadow, outage), isShadow, ok)
          \/ Insert(r, "PENDING", TRUE, TRUE)
    BY <1>1 DEF CommitDecision, LegacyRow
  <2>2. /\ status[r] = "ABSENT" /\ status'[r] # "ABSENT" /\ delivered' = delivered
        /\ \A q \in Rows \ {r} : status'[q] = status[q] /\ shadow'[q] = shadow[q]
        /\ shadow'[r] \/ status'[r] \in Suppressed \/ (Deliverable(r)' /\ status'[r] = "PENDING")
    BY <1>0, <2>1 DEF Insert, CommitStatus, Suppressed, Deliverable, TypeOK
  <2>3. Phase[r] = "none"
    BY <1>0, <2>2, PhaseOf
  <2>4. Phase'[r] \in {"open", "withheld"}
    BY <1>0, <2>2 DEF Phase, Deliverable, Suppressed, TypeOK
  <2>5. \A q \in Rows \ {r} : Phase'[q] = Phase[q]
    BY <2>2, PhaseOther
  <2>6. Phase' = [Phase EXCEPT ![r] = Phase'[r]]
    BY <2>5, PhaseExcept
  <2>7. Contract!Enqueue(r)
    BY <2>2, <2>3, <2>4, <2>6 DEF Contract!Enqueue
  <2> QED
    BY <2>7 DEF Contract!ContractNext
<1>2. ASSUME NEW w \in Workers, ClaimBatch(w) PROVE Goal
  <2>1. \A q \in Rows : /\ shadow'[q] = shadow[q]
                        /\ \/ status'[q] = status[q]
                           \/ /\ status[q] \in {"PENDING", "CLAIMED"}
                              /\ status'[q] \in {"PENDING", "CLAIMED"}
    BY <1>0, <1>2 DEF ClaimBatch, Eligible, TypeOK
  <2>2. Phase' = Phase
    BY <2>1 DEF Phase, Suppressed
  <2> QED
    BY <1>2, <2>2 DEF ClaimBatch
<1>3. ASSUME NEW w \in Workers, SkipClaim(w) PROVE Goal
  <2>1. \A q \in Rows : /\ shadow'[q] = shadow[q]
                        /\ \/ status'[q] = status[q]
                           \/ /\ shadow[q] /\ status[q] # "ABSENT"
                              /\ status'[q] = "SUPPRESSED_SHADOW"
    BY <1>0, <1>3
    DEF SkipClaim, RefuseSuppressed, RefuseShadow, RefuseStale, ShadowGate, rowVars, TypeOK
  <2>2. Phase' = Phase
    BY <2>1 DEF Phase, Suppressed
  <2> QED
    BY <1>3, <2>2 DEF SkipClaim
<1>4. ASSUME NEW w \in Workers, Send(w) PROVE Goal
  <2> DEFINE r == cur[w].row
  <2>1. r \in Rows /\ Deliverable(r)
    BY <1>0, <1>4, CurrentRow DEF Send, GatePassed, TypeOK
  <2>2. Phase' = Phase
    BY <1>4, PhaseUnchanged DEF Send, rowVars
  <2>3. delivered' \in {delivered, delivered \union {r}}
    BY <1>4 DEF Send
  <2>4. CASE delivered' = delivered
    BY <2>2, <2>4
  <2>5. CASE delivered' = delivered \union {r} /\ status[r] = "SENT"
    <3>1. r \in delivered
      BY <2>1, <2>5 DEF DeliveryInv, SentRows
    <3> QED
      BY <2>2, <2>5, <3>1
  <2>6. CASE delivered' = delivered \union {r} /\ status[r] # "SENT"
    <3>1. Phase[r] \in {"open", "failed"}
      BY <1>0, <2>1, <2>6, PhaseOf DEF Deliverable, Suppressed, TypeOK, Statuses, Final
    <3>2. Contract!Deliver(r)
      BY <2>2, <2>6, <3>1 DEF Contract!Deliver
    <3> QED
      BY <2>1, <3>2 DEF Contract!ContractNext
  <2> QED
    BY <2>3, <2>4, <2>5, <2>6
<1>5. ASSUME NEW w \in Workers, MarkSent(w) PROVE Goal
  <2> DEFINE r == cur[w].row
  <2>1. r \in Rows /\ Deliverable(r) /\ r \in delivered
    BY <1>0, <1>5, CurrentRow DEF MarkSent, GatePassed, MarkFollowsSend, TypeOK
  <2>2. delivered' = delivered
    BY <1>5 DEF MarkSent, NextClaim
  <2>3. CASE ~MarkGuard(w)
    BY <1>5, <2>2, <2>3, PhaseUnchanged DEF MarkSent
  <2>4. CASE MarkGuard(w)
    <3>1. /\ status[r] = "CLAIMED" /\ status'[r] = "SENT" /\ shadow' = shadow
          /\ \A q \in Rows \ {r} : status'[q] = status[q]
      BY <1>0, <1>5, <2>1, <2>4 DEF MarkSent, MarkGuard, TypeOK
    <3>2. Phase[r] = "open" /\ Phase'[r] = "sent"
      BY <1>0, <2>1, <3>1 DEF Phase, Deliverable, Suppressed, TypeOK
    <3>3. \A q \in Rows \ {r} : Phase'[q] = Phase[q]
      BY <3>1, PhaseOther
    <3>4. Phase' = [Phase EXCEPT ![r] = "sent"]
      BY <2>1, <3>2, <3>3, PhaseExcept
    <3>5. Contract!Confirm(r)
      BY <2>1, <2>2, <3>2, <3>4 DEF Contract!Confirm
    <3> QED
      BY <2>1, <3>5 DEF Contract!ContractNext
  <2> QED
    BY <2>3, <2>4
<1>6. ASSUME NEW w \in Workers, MarkRetry(w) PROVE Goal
  <2> DEFINE r == cur[w].row
  <2>1. r \in Rows /\ Deliverable(r) /\ fate[w] \in {"PENDING", "FAILED"}
    BY <1>0, <1>6, CurrentRow DEF MarkRetry, GatePassed, TypeOK
  <2>2. delivered' = delivered
    BY <1>6 DEF MarkRetry, NextClaim
  <2>3. CASE ~MarkGuard(w)
    BY <1>6, <2>2, <2>3, PhaseUnchanged DEF MarkRetry, rowVars
  <2>4. CASE MarkGuard(w)
    <3>1. /\ status[r] = "CLAIMED" /\ status'[r] = fate[w] /\ shadow' = shadow
          /\ \A q \in Rows \ {r} : status'[q] = status[q]
      BY <1>0, <1>6, <2>1, <2>4 DEF MarkRetry, MarkGuard, TypeOK
    <3>2. \A q \in Rows \ {r} : Phase'[q] = Phase[q]
      BY <3>1, PhaseOther
    <3>3. Phase' = [Phase EXCEPT ![r] = Phase'[r]]
      BY <2>1, <3>2, PhaseExcept
    <3>4. Phase[r] = "open" /\ Phase'[r] = (IF fate[w] = "PENDING" THEN "open" ELSE "failed")
      BY <1>0, <2>1, <3>1 DEF Phase, Deliverable, Suppressed, TypeOK
    <3>5. CASE fate[w] = "PENDING"
      <4>1. \A q \in Rows : Phase'[q] = Phase[q]
        BY <3>2, <3>4, <3>5
      <4>2. Phase = [q \in Rows |-> Phase[q]] /\ Phase' = [q \in Rows |-> Phase'[q]]
        BY DEF Phase
      <4> QED
        BY <2>2, <4>1, <4>2
    <3>6. CASE fate[w] # "PENDING"
      <4>1. Contract!GiveUp(r)
        BY <2>2, <3>3, <3>4, <3>6 DEF Contract!GiveUp
      <4> QED
        BY <2>1, <4>1 DEF Contract!ContractNext
    <3> QED
      BY <3>5, <3>6
  <2> QED
    BY <2>3, <2>4
<1>7. ASSUME UNCHANGED <<status, shadow, delivered>> PROVE Goal
  BY <1>7, PhaseUnchanged
<1>8. Goal
  BY <1>1, <1>2, <1>3, <1>4, <1>5, <1>6, <1>7
  DEF Next, Producer, WorkerStep, Environment, StartDelivery, PassGate, FinishDelivery,
      ResolvePayload, Lapse, Crash, rowVars, vars
<1> QED
  BY <1>8 DEF Contract!contractVars

(* The outbox implements the safety part of its delivery contract: under    *)
(* the mapping Phase every committed row is enqueued once, delivered only   *)
(* while it may be, confirmed only when delivered, and settled for good.    *)
THEOREM OutboxImplementsContract == Spec => ImplementsContract
<1>1. Init => Contract!ContractInit
  BY DEF Init, Phase, Contract!ContractInit
<1>2. DeliveryInv /\ [Next]_vars => [Contract!ContractNext]_(Contract!contractVars)
  BY ContractStep
<1> QED
  BY <1>1, <1>2, DeliveryInvariant, PTL DEF Spec, ImplementsContract, Contract!ContractSpec

=============================================================================
