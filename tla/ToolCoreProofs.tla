--------------------------- MODULE ToolCoreProofs ---------------------------
(***************************************************************************)
(* Proofs about the shared tool core for every set of runs, every limit    *)
(* and any number of retries, crashes and failures: the quota ledger, what *)
(* a SUCCESS envelope needs, single flight and the mandatory tail.         *)
(***************************************************************************)
EXTENDS ToolCore, FiniteSetTheorems, TLAPS

-----------------------------------------------------------------------------
(* The quota ledger *)

ReservationRows == [state : {"NONE", "RESERVED", "COMMITTED", "RELEASED"},
                    bucket : Buckets \union {"none"}, units : Nat]

LedgerTypes ==
    /\ admission \in [window : BOOLEAN, bucket : Buckets]
    /\ balance \in [Buckets -> [reserved : Int, committed : Int]]
    /\ reservation \in [Runs -> ReservationRows]

(* An open reservation stands for the one unit a call is estimated at. *)
OpenIsOneUnit == \A r \in Runs : reservation[r].state = "RESERVED" => reservation[r].units = 1

(* Only finitely many units are ever reserved or committed, whatever the    *)
(* number of run ids.                                                       *)
FiniteUnits ==
    \A b \in Buckets : IsFiniteSet(UnitsOf(b, "RESERVED")) /\ IsFiniteSet(UnitsOf(b, "COMMITTED"))

LedgerInv == LedgerTypes /\ OpenIsOneUnit /\ FiniteUnits /\ LedgerExact

LEMMA BucketNames == Buckets = {"general", "reserve"}
  BY LedgerAssumption DEF Buckets

(* The units of one row, as far as they count for a bucket and a state. *)
Share(r, row, b, state) ==
    IF row.bucket = b /\ row.state = state THEN {r} \X (1 .. row.units) ELSE {}

Worth(row, b, state) == IF row.bucket = b /\ row.state = state THEN row.units ELSE 0

LEMMA ShareSize ==
    ASSUME NEW r, NEW row \in ReservationRows, NEW b, NEW state
    PROVE  /\ IsFiniteSet(Share(r, row, b, state))
           /\ Cardinality(Share(r, row, b, state)) = Worth(row, b, state)
<1>1. row.units \in Nat
  BY DEF ReservationRows
<1>2. IsFiniteSet(1 .. row.units) /\ Cardinality(1 .. row.units) = row.units
  BY <1>1, FS_Interval
<1>3. IsFiniteSet({r}) /\ Cardinality({r}) = 1
  BY FS_Singleton
<1>4. /\ IsFiniteSet({r} \X (1 .. row.units))
      /\ Cardinality({r} \X (1 .. row.units)) = 1 * row.units
  BY <1>2, <1>3, FS_Product
<1>5. IsFiniteSet({}) /\ Cardinality({}) = 0
  BY FS_EmptySet
<1> QED
  BY <1>1, <1>4, <1>5 DEF Share, Worth

(* The units of the other rows. *)
Others(r, b, state) ==
    UNION {{q} \X (1 .. reservation[q].units) :
               q \in {q \in Runs \ {r} : reservation[q].bucket = b /\ reservation[q].state = state}}

LEMMA SplitUnits ==
    ASSUME NEW r \in Runs, NEW b, NEW state
    PROVE  /\ UnitsOf(b, state) = Others(r, b, state) \union Share(r, reservation[r], b, state)
           /\ \A row : Others(r, b, state) \cap Share(r, row, b, state) = {}
<1>1. ASSUME NEW x PROVE x \in UnitsOf(b, state) <=> x \in Others(r, b, state) \union Share(r, reservation[r], b, state)
  BY DEF UnitsOf, Others, Share
<1>2. ASSUME NEW row, NEW x \in Others(r, b, state) PROVE x \notin Share(r, row, b, state)
  <2>1. PICK q \in Runs \ {r} : x \in {q} \X (1 .. reservation[q].units)
    BY DEF Others
  <2>2. x[1] = q
    BY <2>1
  <2>3. x \in {r} \X (1 .. row.units) => x[1] = r
    OBVIOUS
  <2> QED
    BY <2>2, <2>3 DEF Share
<1> QED
  BY <1>1, <1>2

(* A transaction that writes one row moves that row's units and no other. *)
LEMMA RowWrite ==
    ASSUME NEW r \in Runs, NEW row \in ReservationRows, NEW b, NEW state,
           reservation \in [Runs -> ReservationRows], reservation' = [reservation EXCEPT ![r] = row],
           IsFiniteSet(UnitsOf(b, state))
    PROVE  /\ IsFiniteSet(UnitsOf(b, state)') /\ Cardinality(UnitsOf(b, state)) \in Nat
           /\ Cardinality(UnitsOf(b, state)') =
                 Cardinality(UnitsOf(b, state)) - Worth(reservation[r], b, state) + Worth(row, b, state)
<1> DEFINE O == Others(r, b, state)
           old == Share(r, reservation[r], b, state)
           new == Share(r, row, b, state)
<1>1. UnitsOf(b, state) = O \union old /\ O \cap old = {} /\ O \cap new = {}
  BY SplitUnits
<1>2. UnitsOf(b, state)' = O \union new
  <2>1. reservation'[r] = row /\ \A q \in Runs \ {r} : reservation'[q] = reservation[q]
    OBVIOUS
  <2>2. ASSUME NEW x PROVE x \in UnitsOf(b, state)' <=> x \in O \union new
    BY <2>1 DEF UnitsOf, Others, Share
  <2> QED
    BY <2>2
<1>3. /\ IsFiniteSet(old) /\ Cardinality(old) = Worth(reservation[r], b, state)
      /\ IsFiniteSet(new) /\ Cardinality(new) = Worth(row, b, state)
  BY ShareSize
<1> HIDE DEF O, old, new
<1>4. IsFiniteSet(O)
  BY <1>1, FS_Subset
<1>5. Cardinality(O \union old) = Cardinality(O) + Cardinality(old) - Cardinality({})
  BY <1>1, <1>3, <1>4, FS_Union
<1>6. IsFiniteSet(O \union new) /\ Cardinality(O \union new) = Cardinality(O) + Cardinality(new) - Cardinality({})
  BY <1>1, <1>3, <1>4, FS_Union
<1>7. /\ Cardinality({}) = 0 /\ Cardinality(O) \in Nat /\ Cardinality(old) \in Nat /\ Cardinality(new) \in Nat
      /\ Cardinality(UnitsOf(b, state)) \in Nat
  BY <1>3, <1>4, FS_EmptySet, FS_CardinalityType
<1> QED
  BY <1>1, <1>2, <1>3, <1>5, <1>6, <1>7

(* The ledger stays exact when a transaction moves in the balances what it  *)
(* moves in its row.                                                        *)
LEMMA LedgerMove ==
    ASSUME LedgerInv, NEW r \in Runs, NEW row \in ReservationRows,
           reservation' = [reservation EXCEPT ![r] = row], admission' = admission,
           row.state = "RESERVED" => row.units = 1,
           balance' \in [Buckets -> [reserved : Int, committed : Int]],
           \A b \in Buckets :
               /\ balance'[b].reserved =
                     balance[b].reserved - Worth(reservation[r], b, "RESERVED") + Worth(row, b, "RESERVED")
               /\ balance'[b].committed =
                     balance[b].committed - Worth(reservation[r], b, "COMMITTED") + Worth(row, b, "COMMITTED")
               /\ Limit[b] - balance'[b].reserved - balance'[b].committed >= 0
    PROVE  LedgerInv'
<1>0. LedgerTypes /\ OpenIsOneUnit /\ FiniteUnits /\ LedgerExact
  BY DEF LedgerInv
<1>1. reservation \in [Runs -> ReservationRows]
  BY <1>0 DEF LedgerTypes
<1>2. LedgerTypes'
  BY <1>0, <1>1 DEF LedgerTypes
<1>3. OpenIsOneUnit'
  BY <1>0, <1>1 DEF OpenIsOneUnit
<1>4. ASSUME NEW b \in Buckets, NEW state \in {"RESERVED", "COMMITTED"}
      PROVE  /\ IsFiniteSet(UnitsOf(b, state)')
             /\ Cardinality(UnitsOf(b, state)') =
                   Cardinality(UnitsOf(b, state)) - Worth(reservation[r], b, state) + Worth(row, b, state)
  <2>1. IsFiniteSet(UnitsOf(b, state))
    BY <1>0 DEF FiniteUnits
  <2> QED
    BY <1>1, <2>1, RowWrite
<1>5. FiniteUnits'
  BY <1>4 DEF FiniteUnits
<1>6. LedgerExact'
  BY <1>0, <1>4 DEF LedgerExact, remaining
<1> QED
  BY <1>2, <1>3, <1>5, <1>6 DEF LedgerInv

(* A step that writes no row and no balance may still move the context. *)
LEMMA LedgerKept ==
    ASSUME LedgerInv, UNCHANGED <<balance, reservation>>,
           admission' \in [window : BOOLEAN, bucket : Buckets]
    PROVE  LedgerInv'
<1>1. \A b, state : UnitsOf(b, state)' = UnitsOf(b, state)
  BY DEF UnitsOf
<1>2. LedgerTypes' /\ OpenIsOneUnit'
  BY DEF LedgerInv, LedgerTypes, OpenIsOneUnit
<1>3. FiniteUnits' /\ LedgerExact'
  BY <1>1 DEF LedgerInv, FiniteUnits, LedgerExact, remaining
<1> QED
  BY <1>2, <1>3 DEF LedgerInv

LEMMA ReserveLedger ==
    ASSUME LedgerInv, NEW r \in Runs, reserveTx(r)
    PROVE  LedgerInv'
<1>0. LedgerTypes /\ LedgerExact
  BY DEF LedgerInv
<1>1. CASE reservation[r] # NoReservation
  BY <1>0, <1>1, LedgerKept DEF reserveTx, LedgerTypes
<1>2. CASE reservation[r] = NoReservation
  <2> DEFINE b0  == admission.bucket
             row == [state |-> "RESERVED", units |-> 1,
                     bucket |-> IF admission.window THEN b0 ELSE "none"]
  <2>1. /\ reservation' = [reservation EXCEPT ![r] = row] /\ admission' = admission
        /\ balance' = IF admission.window THEN [balance EXCEPT ![b0].reserved = @ + 1] ELSE balance
        /\ admission.window => remaining(b0) >= 1
    BY <1>2 DEF reserveTx, MayReserve
  <2>2. b0 \in Buckets /\ row \in ReservationRows /\ reservation[r].state = "NONE"
    BY <1>0, <1>2 DEF LedgerTypes, ReservationRows, NoReservation
  <2>3. balance \in [Buckets -> [reserved : Int, committed : Int]] /\ Limit \in [Buckets -> Nat]
    BY <1>0, LedgerAssumption DEF LedgerTypes, Buckets
  <2>4. balance' \in [Buckets -> [reserved : Int, committed : Int]]
    BY <2>1, <2>2, <2>3
  <2>5. ASSUME NEW b \in Buckets
        PROVE  /\ balance'[b].reserved = balance[b].reserved + Worth(row, b, "RESERVED")
               /\ balance'[b].committed = balance[b].committed
               /\ Limit[b] - balance'[b].reserved - balance'[b].committed >= 0
    <3>0. balance[b].reserved \in Int /\ balance[b].committed \in Int /\ Limit[b] \in Nat /\ remaining(b) >= 0
      BY <1>0, <2>3 DEF LedgerExact
    <3>1. CASE admission.window /\ b = b0
      BY <2>1, <2>3, <3>0, <3>1 DEF Worth, remaining
    <3>2. CASE ~(admission.window /\ b = b0)
      <4>1. balance'[b] = balance[b]
        BY <2>1, <2>2, <2>3, <3>2
      <4>2. row.bucket # b
        BY <3>2, BucketNames
      <4> QED
        BY <3>0, <4>1, <4>2 DEF Worth, remaining
    <3> QED
      BY <3>1, <3>2
  <2>6. \A b, state : state # "NONE" => Worth(reservation[r], b, state) = 0
    BY <2>2 DEF Worth
  <2>7. \A b : Worth(row, b, "COMMITTED") = 0
    BY DEF Worth
  <2>8. row.state = "RESERVED" /\ row.units = 1 /\ \A b : Worth(row, b, "RESERVED") \in Int
    BY DEF Worth
  <2> HIDE DEF row
  <2>9. \A b \in Buckets :
            /\ balance'[b].reserved =
                  balance[b].reserved - Worth(reservation[r], b, "RESERVED") + Worth(row, b, "RESERVED")
            /\ balance'[b].committed =
                  balance[b].committed - Worth(reservation[r], b, "COMMITTED") + Worth(row, b, "COMMITTED")
            /\ Limit[b] - balance'[b].reserved - balance'[b].committed >= 0
    BY <2>3, <2>5, <2>6, <2>7, <2>8
  <2> QED
    BY <2>1, <2>2, <2>4, <2>8, <2>9, LedgerMove
<1> QED
  BY <1>1, <1>2

(* Commit and release close an open reservation at `units` units. *)
LEMMA CloseLedger ==
    ASSUME LedgerInv, NEW r \in Runs, reservation[r].state = "RESERVED", admission' = admission,
           NEW closed \in {"COMMITTED", "RELEASED"}, NEW units \in Nat, closed = "RELEASED" => units = 0,
           reservation' = [reservation EXCEPT ![r].state = closed, ![r].units = units],
           FitsBalance(r, units),
           balance' = IF reservation[r].bucket = "none" THEN balance
                      ELSE [balance EXCEPT ![reservation[r].bucket] =
                               [reserved |-> @.reserved - 1, committed |-> @.committed + units]]
    PROVE  LedgerInv'
<1> DEFINE b0  == reservation[r].bucket
           row == [state |-> closed, bucket |-> b0, units |-> units]
<1>0. LedgerTypes /\ LedgerExact /\ reservation[r].units = 1
  BY DEF LedgerInv, OpenIsOneUnit
<1>1. b0 \in Buckets \union {"none"} /\ row \in ReservationRows
  BY <1>0 DEF LedgerTypes, ReservationRows
<1>2. reservation' = [reservation EXCEPT ![r] = row]
  <2>1. reservation \in [Runs -> ReservationRows]
    BY <1>0 DEF LedgerTypes
  <2>2. reservation' \in [Runs -> ReservationRows]
    BY <2>1 DEF ReservationRows
  <2>3. /\ reservation'[r].state = closed /\ reservation'[r].bucket = b0 /\ reservation'[r].units = units
        /\ \A q \in Runs : q # r => reservation'[q] = reservation[q]
    BY <2>1 DEF ReservationRows
  <2>4. reservation'[r] = row
    BY <1>1, <2>2, <2>3 DEF ReservationRows
  <2> HIDE DEF row
  <2> QED
    BY <2>1, <2>2, <2>3, <2>4
<1>3. balance \in [Buckets -> [reserved : Int, committed : Int]] /\ Limit \in [Buckets -> Nat]
  BY <1>0, LedgerAssumption DEF LedgerTypes, Buckets
<1>4. balance' \in [Buckets -> [reserved : Int, committed : Int]]
  BY <1>1, <1>3
<1>5. \A b \in Buckets : b # "none"
  BY BucketNames
<1>6. ASSUME NEW b \in Buckets
      PROVE  /\ balance'[b].reserved =
                  balance[b].reserved - Worth(reservation[r], b, "RESERVED") + Worth(row, b, "RESERVED")
             /\ balance'[b].committed =
                  balance[b].committed - Worth(reservation[r], b, "COMMITTED") + Worth(row, b, "COMMITTED")
             /\ Limit[b] - balance'[b].reserved - balance'[b].committed >= 0
  <2>0. balance[b].reserved \in Int /\ balance[b].committed \in Int /\ Limit[b] \in Nat /\ remaining(b) >= 0
    BY <1>0, <1>3 DEF LedgerExact
  <2>1. CASE b = b0
    <3>1. balance'[b] = [reserved |-> balance[b].reserved - 1, committed |-> balance[b].committed + units]
      BY <1>3, <1>5, <2>1
    <3>2. remaining(b) + 1 >= units
      BY <1>5, <2>1 DEF FitsBalance
    <3>3. /\ Worth(reservation[r], b, "RESERVED") = 1 /\ Worth(row, b, "RESERVED") = 0
          /\ Worth(reservation[r], b, "COMMITTED") = 0 /\ Worth(row, b, "COMMITTED") = units
      BY <1>0, <2>1 DEF Worth
    <3> QED
      BY <2>0, <3>1, <3>2, <3>3 DEF remaining
  <2>2. CASE b # b0
    <3>1. balance'[b] = balance[b]
      BY <1>1, <1>3, <2>2
    <3>2. \A state : Worth(reservation[r], b, state) = 0 /\ Worth(row, b, state) = 0
      BY <2>2 DEF Worth
    <3> QED
      BY <2>0, <3>1, <3>2 DEF remaining
  <2> QED
    BY <2>1, <2>2
<1>7. row.state = "RESERVED" => row.units = 1
  OBVIOUS
<1> HIDE DEF row
<1> QED
  BY <1>1, <1>2, <1>4, <1>6, <1>7, LedgerMove

LEMMA CommitLedger ==
    ASSUME LedgerInv, NEW r \in Runs, NEW u \in ActualUnits, commitTx(r, u)
    PROVE  LedgerInv'
  BY LedgerAssumption, CloseLedger DEF commitTx, MayCommit

LEMMA ReleaseLedger ==
    ASSUME LedgerInv, NEW r \in Runs, releaseTx(r)
    PROVE  LedgerInv'
<1> DEFINE b0 == reservation[r].bucket
<1>0. LedgerTypes /\ LedgerExact
  BY DEF LedgerInv
<1>1. b0 \in Buckets \union {"none"}
  BY <1>0 DEF LedgerTypes, ReservationRows
<1>2. balance \in [Buckets -> [reserved : Int, committed : Int]] /\ Limit \in [Buckets -> Nat]
  BY <1>0, LedgerAssumption DEF LedgerTypes, Buckets
<1>3. balance' = IF b0 = "none" THEN balance
                 ELSE [balance EXCEPT ![b0] = [reserved |-> @.reserved - 1, committed |-> @.committed + 0]]
  <2>1. CASE b0 = "none"
    BY <2>1 DEF releaseTx
  <2>2. CASE b0 # "none"
    <3>1. balance' = [balance EXCEPT ![b0].reserved = @ - 1]
      BY <2>2 DEF releaseTx
    <3>2. \A b \in Buckets : balance'[b] = IF b = b0
              THEN [reserved |-> balance[b].reserved - 1, committed |-> balance[b].committed + 0]
              ELSE balance[b]
      BY <1>1, <1>2, <3>1
    <3> QED
      BY <1>1, <1>2, <2>2, <3>1, <3>2
  <2> QED
    BY <2>1, <2>2
<1>4. FitsBalance(r, 0)
  BY <1>0, <1>1, <1>2 DEF FitsBalance, LedgerExact, remaining
<1> QED
  BY <1>3, <1>4, CloseLedger DEF releaseTx

LEMMA LedgerStep == LedgerInv /\ [ToolNext]_toolVars => LedgerInv'
<1> SUFFICES ASSUME LedgerInv, [ToolNext]_toolVars PROVE LedgerInv'
  OBVIOUS
<1>0. admission \in [window : BOOLEAN, bucket : Buckets]
  BY DEF LedgerInv, LedgerTypes
<1>1. ASSUME UNCHANGED ledgerVars PROVE LedgerInv'
  BY <1>0, <1>1, LedgerKept DEF ledgerVars
<1>2. ASSUME NEW r \in Runs, NEW known \in BOOLEAN, quotaEstimate(r, known) PROVE LedgerInv'
  <2>1. CASE estimateContext
    BY <2>1, LedgerKept, BucketNames DEF estimateContext
  <2> QED
    BY <1>1, <1>2, <2>1 DEF quotaEstimate
<1>3. ASSUME NEW r \in Runs, quotaAdmit(r) PROVE LedgerInv'
  <2>1. ASSUME NEW b \in AdmittedBuckets(r), admitContext(b) PROVE LedgerInv'
    <3>1. b \in Buckets
      BY BucketNames DEF AdmittedBuckets
    <3> QED
      BY <2>1, <3>1, LedgerKept DEF admitContext
  <2> QED
    BY <1>1, <1>3, <2>1 DEF quotaAdmit
<1>4. ASSUME NEW r \in Runs, quotaReserve(r) PROVE LedgerInv'
  BY <1>1, <1>4, ReserveLedger DEF quotaReserve
<1>5. ASSUME NEW r \in Runs, NEW u \in ActualUnits, quotaSettle(r, u) PROVE LedgerInv'
  BY <1>1, <1>5, CommitLedger, ReleaseLedger DEF quotaSettle
<1>6. ASSUME NEW r \in Runs, StageSteps(r) PROVE LedgerInv'
  <2>1. CASE \/ persistRequested(r) \/ recordProbeAssignment(r) \/ lookupCache(r)
             \/ leaseAcquire(r) \/ leaseWait(r) \/ leaseDeadline(r) \/ postLeaseRecheck(r)
             \/ leaseRelease(r) \/ audit(r)
    BY <1>1, <2>1 DEF persistRequested, recordProbeAssignment, lookupCache, leaseAcquire, leaseWait,
                      leaseDeadline, postLeaseRecheck, leaseRelease, audit
  <2>2. ASSUME NEW ok \in BOOLEAN,
               \/ dispatch(r, ok) \/ persistResult(r, ok) \/ acquisitionOutcome(r, ok) \/ envelope(r, ok)
        PROVE  LedgerInv'
    BY <1>1, <2>2 DEF dispatch, persistResult, acquisitionOutcome, envelope
  <2> QED
    BY <1>2, <1>3, <1>4, <1>5, <1>6, <2>1, <2>2 DEF StageSteps
<1>7. ASSUME NEW r \in Runs, NEW v, execute(r, v) PROVE LedgerInv'
  BY <1>1, <1>7 DEF execute
<1>8. ASSUME NEW r \in Runs, stageThrows(r) \/ ToolCrash(r) PROVE LedgerInv'
  BY <1>1, <1>8 DEF stageThrows, ToolCrash
<1>9. CASE LeaseTtlPasses \/ CacheAges \/ UNCHANGED toolVars
  BY <1>1, <1>9 DEF LeaseTtlPasses, CacheAges, toolVars
<1> QED
  BY <1>6, <1>7, <1>8, <1>9 DEF ToolNext

LEMMA LedgerInitial == ToolInit => LedgerInv
<1> SUFFICES ASSUME ToolInit PROVE LedgerInv
  OBVIOUS
<1>1. LedgerTypes /\ OpenIsOneUnit
  BY BucketNames DEF ToolInit, LedgerInit, LedgerTypes, OpenIsOneUnit, ReservationRows, NoReservation
<1>2. ASSUME NEW b \in Buckets, NEW state \in {"RESERVED", "COMMITTED"} PROVE UnitsOf(b, state) = {}
  <2>1. \A r \in Runs : reservation[r].state # state
    BY DEF ToolInit, LedgerInit, NoReservation
  <2> QED
    BY <2>1 DEF UnitsOf
<1>3. \A b \in Buckets : balance[b].reserved = 0 /\ balance[b].committed = 0 /\ Limit[b] \in Nat
  BY LedgerAssumption DEF ToolInit, LedgerInit, Buckets
<1>4. \A b \in Buckets : UnitsOf(b, "RESERVED") = {} /\ UnitsOf(b, "COMMITTED") = {}
  BY <1>2
<1>5. IsFiniteSet({}) /\ Cardinality({}) = 0
  BY FS_EmptySet
<1>6. FiniteUnits
  BY <1>4, <1>5, Zenon DEF FiniteUnits
<1>7. \A b \in Buckets : remaining(b) >= 0
  BY <1>3 DEF remaining
<1>8. LedgerExact
  BY <1>3, <1>4, <1>5, <1>7, Zenon DEF LedgerExact
<1> QED
  BY <1>1, <1>6, <1>8 DEF LedgerInv

(* The balances are what the reservations are worth and never exceed the   *)
(* limits, for any number of concurrent calls, retries, crashes and        *)
(* failures (reserve, commit and release of the quota adapter).            *)
THEOREM LedgerIsExact == ToolSpec => []LedgerExact
<1>1. LedgerInv => LedgerExact
  BY DEF LedgerInv
<1> QED
  BY <1>1, LedgerInitial, LedgerStep, PTL DEF ToolSpec

-----------------------------------------------------------------------------
(* Contexts *)

Contexts ==
    [stage : Stages, cleanup : BOOLEAN, blocked : BOOLEAN, decided : {"REQUESTED", "NOT_REQUESTED"},
     requested : BOOLEAN, served : BOOLEAN, waited : BOOLEAN, token : Nat, downgraded : BOOLEAN,
     reserved : BOOLEAN, result : BOOLEAN, threw : SUBSET CleanupStages,
     audited : {"NONE", "BLOCKED", "SUCCESS"}, envelope : {"NONE", "BLOCKED", "SUCCESS"}]

DecisionRows ==
    [state : {"NONE", "NOT_REQUESTED", "BLOCKED", "REQUESTED", "RETURNED", "REFUSED"},
     requested : BOOLEAN, probe : BOOLEAN]

CoreTypes ==
    /\ LedgerTypes
    /\ ctx \in [Runs -> Contexts] /\ decision \in [Runs -> DecisionRows]
    /\ flight \in [token : Nat, status : {"free", "held", "expired"}]
    /\ cache \in {"NONE", "USABLE", "EXPIRED"}

AfterSettle == {"persist", "release", "outcome", "audit", "envelope", "done"}
AfterRelease == {"outcome", "audit", "envelope", "done"}
UnderLease == {"recheck", "estimate", "admit", "reserve", "dispatch"}

(* A call that is not refused has earned its answer at every stage of the   *)
(* tail: settled needs a result or a hit, and what follows the settlement a *)
(* hit or a committed reservation, as a result from the outcome on.         *)
Earns(c, res) ==
    /\ c.stage = "dispatch" => c.reserved
    /\ c.result => c.reserved \/ c.served
    /\ c.stage = "settle" /\ ~c.blocked => c.served \/ c.result
    /\ c.stage \in {"persist", "release", "outcome"} /\ ~c.blocked =>
          c.served \/ (c.result /\ res.state = "COMMITTED")
    /\ c.stage \in {"audit", "envelope"} /\ ~c.blocked =>
          c.result /\ (c.served \/ res.state = "COMMITTED")

(* The envelope comes last, after the audit, and says what was earned. *)
Closes(c, res) ==
    /\ c.envelope # "NONE" => c.stage = "done"
    /\ c.stage \in {"envelope", "done"} => c.audited # "NONE"
    /\ c.stage = "envelope" /\ ~c.blocked => c.audited = "SUCCESS"
    /\ c.envelope = "SUCCESS" =>
          c.audited = "SUCCESS" /\ c.result /\ (c.served \/ res.state = "COMMITTED")

(* Past the settlement an open reservation means that the settlement threw. *)
Settles(c, res) ==
    c.stage \in AfterSettle /\ c.reserved /\ res.state = "RESERVED" => "settle" \in c.threw

Honest(c, res) == c \in Contexts /\ Earns(c, res) /\ Closes(c, res) /\ Settles(c, res)

(* A probe is assigned to a request. *)
Probes(c, row) == (c.stage = "probe" => row.requested) /\ (row.probe => row.requested)

(* Every token was the lease's once; from the lease to the provider the      *)
(* current token's lease is not free; past the release the caller's lease is *)
(* not held, unless the release threw.                                       *)
Leases(c, f) ==
    /\ c.token \in 0 .. f.token
    /\ c.stage \in UnderLease => c.token # 0 /\ (c.token = f.token => f.status # "free")
    /\ c.stage \in AfterRelease /\ c.token # 0 /\ c.token = f.token /\ f.status = "held" =>
          "release" \in c.threw

TokensDiffer == \A q, r \in Runs : q # r /\ ctx[q].token # 0 => ctx[q].token # ctx[r].token

CoreInv ==
    /\ CoreTypes /\ TokensDiffer
    /\ \A r \in Runs : /\ Honest(ctx[r], reservation[r]) /\ Leases(ctx[r], flight)
                       /\ Probes(ctx[r], decision[r])

(* A context that has done nothing yet. *)
Fresh(c) ==
    /\ c \in Contexts /\ c.stage \in {"idle", "lost", "decision"}
    /\ c.token = 0 /\ ~c.reserved /\ ~c.result /\ c.envelope = "NONE"

LEMMA FreshHonest ==
    ASSUME NEW c, NEW res, Fresh(c)
    PROVE  Honest(c, res)
  BY DEF Fresh, Honest, Contexts, Earns, Closes, Settles, AfterSettle

(* A refusal moves an open call to the first duty of the tail. *)
LEMMA BlockHonest ==
    ASSUME NEW c, NEW res, Honest(c, res),
           c.stage \notin {"idle", "done", "lost"} \union CleanupStages \union {"audit", "envelope"}
    PROVE  Honest([Blocked(c) EXCEPT !.stage = FirstDuty(c)], res)
  BY DEF Blocked, FirstDuty, Honest, Contexts, Stages, CleanupStages, Earns, Closes, Settles, AfterSettle

(* An error thrown by a stage keeps the tail honest. *)
LEMMA ThrowHonest ==
    ASSUME NEW c, NEW res, Honest(c, res), c.stage \notin {"idle", "done", "lost"}
    PROVE  Honest(ThrownContext(c), res)
<1> USE DEF Blocked, FirstDuty, Contexts, Stages, CleanupStages, After
<1>0. c \in Contexts
  BY DEF Honest
<1>1. CASE c.stage \notin CleanupStages
  <2>1. ThrownContext(c) \in Contexts
    BY <1>0, <1>1 DEF ThrownContext
  <2>2. Earns(ThrownContext(c), res)
    BY <1>0, <1>1 DEF ThrownContext, Honest, Earns
  <2>3. Closes(ThrownContext(c), res)
    BY <1>0, <1>1 DEF ThrownContext, Honest, Closes
  <2>4. Settles(ThrownContext(c), res)
    BY <1>0, <1>1 DEF ThrownContext, Honest, Settles, AfterSettle
  <2> QED
    BY <2>1, <2>2, <2>3, <2>4 DEF Honest
<1>2. CASE c.stage \in CleanupStages
  <2>1. ThrownContext(c) \in Contexts
    <3> DEFINE b == [Blocked(c) EXCEPT !.cleanup = TRUE,
                                       !.threw = @ \union ({c.stage} \cap CleanupStages)]
               s == IF c.stage = "settle" THEN "release" ELSE After[c.stage]
    <3>1. b \in Contexts
      BY <1>0
    <3>2. s \in Stages
      BY <1>2
    <3>3. ThrownContext(c) = IF c.blocked /\ ~c.cleanup THEN [b EXCEPT !.threw = c.threw]
                                                       ELSE [b EXCEPT !.stage = s]
      BY <1>2 DEF ThrownContext
    <3> HIDE DEF b, s
    <3>4. \A x \in Contexts : [x EXCEPT !.threw = c.threw] \in Contexts /\ [x EXCEPT !.stage = s] \in Contexts
      BY <1>0, <3>2
    <3> QED
      BY <3>1, <3>3, <3>4
  <2>2. Earns(ThrownContext(c), res)
    BY <1>0, <1>2 DEF ThrownContext, Honest, Earns
  <2>3. Closes(ThrownContext(c), res)
    BY <1>0, <1>2 DEF ThrownContext, Honest, Closes
  <2>4. Settles(ThrownContext(c), res)
    BY <1>0, <1>2 DEF ThrownContext, Honest, Settles, AfterSettle
  <2> QED
    BY <2>1, <2>2, <2>3, <2>4 DEF Honest
<1> QED
  BY <1>1, <1>2

(* Neither a refusal nor an error touches the token, and both leave the     *)
(* stages under the lease.                                                  *)
LEMMA BlockLeases ==
    ASSUME NEW c \in Contexts, NEW f, Leases(c, f), c.stage \notin AfterRelease
    PROVE  Leases([Blocked(c) EXCEPT !.stage = FirstDuty(c)], f)
  BY DEF Blocked, FirstDuty, Leases, Contexts, UnderLease, AfterRelease

LEMMA ThrowLeases ==
    ASSUME NEW c \in Contexts, NEW f, Leases(c, f), c.stage \notin {"idle", "done", "lost"}
    PROVE  Leases(ThrownContext(c), f)
<1> USE DEF Blocked, FirstDuty, Contexts, Stages, CleanupStages, After, ThrownContext
<1>1. ThrownContext(c).token = c.token /\ ThrownContext(c).stage \notin UnderLease
  BY DEF UnderLease
<1>2. "release" \in c.threw => "release" \in ThrownContext(c).threw
  OBVIOUS
<1>3. (ThrownContext(c).stage \in AfterRelease /\ c.stage \notin AfterRelease) => "release" \in ThrownContext(c).threw
  <2>1. CASE c.stage \notin CleanupStages
    BY <2>1 DEF AfterRelease
  <2>2. CASE c.stage \in {"settle", "persist"}
    BY <2>2 DEF AfterRelease
  <2>3. CASE c.stage = "release"
    BY <2>3 DEF AfterRelease
  <2> QED
    BY <2>1, <2>2, <2>3 DEF AfterRelease
<1> HIDE DEF ThrownContext
<1> QED
  BY <1>1, <1>2, <1>3 DEF Leases

-----------------------------------------------------------------------------
(* Steps of one call *)

(* What a step of r leaves alone of the other calls. *)
Mine(r) ==
    /\ \A q \in Runs : q # r => /\ ctx'[q] = ctx[q] /\ reservation'[q] = reservation[q]
                                /\ decision'[q] = decision[q]
    /\ \A q \in Runs : q # r /\ ctx[q].token # 0 => ctx'[r].token # ctx[q].token

(* The lease moves on, or stays with the token and is not freed under a     *)
(* token of another call.                                                   *)
LeaseMoves(r) ==
    \/ flight' = flight
    \/ flight'.token = flight.token + 1
    \/ flight'.token = flight.token /\ flight'.status = "expired" /\ flight.status = "held"
    \/ /\ flight'.token = flight.token /\ flight'.status = "free"
       /\ ctx[r].token # 0 /\ ctx[r].token = flight.token

(* The other calls keep their invariant through a step of r. *)
LEMMA OthersKept ==
    ASSUME CoreInv, NEW r \in Runs, Mine(r), LeaseMoves(r), NEW q \in Runs, q # r
    PROVE  /\ Honest(ctx'[q], reservation'[q]) /\ Leases(ctx'[q], flight')
           /\ Probes(ctx'[q], decision'[q])
<1>0. /\ Honest(ctx[q], reservation[q]) /\ Leases(ctx[q], flight) /\ Probes(ctx[q], decision[q])
      /\ ctx'[q] = ctx[q] /\ reservation'[q] = reservation[q] /\ decision'[q] = decision[q]
      /\ flight.token \in Nat /\ ctx[q].token \in Nat
  BY DEF CoreInv, CoreTypes, Mine, Contexts
<1>1. ctx[q].token # 0 => ctx[q].token # ctx[r].token
  BY DEF CoreInv, TokensDiffer
<1>2. Leases(ctx[q], flight')
  BY <1>0, <1>1 DEF Leases, LeaseMoves, UnderLease, AfterRelease
<1> QED
  BY <1>0, <1>2

(* A step of r that is good for r is good. *)
LEMMA StepOfOne ==
    ASSUME CoreInv, NEW r \in Runs, Mine(r), LeaseMoves(r), CoreTypes',
           Honest(ctx'[r], reservation'[r]), Leases(ctx'[r], flight'), Probes(ctx'[r], decision'[r])
    PROVE  CoreInv'
<1>1. \A q \in Runs : /\ Honest(ctx'[q], reservation'[q]) /\ Leases(ctx'[q], flight')
                      /\ Probes(ctx'[q], decision'[q])
  BY OthersKept
<1>2. TokensDiffer'
  BY DEF CoreInv, TokensDiffer, Mine
<1> QED
  BY <1>1, <1>2 DEF CoreInv

(* A step that only moves the context of r, to c, with the token it had. *)
LEMMA ContextStep ==
    ASSUME CoreInv, NEW r \in Runs, NEW c, ctx' = [ctx EXCEPT ![r] = c], LedgerTypes',
           UNCHANGED <<reservation, flight, decision>>, cache' \in {"NONE", "USABLE", "EXPIRED"},
           Honest(c, reservation[r]), Leases(c, flight), Probes(c, decision[r]),
           c.token \in {0, ctx[r].token}
    PROVE  CoreInv'
<1>0. ctx \in [Runs -> Contexts] /\ c \in Contexts
  BY DEF CoreInv, CoreTypes, Honest
<1>1. ctx'[r] = c /\ \A q \in Runs : q # r => ctx'[q] = ctx[q]
  BY <1>0
<1>2. Mine(r)
  BY <1>1 DEF Mine, CoreInv, TokensDiffer
<1>3. CoreTypes'
  BY <1>0 DEF CoreInv, CoreTypes
<1> QED
  BY <1>1, <1>2, <1>3, StepOfOne DEF LeaseMoves

(* A refusal, an error and a fresh start keep the invariant. *)
LEMMA MyFacts ==
    ASSUME CoreInv, NEW r \in Runs
    PROVE  /\ ctx[r] \in Contexts /\ Honest(ctx[r], reservation[r]) /\ Leases(ctx[r], flight)
           /\ Probes(ctx[r], decision[r]) /\ decision[r] \in DecisionRows
           /\ reservation[r] \in ReservationRows /\ LedgerTypes
           /\ flight \in [token : Nat, status : {"free", "held", "expired"}]
           /\ cache \in {"NONE", "USABLE", "EXPIRED"}
           /\ ctx \in [Runs -> Contexts] /\ decision \in [Runs -> DecisionRows]
  BY DEF CoreInv, CoreTypes, LedgerTypes

LEMMA LedgerTypesKept ==
    ASSUME CoreInv, UNCHANGED ledgerVars
    PROVE  LedgerTypes'
  BY DEF CoreInv, CoreTypes, LedgerTypes, ledgerVars

LEMMA BlockStep ==
    ASSUME CoreInv, NEW r \in Runs, Block(r), LedgerTypes', UNCHANGED <<reservation, flight, decision, cache>>,
           ctx[r].stage \in {"lease", "estimate", "admit", "reserve", "dispatch"}
    PROVE  CoreInv'
<1> DEFINE c == [Blocked(ctx[r]) EXCEPT !.stage = FirstDuty(ctx[r])]
<1>1. Honest(c, reservation[r])
  BY MyFacts, BlockHonest DEF CleanupStages
<1>2. Leases(c, flight)
  BY MyFacts, BlockLeases DEF AfterRelease
<1>3. Probes(c, decision[r]) /\ c.token = ctx[r].token
  BY MyFacts DEF Probes, Blocked, FirstDuty, Contexts
<1>4. ctx' = [ctx EXCEPT ![r] = c] /\ cache' \in {"NONE", "USABLE", "EXPIRED"}
  BY MyFacts DEF Block, Goto
<1> HIDE DEF c
<1> QED
  BY <1>1, <1>2, <1>3, <1>4, ContextStep

LEMMA ThrowStep ==
    ASSUME CoreInv, NEW r \in Runs, Throw(r), UNCHANGED <<ledgerVars, flight, decision, cache>>,
           ctx[r].stage \notin {"idle", "done", "lost"}
    PROVE  CoreInv'
<1> DEFINE c == ThrownContext(ctx[r])
<1>1. Honest(c, reservation[r]) /\ Leases(c, flight)
  BY MyFacts, ThrowHonest, ThrowLeases
<1>2. c.stage # "probe" /\ c.token = ctx[r].token
  BY MyFacts DEF ThrownContext, Blocked, FirstDuty, Contexts, Stages, CleanupStages, After
<1>3. Probes(c, decision[r])
  BY <1>2, MyFacts DEF Probes
<1>4. ctx' = [ctx EXCEPT ![r] = c] /\ cache' \in {"NONE", "USABLE", "EXPIRED"} /\ UNCHANGED reservation
  BY MyFacts DEF Throw, ledgerVars
<1> HIDE DEF c
<1> QED
  BY <1>1, <1>2, <1>3, <1>4, ContextStep, LedgerTypesKept

LEMMA FreshStep ==
    ASSUME CoreInv, NEW r \in Runs, UNCHANGED <<ledgerVars, flight, decision, cache>>,
           NEW c, Fresh(c), ctx' = [ctx EXCEPT ![r] = c]
    PROVE  CoreInv'
<1>1. Honest(c, reservation[r]) /\ c.token = 0
  BY FreshHonest DEF Fresh
<1>2. Leases(c, flight) /\ Probes(c, decision[r])
  BY MyFacts DEF Fresh, Leases, Probes, UnderLease, AfterRelease
<1>3. cache' \in {"NONE", "USABLE", "EXPIRED"} /\ UNCHANGED reservation
  BY MyFacts DEF ledgerVars
<1> QED
  BY <1>1, <1>2, <1>3, ContextStep, LedgerTypesKept

LEMMA ExecuteStep ==
    ASSUME CoreInv, NEW r \in Runs, NEW v \in {"refused", "REQUESTED", "NOT_REQUESTED"}, execute(r, v)
    PROVE  CoreInv'
<1> DEFINE c == [(IF v = "refused" THEN Blocked(FreshContext)
                  ELSE [FreshContext EXCEPT !.decided = v]) EXCEPT !.stage = "decision"]
<1>1. UNCHANGED <<ledgerVars, flight, decision, cache>> /\ ctx' = [ctx EXCEPT ![r] = c]
  BY DEF execute, Goto
<1>2. CASE v = "refused"
  <2>1. Fresh(c)
    BY <1>2 DEF Fresh, FreshContext, Blocked, Contexts, Stages, CleanupStages
  <2> HIDE DEF c
  <2> QED
    BY <1>1, <2>1, FreshStep
<1>3. CASE v # "refused"
  <2>1. Fresh(c)
    BY <1>3 DEF Fresh, FreshContext, Contexts, Stages, CleanupStages
  <2> HIDE DEF c
  <2> QED
    BY <1>1, <2>1, FreshStep
<1> QED
  BY <1>2, <1>3

LEMMA LostStep ==
    ASSUME CoreInv, NEW r \in Runs, UNCHANGED <<ledgerVars, flight, decision, cache>>,
           ctx' = [ctx EXCEPT ![r] = [FreshContext EXCEPT !.stage = "lost"]]
    PROVE  CoreInv'
<1> DEFINE c == [FreshContext EXCEPT !.stage = "lost"]
<1>1. Fresh(c)
  BY DEF Fresh, FreshContext, Contexts, Stages, CleanupStages
<1>2. ctx' = [ctx EXCEPT ![r] = c]
  OBVIOUS
<1> HIDE DEF c
<1> QED
  BY <1>1, <1>2, FreshStep

LEMMA ThrowOrLoseStep ==
    ASSUME CoreInv, NEW r \in Runs, UNCHANGED <<ledgerVars, flight, decision, cache>>, ThrowOrLose(r),
           ctx[r].stage \notin {"idle", "done", "lost"}
    PROVE  CoreInv'
  BY LostStep, ThrowStep DEF ThrowOrLose

LEMMA FaultStep ==
    ASSUME CoreInv, NEW r \in Runs, stageThrows(r) \/ ToolCrash(r)
    PROVE  CoreInv'
<1>1. UNCHANGED <<ledgerVars, flight, decision, cache>>
  BY DEF stageThrows, ToolCrash
<1>2. CASE stageThrows(r)
  BY <1>1, <1>2, ThrowOrLoseStep DEF stageThrows, CleanupStages
<1>3. CASE ToolCrash(r)
  BY <1>1, <1>3, LostStep DEF ToolCrash, Goto
<1> QED
  BY <1>2, <1>3

(* Stages 5 to 12: a call that has no reservation and no result yet. *)
Opening == {"decision", "probe", "cache", "lease", "recheck", "estimate", "admit", "reserve"}

(* An opening stage hands on to another, or to the tail with a refusal or a hit. *)
LEMMA OpeningHonest ==
    ASSUME NEW old, NEW c, NEW res, Honest(old, res), old.stage \in Opening,
           c \in Contexts, c.reserved = old.reserved, c.result = old.result, c.envelope = old.envelope,
           old.served => c.served,
           \/ c.stage \in Opening
           \/ c.stage = FirstDuty(old) /\ (c.blocked \/ c.served)
    PROVE  Honest(c, res)
<1>1. old \in Contexts /\ c.envelope = "NONE"
  BY DEF Honest, Closes, Opening, Contexts
<1>2. Earns(c, res)
  BY <1>1 DEF Honest, Earns, Opening, FirstDuty, Contexts
<1>3. Closes(c, res)
  BY <1>1 DEF Closes, Opening, FirstDuty, Contexts
<1>4. Settles(c, res)
  BY <1>1 DEF Settles, Opening, FirstDuty, AfterSettle, Contexts
<1> QED
  BY <1>2, <1>3, <1>4 DEF Honest

LEMMA OpeningLeases ==
    ASSUME NEW old \in Contexts, NEW c \in Contexts, NEW f, Leases(old, f), old.stage \in Opening, c.token = old.token,
           c.stage \in Opening \union {"settle", "release"},
           c.stage \in UnderLease => old.stage \in UnderLease
    PROVE  Leases(c, f)
  BY DEF Leases, Opening, AfterRelease

LEMMA DecisionStep ==
    ASSUME CoreInv, NEW r \in Runs, persistRequested(r)
    PROVE  CoreInv'
<1> DEFINE old == ctx[r]
           row == decision[r]
           requests == ProposedState(old) = "REQUESTED"
<1>0. /\ old \in Contexts /\ old.stage = "decision" /\ row \in DecisionRows
      /\ UNCHANGED <<ledgerVars, flight, cache, retries, faults>>
  BY MyFacts DEF persistRequested, AtStage
<1>1. UNCHANGED reservation /\ LedgerTypes' /\ cache' \in {"NONE", "USABLE", "EXPIRED"}
  BY <1>0, MyFacts, LedgerTypesKept DEF ledgerVars
<1>2. CASE row # NoDecisionRow /\ ~RetryAgrees(old, row)
  <2>1. Throw(r) /\ UNCHANGED decision
    BY <1>2 DEF persistRequested
  <2> QED
    BY <1>0, <2>1, ThrowStep
<1>3. CASE row # NoDecisionRow /\ RetryAgrees(old, row)
  <2> DEFINE c == [[old EXCEPT !.requested = row.requested] EXCEPT !.stage = AfterDecision(old)]
  <2>1. ctx' = [ctx EXCEPT ![r] = c] /\ UNCHANGED decision
    BY <1>3 DEF persistRequested, Goto
  <2>2. /\ c \in Contexts /\ c.token = old.token /\ c.stage = AfterDecision(old) /\ c.blocked = old.blocked
        /\ c.reserved = old.reserved /\ c.result = old.result /\ c.envelope = old.envelope /\ c.served = old.served
    BY <1>0 DEF Contexts, DecisionRows, AfterDecision, FirstDuty, Stages, CleanupStages
  <2> HIDE DEF c
  <2>3. Honest(c, reservation[r])
    BY <1>0, <2>2, MyFacts, OpeningHonest DEF AfterDecision, Opening
  <2>4. Leases(c, flight)
    BY <1>0, <2>2, MyFacts, OpeningLeases DEF AfterDecision, Opening, FirstDuty, UnderLease
  <2>5. Probes(c, decision[r])
    BY <1>0, <2>2, MyFacts DEF Probes, AfterDecision, FirstDuty
  <2> QED
    BY <1>0, <1>1, <2>1, <2>2, <2>3, <2>4, <2>5, ContextStep
<1>4. CASE row = NoDecisionRow
  <2> DEFINE s == IF requests THEN "probe" ELSE AfterDecision(old)
             c == [[old EXCEPT !.requested = requests] EXCEPT !.stage = s]
             new == [state |-> ProposedState(old), requested |-> requests, probe |-> FALSE]
  <2>1. ctx' = [ctx EXCEPT ![r] = c] /\ decision' = [decision EXCEPT ![r] = new]
    BY <1>4 DEF persistRequested, Goto
  <2>2. /\ c \in Contexts /\ c.token = old.token /\ c.stage = s /\ c.blocked = old.blocked
        /\ c.reserved = old.reserved /\ c.result = old.result /\ c.envelope = old.envelope /\ c.served = old.served
    <3>1. requests \in BOOLEAN /\ s \in Stages
      BY DEF AfterDecision, FirstDuty, Stages, CleanupStages
    <3> HIDE DEF requests, s
    <3> QED
      BY <1>0, <3>1 DEF Contexts
  <2>3. new \in DecisionRows /\ new.requested = requests /\ ~new.probe
    <3>1. requests \in BOOLEAN /\ ProposedState(old) \in {"BLOCKED", "REQUESTED", "NOT_REQUESTED"}
      BY <1>0 DEF ProposedState, Contexts
    <3> HIDE DEF requests
    <3> QED
      BY <3>1 DEF DecisionRows
  <2> HIDE DEF c, new
  <2>4. Honest(c, reservation[r])
    BY <1>0, <2>2, MyFacts, OpeningHonest DEF AfterDecision, Opening
  <2>5. Leases(c, flight)
    BY <1>0, <2>2, MyFacts, OpeningLeases DEF AfterDecision, Opening, FirstDuty, UnderLease
  <2>6. Probes(c, new)
    BY <2>2, <2>3 DEF Probes, AfterDecision, FirstDuty
  <2>7. ctx'[r] = c /\ decision'[r] = new /\ CoreTypes'
    BY <1>0, <1>1, <2>1, <2>2, <2>3, MyFacts DEF CoreTypes
  <2>8. Mine(r)
    BY <1>1, <2>1, <2>2, <2>7, MyFacts DEF Mine, CoreInv, TokensDiffer
  <2> QED
    BY <1>0, <1>1, <2>4, <2>5, <2>6, <2>7, <2>8, StepOfOne DEF LeaseMoves
<1> QED
  BY <1>2, <1>3, <1>4 DEF persistRequested

LEMMA ProbeStep ==
    ASSUME CoreInv, NEW r \in Runs, recordProbeAssignment(r)
    PROVE  CoreInv'
<1> DEFINE c == [ctx[r] EXCEPT !.stage = "cache"]
           new == [decision[r] EXCEPT !.probe = TRUE]
<1>0. /\ ctx[r] \in Contexts /\ ctx[r].stage = "probe" /\ decision[r] \in DecisionRows
      /\ UNCHANGED <<ledgerVars, flight, cache, retries, faults>>
      /\ ctx' = [ctx EXCEPT ![r] = c] /\ decision' = [decision EXCEPT ![r] = new]
  BY MyFacts DEF recordProbeAssignment, AtStage, Advance, Goto
<1>1. UNCHANGED reservation /\ LedgerTypes' /\ cache' \in {"NONE", "USABLE", "EXPIRED"}
  BY <1>0, MyFacts, LedgerTypesKept DEF ledgerVars
<1>2. /\ c \in Contexts /\ c.token = ctx[r].token /\ c.stage = "cache"
      /\ c.reserved = ctx[r].reserved /\ c.result = ctx[r].result /\ c.envelope = ctx[r].envelope
      /\ c.served = ctx[r].served
  BY <1>0 DEF Contexts, Stages
<1>3. new \in DecisionRows /\ new.requested = decision[r].requested
  BY <1>0 DEF DecisionRows
<1> HIDE DEF c, new
<1>4. Honest(c, reservation[r])
  BY <1>0, <1>2, MyFacts, OpeningHonest DEF Opening
<1>5. Leases(c, flight)
  BY <1>0, <1>2, MyFacts, OpeningLeases DEF Opening, UnderLease
<1>6. Probes(c, new)
  BY <1>0, <1>2, <1>3, MyFacts DEF Probes
<1>7. ctx'[r] = c /\ decision'[r] = new /\ CoreTypes'
  BY <1>0, <1>1, <1>2, <1>3, MyFacts DEF CoreTypes
<1>8. Mine(r)
  BY <1>0, <1>1, <1>2, <1>7, MyFacts DEF Mine, CoreInv, TokensDiffer
<1> QED
  BY <1>0, <1>1, <1>4, <1>5, <1>6, <1>7, <1>8, StepOfOne DEF LeaseMoves

(* A step of an opening stage that moves nothing but the context of the     *)
(* call and, at most, the admission context of the process.                 *)
LEMMA OpeningStep ==
    ASSUME CoreInv, NEW r \in Runs, NEW c \in Contexts, ctx' = [ctx EXCEPT ![r] = c],
           LedgerTypes', UNCHANGED <<reservation, flight, decision, cache>>,
           ctx[r].stage \in Opening, c.token = ctx[r].token, c.reserved = ctx[r].reserved,
           c.result = ctx[r].result, c.envelope = ctx[r].envelope, ctx[r].served => c.served,
           c.stage # "probe",
           (c.stage \in Opening /\ (c.stage \in UnderLease => ctx[r].stage \in UnderLease))
               \/ (c.stage = FirstDuty(ctx[r]) /\ (c.blocked \/ c.served))
    PROVE  CoreInv'
<1>1. Honest(c, reservation[r])
  BY MyFacts, OpeningHonest
<1>2. Leases(c, flight)
  BY MyFacts, OpeningLeases DEF FirstDuty, UnderLease
<1>3. Probes(c, decision[r])
  BY MyFacts DEF Probes
<1>4. cache' \in {"NONE", "USABLE", "EXPIRED"}
  BY MyFacts
<1> QED
  BY <1>1, <1>2, <1>3, <1>4, ContextStep

LEMMA LookupSteps ==
    ASSUME CoreInv, NEW r \in Runs, lookupCache(r) \/ leaseWait(r) \/ leaseDeadline(r) \/ postLeaseRecheck(r)
    PROVE  CoreInv'
<1>0. /\ ctx[r] \in Contexts /\ ctx[r].stage \in {"cache", "lease", "recheck"}
      /\ UNCHANGED <<ledgerVars, flight, decision, cache>>
  BY MyFacts DEF lookupCache, leaseWait, leaseDeadline, postLeaseRecheck, AtStage
<1>1. UNCHANGED reservation /\ LedgerTypes'
  BY <1>0, LedgerTypesKept DEF ledgerVars
<1>2. CASE Block(r) /\ ctx[r].stage = "lease"
  BY <1>0, <1>1, <1>2, BlockStep
<1>3. CASE Goto(r, Served(ctx[r]), FirstDuty(ctx[r]))
  <2> DEFINE c == [Served(ctx[r]) EXCEPT !.stage = FirstDuty(ctx[r])]
  <2>1. /\ c \in Contexts /\ c.token = ctx[r].token /\ c.reserved = ctx[r].reserved
        /\ c.result = ctx[r].result /\ c.envelope = ctx[r].envelope /\ c.served
        /\ c.stage = FirstDuty(ctx[r]) /\ c.stage # "probe"
    BY <1>0 DEF Served, Contexts, FirstDuty, Stages, CleanupStages
  <2>2. ctx' = [ctx EXCEPT ![r] = c]
    BY <1>3 DEF Goto
  <2> HIDE DEF c
  <2> QED
    BY <1>0, <1>1, <2>1, <2>2, OpeningStep DEF Opening
<1>4. CASE ctx[r].stage \in {"cache", "lease"} /\ \E w \in BOOLEAN : Goto(r, [ctx[r] EXCEPT !.waited = w], "lease")
  <2>0. PICK w \in BOOLEAN : Goto(r, [ctx[r] EXCEPT !.waited = w], "lease")
    BY <1>4
  <2> DEFINE c == [[ctx[r] EXCEPT !.waited = w] EXCEPT !.stage = "lease"]
  <2>1. /\ c \in Contexts /\ c.token = ctx[r].token /\ c.reserved = ctx[r].reserved
        /\ c.result = ctx[r].result /\ c.envelope = ctx[r].envelope /\ c.served = ctx[r].served
        /\ c.stage = "lease"
    BY <1>0 DEF Contexts, Stages
  <2>2. ctx' = [ctx EXCEPT ![r] = c]
    BY <2>0 DEF Goto
  <2> HIDE DEF c
  <2> QED
    BY <1>0, <1>1, <2>1, <2>2, OpeningStep DEF Opening, UnderLease
<1>5. CASE Goto(r, [ctx[r] EXCEPT !.waited = FALSE], "estimate") /\ ctx[r].stage = "recheck"
  <2> DEFINE c == [[ctx[r] EXCEPT !.waited = FALSE] EXCEPT !.stage = "estimate"]
  <2>1. /\ c \in Contexts /\ c.token = ctx[r].token /\ c.reserved = ctx[r].reserved
        /\ c.result = ctx[r].result /\ c.envelope = ctx[r].envelope /\ c.served = ctx[r].served
        /\ c.stage = "estimate"
    BY <1>0 DEF Contexts, Stages
  <2>2. ctx' = [ctx EXCEPT ![r] = c]
    BY <1>5 DEF Goto
  <2> HIDE DEF c
  <2> QED
    BY <1>0, <1>1, <1>5, <2>1, <2>2, OpeningStep DEF Opening, UnderLease
<1>6. CASE Advance(r, "lease") /\ ctx[r].stage = "cache"
  <2>1. ctx[r] = [ctx[r] EXCEPT !.waited = ctx[r].waited] /\ ctx[r].waited \in BOOLEAN
    BY <1>0 DEF Contexts
  <2> QED
    BY <1>4, <1>6, <2>1 DEF Advance
<1> QED
  BY <1>2, <1>3, <1>4, <1>5, <1>6 DEF lookupCache, leaseWait, leaseDeadline, postLeaseRecheck, AtStage

LEMMA AcquireStep ==
    ASSUME CoreInv, NEW r \in Runs, leaseAcquire(r)
    PROVE  CoreInv'
<1> DEFINE c == [[ctx[r] EXCEPT !.token = flight.token + 1] EXCEPT !.stage = "recheck"]
<1>0. /\ ctx[r] \in Contexts /\ ctx[r].stage = "lease" /\ flight.token \in Nat
      /\ UNCHANGED <<ledgerVars, decision, cache>>
      /\ flight' = [token |-> flight.token + 1, status |-> "held"] /\ ctx' = [ctx EXCEPT ![r] = c]
  BY MyFacts DEF leaseAcquire, takeover, AtStage, Goto
<1>1. UNCHANGED reservation /\ LedgerTypes'
  BY <1>0, LedgerTypesKept DEF ledgerVars
<1>2. /\ c \in Contexts /\ c.token = flight.token + 1 /\ c.reserved = ctx[r].reserved
      /\ c.result = ctx[r].result /\ c.envelope = ctx[r].envelope /\ c.served = ctx[r].served
      /\ c.stage = "recheck"
  <2>1. \A t \in Nat : LET x == [[ctx[r] EXCEPT !.token = t] EXCEPT !.stage = "recheck"]
                      IN  /\ x \in Contexts /\ x.token = t /\ x.reserved = ctx[r].reserved
                          /\ x.result = ctx[r].result /\ x.envelope = ctx[r].envelope
                          /\ x.served = ctx[r].served /\ x.stage = "recheck"
    BY <1>0 DEF Contexts, Stages
  <2>2. flight.token + 1 \in Nat
    BY <1>0
  <2> QED
    BY <2>1, <2>2
<1> HIDE DEF c
<1>3. Honest(c, reservation[r])
  BY <1>0, <1>2, MyFacts, OpeningHonest DEF Opening
<1>4. Leases(c, flight') /\ Probes(c, decision[r])
  BY <1>0, <1>2, MyFacts DEF Leases, Probes, AfterRelease
<1>5. ctx'[r] = c /\ CoreTypes'
  BY <1>0, <1>1, <1>2, MyFacts DEF CoreTypes
<1>6. \A q \in Runs : ctx[q].token \in 0 .. flight.token
  BY DEF CoreInv, Leases
<1>7. Mine(r)
  BY <1>0, <1>1, <1>2, <1>5, <1>6, MyFacts DEF Mine
<1> QED
  BY <1>0, <1>1, <1>3, <1>4, <1>5, <1>7, StepOfOne DEF LeaseMoves

LEMMA QuotaSteps ==
    ASSUME CoreInv, NEW r \in Runs, (\E known \in BOOLEAN : quotaEstimate(r, known)) \/ quotaAdmit(r),
           LedgerTypes'
    PROVE  CoreInv'
<1>0. /\ ctx[r] \in Contexts /\ ctx[r].stage \in {"estimate", "admit"}
      /\ UNCHANGED <<reservation, flight, decision, cache>>
  BY MyFacts DEF quotaEstimate, quotaAdmit, AtStage, estimateContext, admitContext, ledgerVars
<1>1. CASE Block(r)
  BY <1>0, <1>1, BlockStep
<1>2. CASE Throw(r) /\ UNCHANGED ledgerVars
  BY <1>0, <1>2, ThrowStep
<1>3. ASSUME NEW s \in {"admit", "estimate", "reserve"}, NEW d \in BOOLEAN, Goto(r, [ctx[r] EXCEPT !.downgraded = d], s)
      PROVE  CoreInv'
  <2> DEFINE c == [[ctx[r] EXCEPT !.downgraded = d] EXCEPT !.stage = s]
  <2>1. /\ c \in Contexts /\ c.token = ctx[r].token /\ c.reserved = ctx[r].reserved
        /\ c.result = ctx[r].result /\ c.envelope = ctx[r].envelope /\ c.served = ctx[r].served
        /\ c.stage = s
    BY <1>0 DEF Contexts, Stages
  <2>2. ctx' = [ctx EXCEPT ![r] = c]
    BY <1>3 DEF Goto
  <2> HIDE DEF c
  <2> QED
    BY <1>0, <2>1, <2>2, OpeningStep DEF Opening, UnderLease
<1>4. ctx[r] = [ctx[r] EXCEPT !.downgraded = ctx[r].downgraded] /\ ctx[r].downgraded \in BOOLEAN
  BY <1>0 DEF Contexts
<1>5. ASSUME NEW s \in {"admit", "reserve"}, Advance(r, s) PROVE CoreInv'
  BY <1>3, <1>4, <1>5 DEF Advance
<1> QED
  BY <1>1, <1>2, <1>3, <1>5 DEF quotaEstimate, quotaAdmit

LEMMA ReserveStep ==
    ASSUME CoreInv, NEW r \in Runs, quotaReserve(r), LedgerTypes'
    PROVE  CoreInv'
<1> DEFINE c == [[ctx[r] EXCEPT !.reserved = TRUE] EXCEPT !.stage = "dispatch"]
<1>0. ctx[r] \in Contexts /\ ctx[r].stage = "reserve" /\ UNCHANGED <<flight, decision, cache>>
  BY MyFacts DEF quotaReserve, AtStage
<1>1. CASE Block(r) /\ UNCHANGED ledgerVars
  BY <1>0, <1>1, BlockStep DEF ledgerVars
<1>2. CASE reserveTx(r) /\ ctx' = [ctx EXCEPT ![r] = c]
  <2>1. /\ c \in Contexts /\ c.token = ctx[r].token /\ c.reserved /\ c.stage = "dispatch"
        /\ c.result = ctx[r].result /\ c.envelope = ctx[r].envelope
    BY <1>0 DEF Contexts, Stages
  <2>2. \A q \in Runs : q # r => reservation'[q] = reservation[q]
    BY <1>2, MyFacts DEF reserveTx, LedgerTypes
  <2> HIDE DEF c
  <2>3. Honest(c, reservation'[r])
    BY <1>0, <2>1, MyFacts DEF Honest, Earns, Closes, Settles, AfterSettle
  <2>4. Leases(c, flight) /\ Probes(c, decision[r])
    BY <1>0, <2>1, MyFacts DEF Leases, Probes, UnderLease, AfterRelease
  <2>5. ctx'[r] = c /\ CoreTypes'
    BY <1>0, <1>2, <2>1, MyFacts DEF CoreTypes
  <2>6. Mine(r)
    BY <1>0, <1>2, <2>1, <2>2, <2>5, MyFacts DEF Mine, CoreInv, TokensDiffer
  <2> QED
    BY <1>0, <2>3, <2>4, <2>5, <2>6, StepOfOne DEF LeaseMoves
<1> QED
  BY <1>1, <1>2 DEF quotaReserve, Goto

LEMMA DispatchStep ==
    ASSUME CoreInv, NEW r \in Runs, NEW valid \in BOOLEAN, dispatch(r, valid)
    PROVE  CoreInv'
<1> DEFINE c == [[ctx[r] EXCEPT !.result = TRUE] EXCEPT !.stage = FirstDuty(ctx[r])]
<1>0. /\ ctx[r] \in Contexts /\ ctx[r].stage = "dispatch"
      /\ UNCHANGED <<ledgerVars, flight, decision, cache>>
  BY MyFacts DEF dispatch, AtStage
<1>1. UNCHANGED reservation /\ LedgerTypes' /\ cache' \in {"NONE", "USABLE", "EXPIRED"}
  BY <1>0, MyFacts, LedgerTypesKept DEF ledgerVars
<1>2. CASE Block(r)
  BY <1>0, <1>1, <1>2, BlockStep
<1>3. CASE ctx' = [ctx EXCEPT ![r] = c]
  <2>1. ctx[r].reserved
    BY <1>0, MyFacts DEF Honest, Earns
  <2>2. /\ c \in Contexts /\ c.token = ctx[r].token /\ c.reserved /\ c.stage = "settle" /\ c.result
        /\ c.envelope = ctx[r].envelope
    BY <1>0, <2>1 DEF Contexts, Stages, FirstDuty, CleanupStages
  <2> HIDE DEF c
  <2>3. Honest(c, reservation[r])
    BY <1>0, <2>2, MyFacts DEF Honest, Earns, Closes, Settles, AfterSettle
  <2>4. Leases(c, flight) /\ Probes(c, decision[r])
    BY <1>0, <2>2, MyFacts DEF Leases, Probes, UnderLease, AfterRelease
  <2> QED
    BY <1>0, <1>1, <1>3, <2>2, <2>3, <2>4, ContextStep
<1> QED
  BY <1>2, <1>3 DEF dispatch, Goto

-----------------------------------------------------------------------------
(* The tail *)

(* A tail stage that hands the context on unchanged but for its stage. *)
LEMMA TailMove ==
    ASSUME NEW c \in Contexts, NEW s \in Stages
    PROVE  LET n == [c EXCEPT !.stage = s]
           IN  /\ n \in Contexts /\ n.stage = s /\ n.token = c.token /\ n.reserved = c.reserved
               /\ n.result = c.result /\ n.served = c.served /\ n.blocked = c.blocked
               /\ n.threw = c.threw /\ n.audited = c.audited /\ n.envelope = c.envelope
  BY DEF Contexts

LEMMA SettleStep ==
    ASSUME CoreInv, NEW r \in Runs, NEW u \in ActualUnits, quotaSettle(r, u), LedgerTypes'
    PROVE  CoreInv'
<1> DEFINE old == ctx[r]
           succeeded == ~old.blocked /\ old.result
<1>0. old \in Contexts /\ old.stage = "settle" /\ UNCHANGED <<flight, decision, cache>>
  BY MyFacts DEF quotaSettle, AtStage
<1>1. CASE Throw(r) /\ UNCHANGED ledgerVars
  BY <1>0, <1>1, ThrowStep
<1>2. ASSUME NEW s \in {"persist", "release"}, Advance(r, s),
             \A q \in Runs : q # r => reservation'[q] = reservation[q],
             \/ succeeded /\ reservation'[r].state = "COMMITTED"
             \/ ~succeeded /\ reservation'[r].state = "RELEASED"
      PROVE  CoreInv'
  <2> DEFINE c == [old EXCEPT !.stage = s]
  <2>1. /\ c \in Contexts /\ c.stage = s /\ c.token = old.token /\ c.reserved = old.reserved
        /\ c.result = old.result /\ c.served = old.served /\ c.blocked = old.blocked
        /\ c.envelope = old.envelope
    <3>1. s \in Stages
      BY DEF Stages, CleanupStages
    <3> QED
      BY <1>0, <3>1, TailMove
  <2>2. ctx' = [ctx EXCEPT ![r] = c]
    BY <1>2 DEF Advance, Goto
  <2> HIDE DEF c
  <2>3. Honest(old, reservation[r]) /\ ~old.blocked => old.served \/ old.result
    BY <1>0 DEF Honest, Earns
  <2>4. Honest(c, reservation'[r])
    BY <1>0, <1>2, <2>1, <2>3, MyFacts DEF Honest, Earns, Closes, Settles
  <2>5. Leases(c, flight) /\ Probes(c, decision[r])
    BY <1>0, <2>1, MyFacts DEF Leases, Probes, UnderLease, AfterRelease
  <2>6. ctx'[r] = c /\ CoreTypes'
    BY <1>0, <2>1, <2>2, MyFacts DEF CoreTypes
  <2>7. Mine(r)
    BY <1>0, <1>2, <2>1, <2>2, <2>6, MyFacts DEF Mine, CoreInv, TokensDiffer
  <2> QED
    BY <1>0, <2>4, <2>5, <2>6, <2>7, StepOfOne DEF LeaseMoves
<1>3. CASE succeeded /\ commitTx(r, u) /\ Advance(r, "persist")
  <2>1. reservation'[r].state = "COMMITTED" /\ \A q \in Runs : q # r => reservation'[q] = reservation[q]
    BY <1>3, MyFacts DEF commitTx, LedgerTypes, ReservationRows
  <2> QED
    BY <1>2, <1>3, <2>1
<1>4. CASE ~succeeded /\ releaseTx(r) /\ Advance(r, "release")
  <2>1. reservation'[r].state = "RELEASED" /\ \A q \in Runs : q # r => reservation'[q] = reservation[q]
    BY <1>4, MyFacts DEF releaseTx, LedgerTypes, ReservationRows
  <2> QED
    BY <1>2, <1>4, <2>1
<1> QED
  BY <1>1, <1>3, <1>4 DEF quotaSettle

LEMMA PersistStep ==
    ASSUME CoreInv, NEW r \in Runs, NEW permitted \in BOOLEAN, persistResult(r, permitted)
    PROVE  CoreInv'
<1> DEFINE c == [ctx[r] EXCEPT !.stage = "release"]
<1>0. /\ ctx[r] \in Contexts /\ ctx[r].stage = "persist" /\ ctx' = [ctx EXCEPT ![r] = c]
      /\ UNCHANGED <<ledgerVars, flight, decision>> /\ cache' \in {"NONE", "USABLE", "EXPIRED"}
  BY MyFacts DEF persistResult, AtStage, Advance, Goto
<1>1. UNCHANGED reservation /\ LedgerTypes'
  BY <1>0, LedgerTypesKept DEF ledgerVars
<1>2. /\ c \in Contexts /\ c.stage = "release" /\ c.token = ctx[r].token /\ c.reserved = ctx[r].reserved
      /\ c.result = ctx[r].result /\ c.served = ctx[r].served /\ c.blocked = ctx[r].blocked
      /\ c.threw = ctx[r].threw /\ c.envelope = ctx[r].envelope
  <2>1. "release" \in Stages
    BY DEF Stages, CleanupStages
  <2> QED
    BY <1>0, <2>1, TailMove
<1> HIDE DEF c
<1>3. Honest(c, reservation[r])
  BY <1>0, <1>2, MyFacts DEF Honest, Earns, Closes, Settles, AfterSettle
<1>4. Leases(c, flight) /\ Probes(c, decision[r])
  BY <1>0, <1>2, MyFacts DEF Leases, Probes, UnderLease, AfterRelease
<1> QED
  BY <1>0, <1>1, <1>2, <1>3, <1>4, ContextStep

LEMMA ReleaseStep ==
    ASSUME CoreInv, NEW r \in Runs, leaseRelease(r)
    PROVE  CoreInv'
<1> DEFINE c == [ctx[r] EXCEPT !.stage = "outcome"]
<1>0. /\ ctx[r] \in Contexts /\ ctx[r].stage = "release" /\ ctx' = [ctx EXCEPT ![r] = c]
      /\ UNCHANGED <<ledgerVars, decision, cache>>
  BY MyFacts DEF leaseRelease, AtStage, Advance, Goto
<1>1. UNCHANGED reservation /\ LedgerTypes' /\ flight.token \in Nat
  BY <1>0, MyFacts, LedgerTypesKept DEF ledgerVars
<1>2. /\ c \in Contexts /\ c.stage = "outcome" /\ c.token = ctx[r].token /\ c.reserved = ctx[r].reserved
      /\ c.result = ctx[r].result /\ c.served = ctx[r].served /\ c.blocked = ctx[r].blocked
      /\ c.threw = ctx[r].threw /\ c.envelope = ctx[r].envelope
  <2>1. "outcome" \in Stages
    BY DEF Stages, CleanupStages
  <2> QED
    BY <1>0, <2>1, TailMove
<1> HIDE DEF c
<1>3. /\ flight'.token = flight.token /\ flight' \in [token : Nat, status : {"free", "held", "expired"}]
      /\ flight' = flight \/ (flight'.status = "free" /\ ctx[r].token # 0 /\ ctx[r].token = flight.token)
      /\ ctx[r].token # 0 /\ ctx[r].token = flight.token => flight'.status = "free"
  BY MyFacts DEF leaseRelease, releaseLease, ReleaseMatches
<1>4. Honest(c, reservation[r])
  BY <1>0, <1>2, MyFacts DEF Honest, Earns, Closes, Settles, AfterSettle
<1>5. Leases(c, flight') /\ Probes(c, decision[r])
  BY <1>0, <1>1, <1>2, <1>3, MyFacts DEF Leases, Probes, UnderLease, AfterRelease
<1>6. ctx'[r] = c /\ CoreTypes'
  BY <1>0, <1>1, <1>2, <1>3, MyFacts DEF CoreTypes
<1>7. Mine(r)
  BY <1>0, <1>1, <1>2, <1>6, MyFacts DEF Mine, CoreInv, TokensDiffer
<1> QED
  BY <1>0, <1>1, <1>3, <1>4, <1>5, <1>6, <1>7, StepOfOne DEF LeaseMoves

LEMMA OutcomeStep ==
    ASSUME CoreInv, NEW r \in Runs, NEW payload \in BOOLEAN, acquisitionOutcome(r, payload)
    PROVE  CoreInv'
<1> DEFINE old == ctx[r]
           c == IF old.served /\ ~old.result
                THEN IF payload THEN [old EXCEPT !.result = TRUE] ELSE Blocked(old)
                ELSE old
           n == [c EXCEPT !.stage = "audit"]
<1>0. /\ old \in Contexts /\ old.stage = "outcome" /\ UNCHANGED <<ledgerVars, flight, cache>>
      /\ decision[r] \in DecisionRows /\ Honest(old, reservation[r]) /\ Leases(old, flight)
      /\ Probes(old, decision[r])
  BY MyFacts DEF acquisitionOutcome, AtStage
<1>1. UNCHANGED reservation /\ LedgerTypes' /\ cache' \in {"NONE", "USABLE", "EXPIRED"}
  BY <1>0, MyFacts, LedgerTypesKept DEF ledgerVars
<1>2. /\ c \in Contexts /\ c.stage = "outcome" /\ c.token = old.token /\ c.reserved = old.reserved
      /\ c.threw = old.threw /\ c.served = old.served /\ c.envelope = old.envelope
      /\ old.result => c.result
      /\ c.result => old.result \/ old.served
      /\ ~c.blocked => ~old.blocked /\ (c.served => c.result)
  <2>1. CASE ~(old.served /\ ~old.result)
    BY <1>0, <2>1 DEF Contexts
  <2>2. CASE old.served /\ ~old.result /\ payload
    BY <1>0, <2>2 DEF Contexts
  <2>3. CASE old.served /\ ~old.result /\ ~payload
    BY <1>0, <2>3 DEF Blocked, Contexts
  <2> QED
    BY <2>1, <2>2, <2>3
<1>3. \/ ctx' = [ctx EXCEPT ![r] = n] /\ UNCHANGED decision
      \/ /\ ctx' = [ctx EXCEPT ![r] = n]
         /\ decision' = [decision EXCEPT ![r].state = IF c.blocked THEN "REFUSED" ELSE "RETURNED"]
      \/ ctx' = [ctx EXCEPT ![r] = ThrownContext(c)] /\ UNCHANGED decision
  BY DEF acquisitionOutcome, Goto
<1> HIDE DEF c
<1>4. Honest(c, reservation[r])
  BY <1>0, <1>2 DEF Honest, Earns, Closes, Settles
<1>5. Leases(c, flight) /\ Probes(c, decision[r])
  BY <1>0, <1>2 DEF Leases, Probes, UnderLease, AfterRelease
<1>6. /\ n \in Contexts /\ n.stage = "audit" /\ n.token = c.token /\ n.reserved = c.reserved
      /\ n.result = c.result /\ n.served = c.served /\ n.blocked = c.blocked
      /\ n.threw = c.threw /\ n.envelope = c.envelope
  <2>1. "audit" \in Stages
    BY DEF Stages
  <2> QED
    BY <1>2, <2>1, TailMove
<1> HIDE DEF n
<1>7. Honest(n, reservation[r])
  BY <1>2, <1>4, <1>6 DEF Honest, Earns, Closes, Settles, AfterSettle
<1>8. Leases(n, flight)
  BY <1>2, <1>5, <1>6 DEF Leases, UnderLease, AfterRelease
<1>9. CASE ctx' = [ctx EXCEPT ![r] = n] /\ UNCHANGED decision
  <2>1. Probes(n, decision[r])
    BY <1>5, <1>6 DEF Probes
  <2> QED
    BY <1>0, <1>1, <1>2, <1>6, <1>7, <1>8, <1>9, <2>1, ContextStep
<1>10. CASE /\ ctx' = [ctx EXCEPT ![r] = n]
            /\ decision' = [decision EXCEPT ![r].state = IF c.blocked THEN "REFUSED" ELSE "RETURNED"]
  <2>1. /\ decision' \in [Runs -> DecisionRows] /\ decision'[r].requested = decision[r].requested
        /\ decision'[r].probe = decision[r].probe /\ \A q \in Runs : q # r => decision'[q] = decision[q]
    BY <1>10, MyFacts DEF DecisionRows
  <2>2. Probes(n, decision'[r])
    BY <1>5, <1>6, <2>1 DEF Probes
  <2>3. ctx'[r] = n /\ CoreTypes'
    BY <1>0, <1>1, <1>6, <1>10, <2>1, MyFacts DEF CoreTypes
  <2>4. Mine(r)
    BY <1>1, <1>2, <1>6, <1>10, <2>1, <2>3, MyFacts DEF Mine, CoreInv, TokensDiffer
  <2> QED
    BY <1>0, <1>1, <1>7, <1>8, <2>2, <2>3, <2>4, StepOfOne DEF LeaseMoves
<1>11. CASE ctx' = [ctx EXCEPT ![r] = ThrownContext(c)] /\ UNCHANGED decision
  <2> DEFINE t == ThrownContext(c)
  <2>1. Honest(t, reservation[r]) /\ Leases(t, flight)
    BY <1>2, <1>4, <1>5, ThrowHonest, ThrowLeases
  <2>2. t.stage # "probe" /\ t.token = c.token
    BY <1>2 DEF ThrownContext, Blocked, FirstDuty, Contexts, Stages, CleanupStages, After
  <2>3. Probes(t, decision[r])
    BY <1>5, <2>2 DEF Probes
  <2> HIDE DEF t
  <2>4. ctx' = [ctx EXCEPT ![r] = t]
    BY <1>11 DEF t
  <2> QED
    BY <1>0, <1>1, <1>2, <1>11, <2>1, <2>2, <2>3, <2>4, ContextStep
<1> QED
  BY <1>3, <1>9, <1>10, <1>11

LEMMA ClosingStep ==
    ASSUME CoreInv, NEW r \in Runs, NEW payload \in BOOLEAN, audit(r) \/ envelope(r, payload)
    PROVE  CoreInv'
<1> DEFINE old == ctx[r]
           a == [[old EXCEPT !.audited = Exit(old)] EXCEPT !.stage = "envelope"]
           result == (old.result \/ old.served)
           e == [[old EXCEPT !.result = result, !.envelope = Exit(old)] EXCEPT !.stage = "done"]
<1>0. /\ old \in Contexts /\ UNCHANGED <<ledgerVars, flight, decision, cache>>
      /\ Honest(old, reservation[r]) /\ Leases(old, flight) /\ Probes(old, decision[r])
  BY MyFacts DEF audit, envelope
<1>1. UNCHANGED reservation /\ LedgerTypes' /\ cache' \in {"NONE", "USABLE", "EXPIRED"}
  BY <1>0, MyFacts, LedgerTypesKept DEF ledgerVars
<1>2. Exit(old) \in {"BLOCKED", "SUCCESS"} /\ (Exit(old) = "SUCCESS" <=> ~old.blocked)
  BY DEF Exit
<1>3. CASE ctx' = [ctx EXCEPT ![r] = a] /\ old.stage = "audit"
  <2>1. /\ a \in Contexts /\ a.stage = "envelope" /\ a.token = old.token /\ a.reserved = old.reserved
        /\ a.result = old.result /\ a.served = old.served /\ a.blocked = old.blocked
        /\ a.threw = old.threw /\ a.envelope = old.envelope /\ a.audited = Exit(old)
    BY <1>0, <1>2 DEF Contexts, Stages
  <2> HIDE DEF a
  <2>2. Honest(a, reservation[r])
    BY <1>0, <1>2, <1>3, <2>1 DEF Honest, Earns, Closes, Settles, AfterSettle
  <2>3. Leases(a, flight) /\ Probes(a, decision[r])
    BY <1>0, <1>3, <2>1 DEF Leases, Probes, UnderLease, AfterRelease
  <2> QED
    BY <1>0, <1>1, <1>3, <2>1, <2>2, <2>3, ContextStep
<1>4. CASE ctx' = [ctx EXCEPT ![r] = e] /\ old.stage = "envelope"
  <2>0. result \in BOOLEAN
    BY <1>0 DEF Contexts
  <2> HIDE DEF result
  <2>1. /\ e \in Contexts /\ e.stage = "done" /\ e.token = old.token /\ e.reserved = old.reserved
        /\ e.result = result /\ e.served = old.served /\ e.blocked = old.blocked
        /\ e.threw = old.threw /\ e.envelope = Exit(old) /\ e.audited = old.audited
    BY <1>0, <1>2, <2>0 DEF Contexts, Stages
  <2> HIDE DEF e
  <2>2. Honest(e, reservation[r])
    BY <1>0, <1>2, <1>4, <2>1 DEF result, Honest, Earns, Closes, Settles, AfterSettle
  <2>3. Leases(e, flight) /\ Probes(e, decision[r])
    BY <1>0, <1>4, <2>1 DEF Leases, Probes, UnderLease, AfterRelease
  <2> QED
    BY <1>0, <1>1, <1>4, <2>1, <2>2, <2>3, ContextStep
<1>5. CASE ThrowOrLose(r) /\ old.stage = "envelope"
  BY <1>0, <1>5, ThrowOrLoseStep
<1> QED
  BY <1>3, <1>4, <1>5 DEF audit, envelope, AtStage, Goto

-----------------------------------------------------------------------------
LEMMA CoreStep == LedgerInv /\ CoreInv /\ [ToolNext]_toolVars => CoreInv'
<1> SUFFICES ASSUME LedgerInv, CoreInv, [ToolNext]_toolVars PROVE CoreInv'
  OBVIOUS
<1>0. LedgerTypes'
  BY LedgerStep DEF LedgerInv
<1>1. CASE UNCHANGED toolVars
  BY <1>1 DEF toolVars, ledgerVars, coreVars, CoreInv, CoreTypes, LedgerTypes, TokensDiffer
<1>2. CASE LeaseTtlPasses
  <2>1. /\ UNCHANGED <<ledgerVars, coreVars>> /\ flight'.token = flight.token
        /\ flight'.status = "expired" /\ flight' \in [token : Nat, status : {"free", "held", "expired"}]
    BY <1>2 DEF LeaseTtlPasses, FlightExpires, CoreInv, CoreTypes
  <2>2. ASSUME NEW r \in Runs PROVE Leases(ctx[r], flight')
    BY <2>1, MyFacts DEF Leases
  <2> QED
    BY <2>1, <2>2 DEF CoreInv, CoreTypes, LedgerTypes, TokensDiffer, ledgerVars, coreVars
<1>3. CASE CacheAges
  BY <1>3 DEF CacheAges, ledgerVars, CoreInv, CoreTypes, LedgerTypes, TokensDiffer
<1>4. ASSUME NEW r \in Runs, StageSteps(r) PROVE CoreInv'
  BY <1>0, <1>4, DecisionStep, ProbeStep, LookupSteps, AcquireStep, QuotaSteps, ReserveStep, DispatchStep,
     SettleStep, PersistStep, ReleaseStep, OutcomeStep, ClosingStep DEF StageSteps
<1> QED
  BY <1>1, <1>2, <1>3, <1>4, ExecuteStep, FaultStep DEF ToolNext

LEMMA CoreInit == ToolInit => CoreInv
<1> SUFFICES ASSUME ToolInit PROVE CoreInv
  OBVIOUS
<1>1. LedgerTypes
  BY LedgerInitial DEF LedgerInv
<1>2. Fresh(FreshContext)
  BY DEF Fresh, FreshContext, Contexts, Stages, CleanupStages
<1>3. /\ \A r \in Runs : ctx[r] = FreshContext /\ decision[r] = NoDecisionRow
      /\ flight = [token |-> 0, status |-> "free"]
      /\ NoDecisionRow \in DecisionRows
  BY DEF ToolInit, FlightInit, DecisionRows, NoDecisionRow
<1>4. CoreTypes
  BY <1>1, <1>2 DEF ToolInit, FlightInit, CoreTypes, Fresh, DecisionRows, NoDecisionRow
<1>5. TokensDiffer
  BY <1>2, <1>3 DEF TokensDiffer, Fresh
<1>6. ASSUME NEW r \in Runs
      PROVE  Honest(ctx[r], reservation[r]) /\ Leases(ctx[r], flight) /\ Probes(ctx[r], decision[r])
  <2>1. Honest(FreshContext, reservation[r])
    BY <1>2, FreshHonest
  <2>2. Leases(FreshContext, flight) /\ Probes(FreshContext, NoDecisionRow)
    BY <1>2, <1>3 DEF Fresh, Leases, Probes, UnderLease, AfterRelease, NoDecisionRow
  <2> QED
    BY <1>3, <2>1, <2>2
<1> QED
  BY <1>4, <1>5, <1>6 DEF CoreInv

LEMMA CoreInvariant == ToolSpec => [](LedgerInv /\ CoreInv)
  BY LedgerInitial, LedgerStep, CoreInit, CoreStep, PTL DEF ToolSpec

(* Contexts, rows and the lease keep their types; a result has a           *)
(* reservation or a cache entry behind it and a probe a request.           *)
THEOREM ToolTypes == ToolSpec => []ToolTypeOK
<1>1. CoreInv => ToolTypeOK
  <2> SUFFICES ASSUME CoreInv PROVE ToolTypeOK
    OBVIOUS
  <2>1. ASSUME NEW r \in Runs
        PROVE  /\ reservation[r].state \in {"NONE", "RESERVED", "COMMITTED", "RELEASED"}
               /\ reservation[r].bucket \in Buckets \union {"none"}
               /\ ctx[r].stage \in Stages /\ ctx[r].threw \subseteq CleanupStages
               /\ ctx[r].result => ctx[r].reserved \/ ctx[r].served
               /\ decision[r].probe => decision[r].requested
               /\ decision[r].state \in {"NONE", "NOT_REQUESTED", "BLOCKED", "REQUESTED", "RETURNED", "REFUSED"}
    <3>1. ctx[r].stage \in Stages /\ ctx[r].threw \subseteq CleanupStages
      BY MyFacts DEF Contexts
    <3>2. (ctx[r].result => ctx[r].reserved \/ ctx[r].served) /\ (decision[r].probe => decision[r].requested)
      BY MyFacts DEF Honest, Earns, Probes
    <3> QED
      BY <3>1, <3>2, MyFacts DEF ReservationRows, DecisionRows
  <2> QED
    BY <2>1 DEF ToolTypeOK, CoreInv, CoreTypes, LedgerTypes
<1> QED
  BY <1>1, CoreInvariant, PTL

(* A SUCCESS envelope is audited and rests on a cache entry or a committed *)
(* reservation, whatever stages throw, crash or are retried (engine.ts).   *)
THEOREM SuccessEarned == ToolSpec => []SuccessIsEarned
<1>1. CoreInv => SuccessIsEarned
  BY MyFacts DEF SuccessIsEarned, Honest, Closes
<1> QED
  BY <1>1, CoreInvariant, PTL

(* Of the calls at the provider at most one holds the current token, and   *)
(* no late release frees it, for any number of calls and expiries          *)
(* (acquire and release of the single-flight lease).                       *)
THEOREM OneCallerEach == ToolSpec => []SingleCaller
<1>1. CoreInv => SingleCaller
  <2> SUFFICES ASSUME CoreInv, NEW r \in Runs, ctx[r].stage = "dispatch"
               PROVE  /\ ctx[r].token \in 1 .. flight.token
                      /\ ctx[r].token = flight.token => flight.status # "free"
                      /\ \A q \in Runs \ {r} : ctx[q].token # ctx[r].token
    BY DEF SingleCaller, AtStage
  <2>1. /\ ctx[r].token # 0 /\ ctx[r].token \in 0 .. flight.token
        /\ ctx[r].token = flight.token => flight.status # "free"
    BY MyFacts DEF Leases, UnderLease
  <2>2. \A q \in Runs \ {r} : ctx[q].token # ctx[r].token
    BY <2>1 DEF CoreInv, TokensDiffer
  <2> QED
    BY <2>1, <2>2, MyFacts
<1> QED
  BY <1>1, CoreInvariant, PTL

(* A call that returned an envelope left neither its reservation open nor  *)
(* its lease held, unless that duty itself threw (the failure cleanup of   *)
(* execute).                                                               *)
THEOREM TailDischarged == ToolSpec => []DutiesDischarged
<1>1. CoreInv => DutiesDischarged
  <2> SUFFICES ASSUME CoreInv, NEW r \in Runs, ctx[r].stage = "done"
               PROVE  /\ ctx[r].reserved /\ reservation[r].state = "RESERVED" => "settle" \in ctx[r].threw
                      /\ ctx[r].token # 0 /\ flight = [token |-> ctx[r].token, status |-> "held"]
                             => "release" \in ctx[r].threw
    BY DEF DutiesDischarged, AtStage
  <2> QED
    BY MyFacts DEF Honest, Settles, Leases, AfterSettle, AfterRelease
<1> QED
  BY <1>1, CoreInvariant, PTL

=============================================================================
