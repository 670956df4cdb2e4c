---------------------------- MODULE ReleaseProofs ----------------------------
(***************************************************************************)
(* Proofs about what is let out, for every set of packages, alerts,        *)
(* requests and sweepers and any number of receipts, crashes, pushes and   *)
(* merges by others: the state-landing lane and the alert lifecycle.       *)
(***************************************************************************)
EXTENDS MCRelease, SequenceTheorems, TLAPS

-----------------------------------------------------------------------------
(* Landing: types *)

Receipts ==
    [status : RECEIPT_STATUSES, pkg : Packages, from : PackageStatus, to : PackageStatus,
     desired : Content, src : 1..MaxMain, pr : BOOLEAN, auth : Heads,
     updates : 0..MaxBaseUpdates, retries : 0..(MaxVerifyRetries + 1), merged : 0..MaxMain,
     leftover : BOOLEAN]
Branches ==
    [worktree : Heads, remote : Heads, state : {"NONE", "OPEN", "MERGED"}, head : Heads,
     at : 0..MaxMain]
Snapshots == [pkg : Packages, from : PackageStatus, to : PackageStatus, desired : Content]
BusySteps == {"idle", "BRANCH_READY", "BRANCH_PUSHED", "PR_READY", "WAITING_CI", "MERGE_REQUESTED",
              "pinned", "rebased", "merge"}

LandingTypes ==
    /\ mainLog \in Seq(Content) /\ Len(mainLog) \in 1..MaxMain
    /\ local \in 1..Len(mainLog)
    /\ queued \in Seq(Snapshots) /\ Len(queued) <= 1
    /\ receipts \in Seq(Receipts) /\ Len(receipts) <= MaxTransitions
    /\ branches \in Seq(Branches) /\ Len(branches) = Len(receipts)
    /\ green \cap red = {}
    /\ busy \in [of : 0..MaxTransitions, at : BusySteps, pin : Heads]
    /\ boot \subseteq Ids /\ foreign \in 0..MaxForeign /\ faults \in 0..MaxFaults

(* A head carries no more commits by others than were made. *)
RevsCounted == \A i \in Ids :
    /\ branches[i].worktree.rev <= foreign /\ branches[i].remote.rev <= foreign
    /\ branches[i].head.rev <= foreign

LandingBase == LandingTypes /\ RevsCounted

LEMMA LandingNumbers ==
    /\ MaxTransitions \in Nat /\ MaxMain \in Nat /\ MaxForeign \in Nat /\ MaxFaults \in Nat
    /\ MaxMain > 0 /\ "PENDING" \in PackageStatus
  BY LandingBounds

LEMMA NoHeadTyped == NoHead \in Heads /\ NoHead.rev = 0
  BY LandingNumbers DEF NoHead, Heads, Content

(* What the steps write to a receipt keeps its type, and the transition it   *)
(* is about.                                                                 *)
SameWork(q, r) ==
    /\ q.pkg = r.pkg /\ q.from = r.from /\ q.to = r.to /\ q.desired = r.desired /\ q.src = r.src

LEMMA StatusWrite ==
    ASSUME NEW r \in Receipts, NEW s \in RECEIPT_STATUSES
    PROVE  LET q == [r EXCEPT !.status = s] IN
           /\ q \in Receipts /\ q.status = s /\ SameWork(q, r) /\ q.auth = r.auth /\ q.pr = r.pr
           /\ q.updates = r.updates /\ q.retries = r.retries /\ q.merged = r.merged
  BY DEF Receipts, SameWork

LEMMA AuthWrite ==
    ASSUME NEW r \in Receipts, NEW a \in Heads
    PROVE  LET q == [r EXCEPT !.auth = a] IN
           q \in Receipts /\ q.status = r.status /\ SameWork(q, r) /\ q.auth = a
  BY DEF Receipts, SameWork

LEMMA PrWrite ==
    ASSUME NEW r \in Receipts, NEW p \in BOOLEAN
    PROVE  LET q == [r EXCEPT !.pr = p] IN
           q \in Receipts /\ q.status = r.status /\ SameWork(q, r) /\ q.auth = r.auth
  BY DEF Receipts, SameWork

LEMMA UpdatesWrite ==
    ASSUME NEW r \in Receipts, NEW n \in 0..MaxBaseUpdates
    PROVE  LET q == [r EXCEPT !.updates = n] IN
           q \in Receipts /\ q.status = r.status /\ SameWork(q, r) /\ q.auth = r.auth
  BY DEF Receipts, SameWork

LEMMA RetriesWrite ==
    ASSUME NEW r \in Receipts, NEW n \in 0..(MaxVerifyRetries + 1)
    PROVE  LET q == [r EXCEPT !.retries = n] IN
           q \in Receipts /\ q.status = r.status /\ SameWork(q, r) /\ q.auth = r.auth
  BY DEF Receipts, SameWork

LEMMA MergedWrite ==
    ASSUME NEW r \in Receipts, NEW n \in 0..MaxMain
    PROVE  LET q == [r EXCEPT !.merged = n] IN
           /\ q \in Receipts /\ q.status = r.status /\ SameWork(q, r) /\ q.auth = r.auth
           /\ q.merged = n
  BY DEF Receipts, SameWork

-----------------------------------------------------------------------------
(* Landing: the inductive invariant *)

(* The supervisor is between two calls of an open receipt; at the merge      *)
(* command, the pinned head is the receipt's authorization, and a pushed     *)
(* base update that is not counted yet is within the budget.                 *)
BusyOpen ==
    /\ busy.of # 0 => busy.of \in Ids /\ Open(busy.of)
    /\ busy.at = "rebased" => busy.of # 0 /\ receipts[busy.of].updates < MaxBaseUpdates
    /\ busy.at = "merge" => busy.of # 0 /\ busy.pin = receipts[busy.of].auth

(* A receipt starts from a commit of main; its merge comes at or after it. *)
MergesPlaced == \A i \in Ids :
    /\ receipts[i].src <= Tip
    /\ branches[i].state = "MERGED" => branches[i].at \in receipts[i].src..Tip

LandingInv == LandingBase /\ BusyOpen /\ MergesPlaced /\ ReceiptsTruthful

(* What a step may do to the receipts there are: each stays about its        *)
(* transition, none is opened again, and one that says MERGED is right.      *)
ReceiptsMove ==
    /\ receipts' \in Seq(Receipts) /\ Len(receipts') = Len(receipts)
    /\ \A i \in Ids :
           /\ SameWork(receipts'[i], receipts[i])
           /\ receipts'[i].status \notin TERMINAL_STATUSES => Open(i)
           /\ (receipts'[i].status = "MERGED" /\ ~receipts'[i].leftover) =>
                  /\ receipts'[i].merged \in receipts'[i].src..Tip
                  /\ \E n \in receipts'[i].merged..Tip : mainLog[n] = receipts'[i].desired

BranchesMove ==
    /\ branches' \in Seq(Branches) /\ Len(branches') = Len(branches)
    /\ \A i \in Ids :
           /\ branches'[i].worktree.rev <= foreign' /\ branches'[i].remote.rev <= foreign'
           /\ branches'[i].head.rev <= foreign'
           /\ branches'[i].state = "MERGED" => branches'[i].at \in receipts[i].src..Len(mainLog')

LogMove ==
    /\ mainLog' \in Seq(Content) /\ Len(mainLog') \in 1..MaxMain /\ Len(mainLog') >= Len(mainLog)
    /\ \A n \in 1..Len(mainLog) : mainLog'[n] = mainLog[n]

OthersMove ==
    /\ local' \in 1..Len(mainLog')
    /\ queued' \in Seq(Snapshots) /\ Len(queued') <= 1
    /\ green' \cap red' = {}
    /\ busy' \in [of : 0..MaxTransitions, at : BusySteps, pin : Heads]
    /\ boot' \subseteq Ids /\ foreign' \in 0..MaxForeign /\ faults' \in 0..MaxFaults

LEMMA LandingLens ==
    ASSUME LandingTypes
    PROVE  /\ Len(receipts) \in Nat /\ Tip \in Nat /\ Tip > 0 /\ Ids = 1..Len(receipts)
           /\ \A i \in Ids : receipts[i] \in Receipts /\ branches[i] \in Branches /\ i \in Nat /\ i > 0
           /\ \A n \in 1..Tip : mainLog[n] \in Content
           /\ MaxMain \in Nat /\ Tip <= MaxMain
<1>1. /\ receipts \in Seq(Receipts) /\ branches \in Seq(Branches) /\ mainLog \in Seq(Content)
      /\ Len(branches) = Len(receipts) /\ Len(mainLog) \in 1..MaxMain
  BY DEF LandingTypes
<1>2. Len(receipts) \in Nat /\ Ids = 1..Len(receipts)
  BY <1>1 DEF Ids
<1>3. \A i \in Ids : receipts[i] \in Receipts /\ branches[i] \in Branches
  BY <1>1, <1>2, ElementOfSeq
<1>4. \A n \in 1..Tip : mainLog[n] \in Content
  BY <1>1, ElementOfSeq DEF Tip
<1> QED
  BY <1>1, <1>2, <1>3, <1>4, LandingNumbers DEF Tip

LEMMA MovesKeep ==
    ASSUME LandingInv, ReceiptsMove, BranchesMove, LogMove, OthersMove, BusyOpen'
    PROVE  LandingInv'
<1>1. LandingTypes /\ MergesPlaced /\ ReceiptsTruthful
  BY DEF LandingInv, LandingBase
<1>2. /\ Len(receipts) \in Nat /\ Tip \in Nat /\ Ids = 1..Len(receipts)
      /\ \A i \in Ids : receipts[i] \in Receipts
  BY <1>1, LandingLens
<1>3. Ids' = Ids /\ Tip' \in Nat /\ Tip' >= Tip /\ Tip' = Len(mainLog')
  BY <1>2, LandingNumbers DEF ReceiptsMove, LogMove, Ids, Tip
<1>4. LandingTypes'
  BY <1>1, <1>3 DEF LandingTypes, ReceiptsMove, BranchesMove, LogMove, OthersMove
<1>5. RevsCounted'
  BY <1>3 DEF RevsCounted, BranchesMove
<1>6. \A i \in Ids : receipts[i].src \in Nat /\ receipts'[i].src = receipts[i].src
  BY <1>2, LandingNumbers DEF Receipts, ReceiptsMove, SameWork
<1>7. MergesPlaced'
  <2> SUFFICES ASSUME NEW i \in Ids
               PROVE  /\ receipts'[i].src <= Tip'
                      /\ branches'[i].state = "MERGED" => branches'[i].at \in receipts'[i].src..Tip'
    BY <1>3 DEF MergesPlaced
  <2>1. receipts[i].src <= Tip
    BY <1>1 DEF MergesPlaced
  <2> QED
    BY <1>2, <1>3, <1>6, <2>1 DEF BranchesMove
<1>8. ReceiptsTruthful'
  <2>1. ASSUME NEW i \in Ids, receipts'[i].status = "MERGED", ~receipts'[i].leftover
        PROVE  /\ receipts'[i].merged \in receipts'[i].src..Tip'
               /\ \E n \in receipts'[i].merged..Tip' : mainLog'[n] = receipts'[i].desired
    <3>1. PICK n \in receipts'[i].merged..Tip : mainLog[n] = receipts'[i].desired
      BY <2>1 DEF ReceiptsMove
    <3>2. receipts'[i].merged \in receipts'[i].src..Tip /\ receipts'[i].src \in 1..MaxMain
      BY <1>2, <1>6, <2>1 DEF ReceiptsMove, Receipts
    <3>3. n \in 1..Len(mainLog) /\ n \in receipts'[i].merged..Tip'
      BY <1>2, <1>3, <3>1, <3>2, LandingNumbers DEF Tip
    <3>4. mainLog'[n] = receipts'[i].desired
      BY <3>1, <3>3 DEF LogMove
    <3> QED
      BY <1>2, <1>3, <3>2, <3>3, <3>4, LandingNumbers
  <2>2. ASSUME NEW i \in Ids, NEW j \in Ids, i # j,
               receipts'[i].status \notin TERMINAL_STATUSES,
               receipts'[j].status \notin TERMINAL_STATUSES
        PROVE  ~SameTransition(receipts'[i], receipts'[j])
    <3>1. Open(i) /\ Open(j) /\ ~SameTransition(receipts[i], receipts[j])
      BY <1>1, <2>2 DEF ReceiptsMove, ReceiptsTruthful
    <3> QED
      BY <3>1 DEF ReceiptsMove, SameWork, SameTransition
  <2> QED
    BY <1>3, <2>1, <2>2 DEF ReceiptsTruthful, Open
<1> QED
  BY <1>4, <1>5, <1>7, <1>8 DEF LandingInv, LandingBase

-----------------------------------------------------------------------------
(* Landing: what one step writes *)

(* A receipt that says MERGED names a commit from which main had the file. *)
SaysTrue(r) == (r.status = "MERGED" /\ ~r.leftover) =>
    /\ r.merged \in r.src..Tip
    /\ \E n \in r.merged..Tip : mainLog[n] = r.desired

LEMMA ReceiptWritten ==
    ASSUME LandingInv, NEW i \in Ids, NEW r \in Receipts, SameWork(r, receipts[i]),
           Open(i) \/ r.status \in TERMINAL_STATUSES, SaysTrue(r),
           receipts' = [receipts EXCEPT ![i] = r]
    PROVE  ReceiptsMove /\ receipts'[i] = r /\ \A j \in Ids : j # i => receipts'[j] = receipts[j]
<1>1. receipts \in Seq(Receipts) /\ i \in 1..Len(receipts) /\ Ids = 1..Len(receipts)
  BY DEF LandingInv, LandingBase, LandingTypes, Ids
<1>2. /\ receipts' \in Seq(Receipts) /\ Len(receipts') = Len(receipts)
      /\ \A j \in Ids : receipts'[j] = IF j = i THEN r ELSE receipts[j]
  BY <1>1, ExceptSeq
<1>3. ASSUME NEW j \in Ids, j # i
      PROVE  /\ SameWork(receipts'[j], receipts[j])
             /\ receipts'[j].status \notin TERMINAL_STATUSES => Open(j)
             /\ SaysTrue(receipts'[j])
  BY <1>2, <1>3 DEF SameWork, Open, LandingInv, ReceiptsTruthful, SaysTrue
<1> QED
  BY <1>2, <1>3 DEF ReceiptsMove, SaysTrue

LEMMA ReceiptsStay ==
    ASSUME LandingInv, UNCHANGED receipts
    PROVE  ReceiptsMove
<1>1. receipts \in Seq(Receipts)
  BY DEF LandingInv, LandingBase, LandingTypes
<1> QED
  BY <1>1 DEF ReceiptsMove, LandingInv, ReceiptsTruthful, SameWork, Open

(* The counters of a head and of a receipt are naturals. *)
LEMMA BranchNumbers ==
    ASSUME NEW b \in Branches, NEW r \in Receipts
    PROVE  /\ b.worktree \in Heads /\ b.remote \in Heads /\ b.head \in Heads
           /\ b.worktree.rev \in Nat /\ b.remote.rev \in Nat /\ b.head.rev \in Nat
           /\ r.src \in Nat /\ b.at \in Nat
  BY LandingNumbers DEF Branches, Heads, Receipts

LEMMA BranchWritten ==
    ASSUME LandingInv, NEW i \in Ids, NEW b \in Branches,
           foreign' \in Nat, foreign' >= foreign, LogMove,
           b.worktree.rev <= foreign', b.remote.rev <= foreign', b.head.rev <= foreign',
           b.state = "MERGED" => b.at \in receipts[i].src..Len(mainLog'),
           branches' = [branches EXCEPT ![i] = b]
    PROVE  BranchesMove
<1>1. /\ branches \in Seq(Branches) /\ i \in 1..Len(branches) /\ Ids = 1..Len(branches)
      /\ foreign \in Nat /\ LandingTypes
  BY LandingNumbers DEF LandingInv, LandingBase, LandingTypes, Ids
<1>2. /\ branches' \in Seq(Branches) /\ Len(branches') = Len(branches)
      /\ \A j \in Ids : branches'[j] = IF j = i THEN b ELSE branches[j]
  BY <1>1, ExceptSeq
<1>3. /\ \A j \in Ids : branches[j] \in Branches /\ receipts[j] \in Receipts
      /\ Tip \in Nat
  BY <1>1, LandingLens
<1>4. ASSUME NEW j \in Ids, j # i
      PROVE  /\ branches'[j].worktree.rev <= foreign' /\ branches'[j].remote.rev <= foreign'
             /\ branches'[j].head.rev <= foreign'
             /\ branches'[j].state = "MERGED"
                    => branches'[j].at \in receipts[j].src..Len(mainLog')
  <2>1. branches'[j] = branches[j]
    BY <1>2, <1>4
  <2>2. /\ branches[j].worktree.rev \in Nat /\ branches[j].remote.rev \in Nat
        /\ branches[j].head.rev \in Nat /\ receipts[j].src \in Nat
    BY <1>3, BranchNumbers
  <2>3. Len(mainLog') \in Nat /\ Len(mainLog') >= Tip
    BY LandingNumbers DEF LogMove, Tip
  <2>4. branches[j].state = "MERGED" => branches[j].at \in receipts[j].src..Tip
    BY DEF LandingInv, MergesPlaced
  <2>5. /\ branches[j].worktree.rev <= foreign /\ branches[j].remote.rev <= foreign
        /\ branches[j].head.rev <= foreign
    BY DEF LandingInv, LandingBase, RevsCounted
  <2>6. branches[j].state = "MERGED" => branches[j].at \in receipts[j].src..Len(mainLog')
    BY <1>3, <2>2, <2>3, <2>4
  <2> QED
    BY <1>1, <2>1, <2>2, <2>5, <2>6
<1> QED
  BY <1>2, <1>4 DEF BranchesMove

LEMMA BranchesStay ==
    ASSUME LandingInv, UNCHANGED branches, foreign' \in Nat, foreign' >= foreign, LogMove
    PROVE  BranchesMove
<1>1. /\ branches \in Seq(Branches) /\ foreign \in Nat /\ LandingTypes
  BY LandingNumbers DEF LandingInv, LandingBase, LandingTypes
<1>2. /\ \A j \in Ids : branches[j] \in Branches /\ receipts[j] \in Receipts
      /\ Tip \in Nat
  BY <1>1, LandingLens
<1>3. ASSUME NEW j \in Ids
      PROVE  /\ branches'[j].worktree.rev <= foreign' /\ branches'[j].remote.rev <= foreign'
             /\ branches'[j].head.rev <= foreign'
             /\ branches'[j].state = "MERGED"
                    => branches'[j].at \in receipts[j].src..Len(mainLog')
  <2>2. /\ branches[j].worktree.rev \in Nat /\ branches[j].remote.rev \in Nat
        /\ branches[j].head.rev \in Nat /\ receipts[j].src \in Nat
    BY <1>2, BranchNumbers
  <2>3. Len(mainLog') \in Nat /\ Len(mainLog') >= Tip
    BY LandingNumbers DEF LogMove, Tip
  <2>4. branches[j].state = "MERGED" => branches[j].at \in receipts[j].src..Tip
    BY DEF LandingInv, MergesPlaced
  <2>5. /\ branches[j].worktree.rev <= foreign /\ branches[j].remote.rev <= foreign
        /\ branches[j].head.rev <= foreign
    BY DEF LandingInv, LandingBase, RevsCounted
  <2> QED
    BY <1>1, <1>2, <2>2, <2>3, <2>4, <2>5
<1> QED
  BY <1>1, <1>3 DEF BranchesMove

LEMMA LogStays ==
    ASSUME LandingInv, UNCHANGED mainLog
    PROVE  LogMove
  BY LandingNumbers DEF LandingInv, LandingBase, LandingTypes, LogMove

LEMMA LogAppended ==
    ASSUME LandingInv, NEW f \in Content, Tip < MaxMain, mainLog' = Append(mainLog, f)
    PROVE  LogMove /\ Len(mainLog') = Tip + 1
<1>1. mainLog \in Seq(Content) /\ Len(mainLog) \in 1..MaxMain
  BY DEF LandingInv, LandingBase, LandingTypes
<1>2. /\ mainLog' \in Seq(Content) /\ Len(mainLog') = Len(mainLog) + 1
      /\ \A n \in 1..Len(mainLog) : mainLog'[n] = mainLog[n]
  BY <1>1, AppendProperties
<1> QED
  BY <1>1, <1>2, LandingNumbers DEF LogMove, Tip

(* What the steps write: not MERGED, or MERGED on a commit that has it. *)
LEMMA LandingWrites ==
    ASSUME LandingInv, NEW i \in Ids
    PROVE  /\ \A s \in RECEIPT_STATUSES \ {"MERGED"} :
                  LET r == WithStatus(i, s) IN
                  r \in Receipts /\ SameWork(r, receipts[i]) /\ r.status = s /\ SaysTrue(r)
           /\ LET r == revokeAuthorization(i) IN
              r \in Receipts /\ SameWork(r, receipts[i]) /\ r.status = "WAITING_CI" /\ SaysTrue(r)
           /\ LET r == Retryable(i) IN
              /\ r \in Receipts /\ SameWork(r, receipts[i]) /\ r.status = receipts[i].status
              /\ receipts[i].status # "MERGED" => SaysTrue(r)
           /\ Verified(i) =>
                  LET r == Landed(i) IN
                  r \in Receipts /\ SameWork(r, receipts[i]) /\ r.status = "MERGED" /\ SaysTrue(r)
<1>1. /\ receipts[i] \in Receipts /\ branches[i] \in Branches /\ Tip \in Nat /\ Tip > 0
      /\ receipts[i].src \in Nat /\ branches[i].at \in 0..MaxMain
  BY LandingLens, LandingNumbers DEF LandingInv, LandingBase, Receipts, Branches
<1>2. /\ \A s \in RECEIPT_STATUSES \ {"MERGED"} :
             LET r == WithStatus(i, s) IN
             r \in Receipts /\ SameWork(r, receipts[i]) /\ r.status = s /\ SaysTrue(r)
  BY <1>1, StatusWrite DEF WithStatus, SaysTrue
<1>3. LET r == revokeAuthorization(i) IN
      r \in Receipts /\ SameWork(r, receipts[i]) /\ r.status = "WAITING_CI" /\ SaysTrue(r)
  <2> DEFINE q == [receipts[i] EXCEPT !.status = "WAITING_CI"]
             r == [q EXCEPT !.auth = NoHead]
  <2>1. q \in Receipts /\ SameWork(q, receipts[i]) /\ q.status = "WAITING_CI"
    BY <1>1, StatusWrite DEF RECEIPT_STATUSES
  <2>2. revokeAuthorization(i) = r
    BY DEF revokeAuthorization
  <2> HIDE DEF q
  <2>3. r \in Receipts /\ SameWork(r, q) /\ r.status = "WAITING_CI"
    BY <2>1, AuthWrite, NoHeadTyped
  <2> HIDE DEF r
  <2> QED
    BY <2>1, <2>2, <2>3 DEF SameWork, SaysTrue
<1>4. LET r == Retryable(i) IN
      /\ r \in Receipts /\ SameWork(r, receipts[i]) /\ r.status = receipts[i].status
      /\ receipts[i].status # "MERGED" => SaysTrue(r)
  <2> DEFINE n == Bump(receipts[i].retries)
  <2>1. n \in 0..(MaxVerifyRetries + 1)
    BY <1>1 DEF Bump, Receipts, MaxVerifyRetries
  <2>2. Retryable(i) = [receipts[i] EXCEPT !.retries = n]
    BY DEF Retryable
  <2> HIDE DEF n
  <2> QED
    BY <1>1, <2>1, <2>2, RetriesWrite DEF SaysTrue
<1>5. ASSUME Verified(i)
      PROVE  LET r == Landed(i) IN
             r \in Receipts /\ SameWork(r, receipts[i]) /\ r.status = "MERGED" /\ SaysTrue(r)
  <2> DEFINE q == [receipts[i] EXCEPT !.status = "MERGED"]
             r == [q EXCEPT !.merged = branches[i].at]
  <2>1. q \in Receipts /\ SameWork(q, receipts[i]) /\ q.status = "MERGED"
    BY <1>1, StatusWrite DEF RECEIPT_STATUSES, TERMINAL_STATUSES
  <2>2. Landed(i) = r
    BY DEF Landed, WithStatus
  <2> HIDE DEF q
  <2>3. r \in Receipts /\ SameWork(r, q) /\ r.status = "MERGED" /\ r.merged = branches[i].at
    BY <1>1, <2>1, MergedWrite
  <2> HIDE DEF r
  <2>4. SameWork(r, receipts[i])
    BY <2>1, <2>3 DEF SameWork
  <2>5. /\ branches[i].at \in receipts[i].src..Tip /\ mainLog[Tip] = receipts[i].desired
    BY <1>5 DEF Verified, LandingInv, MergesPlaced
  <2>6. SaysTrue(r)
    BY <1>1, <2>3, <2>4, <2>5 DEF SaysTrue, SameWork
  <2> QED
    BY <2>2, <2>3, <2>4, <2>6
<1> QED
  BY <1>2, <1>3, <1>4, <1>5

LEMMA IdleTyped ==
    /\ Idle \in [of : 0..MaxTransitions, at : BusySteps, pin : Heads]
    /\ Idle.of = 0 /\ Idle.at = "idle"
  BY NoHeadTyped, LandingNumbers DEF Idle, BusySteps

(* A step that writes an open receipt, is done, and touches nothing else of  *)
(* the lane.                                                                 *)
LEMMA WriteKeeps ==
    ASSUME LandingInv, NEW i \in Ids, Open(i),
           NEW r \in Receipts, SameWork(r, receipts[i]), SaysTrue(r),
           writeReceipt(i, r), local' \in 1..Len(mainLog), faults' \in 0..MaxFaults,
           UNCHANGED <<mainLog, queued, branches, green, red, boot, foreign>>
    PROVE  LandingInv'
<1>1. LogMove
  BY LogStays
<1>2. BranchesMove
  <2>1. foreign' \in Nat /\ foreign' >= foreign
    BY LandingNumbers DEF LandingInv, LandingBase, LandingTypes
  <2> QED
    BY <1>1, <2>1, BranchesStay
<1>3. ReceiptsMove
  BY ReceiptWritten DEF writeReceipt
<1>4. OthersMove
  BY IdleTyped DEF OthersMove, writeReceipt, LandingInv, LandingBase, LandingTypes
<1>5. BusyOpen'
  BY IdleTyped DEF BusyOpen, writeReceipt
<1> QED
  BY <1>1, <1>2, <1>3, <1>4, <1>5, MovesKeep

LEMMA TurnIsOpen ==
    ASSUME NEW i, NEW S, Turn(i, S), S \cap TERMINAL_STATUSES = {}
    PROVE  Open(i)
  BY DEF Turn, Open

LEMMA BusyIsOpen ==
    ASSUME LandingInv, NEW i \in Ids, busy.of = i
    PROVE  Open(i) /\ i # 0 /\ busy.pin \in Heads
<1>1. i # 0
  BY LandingLens DEF LandingInv, LandingBase
<1> QED
  BY <1>1 DEF LandingInv, LandingBase, LandingTypes, BusyOpen

LEMMA StepWritesKeep ==
    ASSUME LandingInv, NEW i \in Ids,
           \/ writeAfterEffect(i) \/ callFails(i) \/ authorizeHead(i) \/ ciRefused(i)
           \/ reverifyHead(i) \/ reconcileMerged(i) \/ verifyLanding(i)
    PROVE  LandingInv'
<1>1. /\ receipts[i] \in Receipts /\ local \in 1..Len(mainLog) /\ Tip \in 1..Len(mainLog)
      /\ faults \in 0..MaxFaults
  BY LandingLens DEF LandingInv, LandingBase, LandingTypes, Tip
<1>2. CASE writeAfterEffect(i)
  <2> DEFINE q == WithStatus(i, busy.at)
             p == (q.pr \/ busy.at = "PR_READY")
             r == [q EXCEPT !.pr = p]
  <2>1. busy.of = i /\ busy.at \in RECEIPT_STATUSES \ {"MERGED"} /\ writeReceipt(i, r)
    BY <1>2 DEF writeAfterEffect, RECEIPT_STATUSES
  <2>2. q \in Receipts /\ SameWork(q, receipts[i]) /\ q.status # "MERGED"
    BY <2>1, LandingWrites
  <2>3. p \in BOOLEAN
    OBVIOUS
  <2> HIDE DEF q, p
  <2>4. r \in Receipts /\ SameWork(r, q) /\ r.status # "MERGED"
    BY <2>2, <2>3, PrWrite
  <2> HIDE DEF r
  <2>5. SameWork(r, receipts[i]) /\ SaysTrue(r)
    BY <2>2, <2>4 DEF SameWork, SaysTrue
  <2> QED
    BY <1>1, <1>2, <2>1, <2>4, <2>5, BusyIsOpen, WriteKeeps DEF writeAfterEffect
<1>3. CASE callFails(i)
  <2>1. Open(i)
    BY <1>3, TurnIsOpen DEF callFails, TERMINAL_STATUSES
  <2>2. faults' \in 0..MaxFaults
    BY <1>1, <1>3, LandingNumbers DEF callFails
  <2>3. Retryable(i) \in Receipts /\ SameWork(Retryable(i), receipts[i]) /\ SaysTrue(Retryable(i))
    BY <2>1, LandingWrites DEF Open, TERMINAL_STATUSES
  <2> QED
    BY <1>1, <1>3, <2>1, <2>2, <2>3, WriteKeeps DEF callFails
<1>4. CASE authorizeHead(i)
  <2> DEFINE q == WithStatus(i, "CI_AUTHORIZED")
             r == [q EXCEPT !.auth = busy.pin]
  <2>1. busy.of = i /\ writeReceipt(i, r)
    BY <1>4 DEF authorizeHead
  <2>2. q \in Receipts /\ SameWork(q, receipts[i]) /\ q.status # "MERGED"
    BY LandingWrites DEF RECEIPT_STATUSES
  <2>3. busy.pin \in Heads /\ Open(i)
    BY <2>1, BusyIsOpen
  <2> HIDE DEF q
  <2>4. r \in Receipts /\ SameWork(r, q) /\ r.status # "MERGED"
    BY <2>2, <2>3, AuthWrite
  <2> HIDE DEF r
  <2>5. SameWork(r, receipts[i]) /\ SaysTrue(r)
    BY <2>2, <2>4 DEF SameWork, SaysTrue
  <2> QED
    BY <1>1, <1>4, <2>1, <2>3, <2>4, <2>5, WriteKeeps DEF authorizeHead
<1>5. CASE ciRefused(i)
  <2> DEFINE r == WithStatus(i, "FAILED")
  <2>1. r \in Receipts /\ SameWork(r, receipts[i]) /\ SaysTrue(r)
    BY LandingWrites DEF RECEIPT_STATUSES, TERMINAL_STATUSES
  <2>2. Open(i) /\ writeReceipt(i, r)
    BY <1>5, BusyIsOpen DEF ciRefused
  <2> HIDE DEF r
  <2> QED
    BY <1>1, <1>5, <2>1, <2>2, WriteKeeps DEF ciRefused
<1>6. CASE reverifyHead(i)
  <2> DEFINE r == IF StillAuthorized(i) THEN WithStatus(i, "MERGE_READY") ELSE revokeAuthorization(i)
  <2>1. r \in Receipts /\ SameWork(r, receipts[i]) /\ SaysTrue(r)
    BY LandingWrites DEF RECEIPT_STATUSES
  <2>2. Open(i) /\ writeReceipt(i, r)
    BY <1>6, TurnIsOpen DEF reverifyHead, TERMINAL_STATUSES
  <2> HIDE DEF r
  <2> QED
    BY <1>1, <1>6, <2>1, <2>2, WriteKeeps DEF reverifyHead
<1>7. CASE reconcileMerged(i)
  <2>1. Open(i) /\ receipts[i].status = "MERGE_READY"
    BY <1>7, TurnIsOpen DEF reconcileMerged, Turn, TERMINAL_STATUSES
  <2> DEFINE n == IF receipts[i].retries + 1 > MaxVerifyRetries THEN "FAILED"
                  ELSE Retryable(i).status
             again == [Retryable(i) EXCEPT !.status = n]
  <2>2. again \in Receipts /\ SameWork(again, receipts[i]) /\ SaysTrue(again)
    <3>1. /\ Retryable(i) \in Receipts /\ SameWork(Retryable(i), receipts[i])
          /\ n \in RECEIPT_STATUSES /\ n # "MERGED"
      BY <2>1, LandingWrites DEF RECEIPT_STATUSES, TERMINAL_STATUSES
    <3> HIDE DEF n
    <3> QED
      BY <3>1, StatusWrite DEF SameWork, SaysTrue
  <2>3. /\ WithStatus(i, "FAILED") \in Receipts
        /\ SameWork(WithStatus(i, "FAILED"), receipts[i]) /\ SaysTrue(WithStatus(i, "FAILED"))
    BY LandingWrites DEF RECEIPT_STATUSES, TERMINAL_STATUSES
  <2>4. Verified(i) => Landed(i) \in Receipts /\ SameWork(Landed(i), receipts[i])
                       /\ SaysTrue(Landed(i))
    BY LandingWrites
  <2> DEFINE r == CASE branches[i].head # receipts[i].auth -> WithStatus(i, "FAILED")
                    [] branches[i].head = receipts[i].auth /\ Verified(i) -> Landed(i)
                    [] OTHER -> again
  <2>5. writeReceipt(i, r)
    BY <1>7 DEF reconcileMerged
  <2> HIDE DEF again
  <2>6. r \in {WithStatus(i, "FAILED"), again} \/ (Verified(i) /\ r = Landed(i))
    OBVIOUS
  <2> HIDE DEF r
  <2>7. r \in Receipts /\ SameWork(r, receipts[i]) /\ SaysTrue(r)
    BY <2>2, <2>3, <2>4, <2>6
  <2>8. local' \in 1..Len(mainLog)
    BY <1>1, <1>7 DEF reconcileMerged
  <2> QED
    BY <1>1, <1>7, <2>1, <2>5, <2>7, <2>8, WriteKeeps DEF reconcileMerged
<1>8. CASE verifyLanding(i)
  <2>1. Open(i) /\ Verified(i) /\ writeReceipt(i, Landed(i)) /\ local' \in 1..Len(mainLog)
    BY <1>1, <1>8, TurnIsOpen DEF verifyLanding, TERMINAL_STATUSES
  <2>2. Landed(i) \in Receipts /\ SameWork(Landed(i), receipts[i]) /\ SaysTrue(Landed(i))
    BY <2>1, LandingWrites
  <2> QED
    BY <1>1, <1>8, <2>1, <2>2, WriteKeeps DEF verifyLanding
<1> QED
  BY <1>2, <1>3, <1>4, <1>5, <1>6, <1>7, <1>8

(* The supervisor goes on with an open receipt it has not written. *)
LEMMA BusyGoesOn ==
    ASSUME LandingInv, NEW i \in Ids, Open(i), NEW step \in BusySteps, NEW pin \in Heads,
           step = "merge" => pin = receipts[i].auth,
           step = "rebased" => receipts[i].updates < MaxBaseUpdates,
           busy' = At(i, step, pin), UNCHANGED receipts
    PROVE  BusyOpen' /\ busy' \in [of : 0..MaxTransitions, at : BusySteps, pin : Heads]
<1>1. i # 0 /\ i \in 0..MaxTransitions
  BY LandingLens, LandingNumbers DEF LandingInv, LandingBase, LandingTypes, Ids
<1>2. busy'.of = i /\ busy'.at = step /\ busy'.pin = pin /\ Ids' = Ids
  BY DEF At, Ids
<1>3. busy' \in [of : 0..MaxTransitions, at : BusySteps, pin : Heads]
  BY <1>1 DEF At
<1> QED
  BY <1>1, <1>2, <1>3 DEF BusyOpen, Open

LEMMA EffectsKeep ==
    ASSUME LandingInv, NEW i \in Ids, pushBranch(i) \/ openPullRequest(i) \/ pinHead(i)
    PROVE  LandingInv'
<1>1. /\ branches[i] \in Branches /\ receipts[i] \in Receipts /\ NoHead \in Heads
      /\ branches[i].worktree \in Heads /\ branches[i].remote \in Heads /\ branches[i].head \in Heads
  BY LandingLens, NoHeadTyped, BranchNumbers DEF LandingInv, LandingBase
<1>2. /\ branches[i].worktree.rev <= foreign /\ branches[i].remote.rev <= foreign
      /\ branches[i].head.rev <= foreign
      /\ branches[i].state = "MERGED" => branches[i].at \in receipts[i].src..Tip
  BY DEF LandingInv, LandingBase, RevsCounted, MergesPlaced
<1>3. /\ UNCHANGED <<mainLog, local, queued, receipts, green, red, boot, foreign, faults>>
      /\ foreign' \in Nat /\ foreign' >= foreign /\ Len(mainLog') = Tip
  BY LandingNumbers
     DEF pushBranch, openPullRequest, pinHead, LandingInv, LandingBase, LandingTypes, Tip
<1>4. LogMove /\ ReceiptsMove
  BY <1>3, LogStays, ReceiptsStay
<1>5. CASE pushBranch(i)
  <2> DEFINE b == [branches[i] EXCEPT !.remote = branches[i].worktree]
  <2>1. /\ b \in Branches /\ b.worktree = branches[i].worktree /\ b.remote = branches[i].worktree
        /\ b.head = branches[i].head /\ b.state = branches[i].state /\ b.at = branches[i].at
    BY <1>1 DEF Branches
  <2>2. branches' = [branches EXCEPT ![i] = b]
    BY <1>5 DEF pushBranch
  <2> HIDE DEF b
  <2>3. BranchesMove
    BY <1>2, <1>3, <1>4, <2>1, <2>2, BranchWritten
  <2>4. /\ Open(i) /\ busy' = At(i, "BRANCH_PUSHED", NoHead)
    BY <1>5, TurnIsOpen DEF pushBranch, TERMINAL_STATUSES
  <2>5. BusyOpen' /\ busy' \in [of : 0..MaxTransitions, at : BusySteps, pin : Heads]
    BY <1>1, <1>3, <2>4, BusyGoesOn DEF BusySteps
  <2>6. OthersMove
    BY <1>3, <2>5 DEF OthersMove, LandingInv, LandingBase, LandingTypes
  <2> QED
    BY <1>4, <2>3, <2>5, <2>6, MovesKeep
<1>6. CASE openPullRequest(i)
  <2> DEFINE b == [branches[i] EXCEPT !.state = "OPEN", !.head = branches[i].remote]
  <2>1. /\ b \in Branches /\ b.worktree = branches[i].worktree /\ b.remote = branches[i].remote
        /\ b.head = branches[i].remote /\ b.state = "OPEN"
    BY <1>1 DEF Branches
  <2>2. branches' = [branches EXCEPT ![i] = b]
    BY <1>6 DEF openPullRequest
  <2> HIDE DEF b
  <2>3. BranchesMove
    BY <1>2, <1>3, <1>4, <2>1, <2>2, BranchWritten
  <2>4. /\ Open(i) /\ busy' = At(i, "PR_READY", NoHead)
    BY <1>6, TurnIsOpen DEF openPullRequest, TERMINAL_STATUSES
  <2>5. BusyOpen' /\ busy' \in [of : 0..MaxTransitions, at : BusySteps, pin : Heads]
    BY <1>1, <1>3, <2>4, BusyGoesOn DEF BusySteps
  <2>6. OthersMove
    BY <1>3, <2>5 DEF OthersMove, LandingInv, LandingBase, LandingTypes
  <2> QED
    BY <1>4, <2>3, <2>5, <2>6, MovesKeep
<1>7. CASE pinHead(i)
  <2> DEFINE p == IF branches[i].remote # NoHead THEN branches[i].remote ELSE branches[i].worktree
  <2>1. p \in Heads
    BY <1>1
  <2>2. /\ Open(i) /\ busy' = At(i, "pinned", p) /\ UNCHANGED branches
    BY <1>7, TurnIsOpen DEF pinHead, TERMINAL_STATUSES
  <2> HIDE DEF p
  <2>3. BranchesMove
    BY <1>3, <1>4, <2>2, BranchesStay
  <2>4. BusyOpen' /\ busy' \in [of : 0..MaxTransitions, at : BusySteps, pin : Heads]
    BY <1>3, <2>1, <2>2, BusyGoesOn DEF BusySteps
  <2>5. OthersMove
    BY <1>3, <2>4 DEF OthersMove, LandingInv, LandingBase, LandingTypes
  <2> QED
    BY <1>4, <2>3, <2>4, <2>5, MovesKeep
<1> QED
  BY <1>5, <1>6, <1>7

LEMMA PrepareKeeps ==
    ASSUME LandingInv, NEW i \in Ids, prepareBranch(i)
    PROVE  LandingInv'
<1>1. /\ receipts[i] \in Receipts /\ branches[i] \in Branches /\ Tip \in Nat
      /\ receipts[i].src \in 1..MaxMain /\ receipts[i].src <= Tip /\ receipts[i].desired \in Content
      /\ local \in 1..Len(mainLog) /\ faults \in 0..MaxFaults /\ i \in 0..MaxTransitions
  <2>1. LandingTypes /\ MergesPlaced
    BY DEF LandingInv, LandingBase
  <2>2. receipts[i] \in Receipts /\ branches[i] \in Branches /\ Tip \in Nat
    BY <2>1, LandingLens
  <2>3. receipts[i].src \in 1..MaxMain /\ receipts[i].desired \in Content
    BY <2>2 DEF Receipts
  <2>4. i \in 0..MaxTransitions
    BY <2>1, LandingLens, LandingNumbers DEF LandingTypes
  <2> QED
    BY <2>1, <2>2, <2>3, <2>4 DEF LandingTypes, MergesPlaced
<1>2. Open(i)
  BY TurnIsOpen DEF prepareBranch, TERMINAL_STATUSES
<1>3. CASE mainLog[receipts[i].src] = receipts[i].desired
  <2> DEFINE q == [receipts[i] EXCEPT !.status = "MERGED"]
             r == [q EXCEPT !.merged = receipts[i].src]
  <2>1. q \in Receipts /\ SameWork(q, receipts[i]) /\ q.status = "MERGED"
    BY <1>1, StatusWrite DEF RECEIPT_STATUSES, TERMINAL_STATUSES
  <2>2. writeReceipt(i, r) /\ UNCHANGED branches
    BY <1>3 DEF prepareBranch
  <2> HIDE DEF q
  <2>3. receipts[i].src \in 0..MaxMain
    BY <1>1, LandingNumbers
  <2>4. r \in Receipts /\ SameWork(r, q) /\ r.status = "MERGED" /\ r.merged = receipts[i].src
    BY <2>1, <2>3, MergedWrite
  <2> HIDE DEF r
  <2>5. SameWork(r, receipts[i])
    BY <2>1, <2>4 DEF SameWork
  <2>6. SaysTrue(r)
    BY <1>1, <1>3, <2>4, <2>5, LandingNumbers DEF SaysTrue, SameWork
  <2> QED
    BY <1>1, <1>2, <2>2, <2>4, <2>5, <2>6, WriteKeeps DEF prepareBranch
<1>4. CASE mainLog[receipts[i].src] # receipts[i].desired
  <2> DEFINE h == [of |-> i, base |-> receipts[i].src, files |-> receipts[i].desired, rev |-> 0]
             b == [branches[i] EXCEPT !.worktree = h]
  <2>1. h \in Heads /\ h.rev = 0
    BY <1>1, LandingNumbers DEF Heads
  <2>2. /\ busy' = At(i, "BRANCH_READY", NoHead) /\ branches' = [branches EXCEPT ![i] = b]
        /\ UNCHANGED <<mainLog, local, queued, receipts, green, red, boot, foreign, faults>>
    BY <1>4 DEF prepareBranch
  <2>3. BusyOpen' /\ busy' \in [of : 0..MaxTransitions, at : BusySteps, pin : Heads]
    BY <1>2, <2>2, NoHeadTyped, BusyGoesOn DEF BusySteps
  <2> HIDE DEF h
  <2>4. /\ b \in Branches /\ b.worktree = h /\ b.remote = branches[i].remote
        /\ b.head = branches[i].head /\ b.state = branches[i].state /\ b.at = branches[i].at
    BY <1>1, <2>1 DEF Branches
  <2> HIDE DEF b
  <2>5. /\ branches[i].remote.rev <= foreign /\ branches[i].head.rev <= foreign /\ 0 <= foreign
        /\ branches[i].state = "MERGED" => branches[i].at \in receipts[i].src..Tip
        /\ foreign' \in Nat /\ foreign' = foreign /\ Len(mainLog') = Tip /\ foreign' >= foreign
    BY <2>2, LandingNumbers
       DEF LandingInv, LandingBase, RevsCounted, MergesPlaced, LandingTypes, Tip
  <2>6. LogMove
    BY <2>2, LogStays
  <2>7. BranchesMove
    BY <2>1, <2>2, <2>4, <2>5, <2>6, BranchWritten
  <2>8. ReceiptsMove
    BY <2>2, ReceiptsStay
  <2>9. OthersMove
    BY <2>2, <2>3 DEF OthersMove, LandingInv, LandingBase, LandingTypes
  <2> QED
    BY <2>3, <2>6, <2>7, <2>8, <2>9, MovesKeep
<1> QED
  BY <1>3, <1>4

LEMMA ReuseKeeps ==
    ASSUME LandingInv, NEW i \in Ids, reuseBranch(i)
    PROVE  LandingInv'
<1> DEFINE q == [receipts[i] EXCEPT !.status = "MERGED"]
           p == [q EXCEPT !.merged = receipts[i].src]
           r == [p EXCEPT !.leftover = TRUE]
<1>1. /\ receipts[i] \in Receipts /\ receipts[i].src \in 0..MaxMain /\ Open(i)
      /\ local' \in 1..Len(mainLog) /\ faults' \in 0..MaxFaults
  <2>1. LandingTypes
    BY DEF LandingInv, LandingBase
  <2>2. receipts[i] \in Receipts
    BY <2>1, LandingLens
  <2>3. receipts[i].src \in 0..MaxMain
    BY <2>2, LandingNumbers DEF Receipts
  <2>4. Open(i)
    BY TurnIsOpen DEF reuseBranch, TERMINAL_STATUSES
  <2> QED
    BY <2>1, <2>2, <2>3, <2>4 DEF reuseBranch, LandingTypes
<1>2. writeReceipt(i, r)
  BY DEF reuseBranch
<1>3. q \in Receipts /\ SameWork(q, receipts[i]) /\ q.status = "MERGED"
  BY <1>1, StatusWrite DEF RECEIPT_STATUSES, TERMINAL_STATUSES
<1> HIDE DEF q
<1>4. p \in Receipts /\ SameWork(p, q)
  BY <1>1, <1>3, MergedWrite
<1> HIDE DEF p
<1>5. r \in Receipts /\ SameWork(r, p) /\ r.leftover
  BY <1>4 DEF Receipts, SameWork
<1> HIDE DEF r
<1>6. SameWork(r, receipts[i]) /\ SaysTrue(r)
  BY <1>3, <1>4, <1>5 DEF SameWork, SaysTrue
<1> QED
  BY <1>1, <1>2, <1>5, <1>6, WriteKeeps DEF reuseBranch

LEMMA AdoptKeeps ==
    ASSUME LandingInv, NEW i \in Ids, adoptMergedState(i)
    PROVE  LandingInv'
<1>1. /\ UNCHANGED <<mainLog, local, queued, branches, green, red, busy, foreign, faults>>
      /\ busy = Idle /\ boot' \subseteq Ids
      /\ foreign' \in Nat /\ foreign' >= foreign
  BY LandingNumbers DEF adoptMergedState, LandingInv, LandingBase, LandingTypes
<1>2. LogMove /\ BranchesMove
  BY <1>1, LogStays, BranchesStay
<1>3. OthersMove /\ BusyOpen'
  BY <1>1, IdleTyped DEF OthersMove, BusyOpen, LandingInv, LandingBase, LandingTypes
<1>4. ReceiptsMove
  <2>1. receipts[i] \in Receipts
    BY LandingLens DEF LandingInv, LandingBase
  <2>2. CASE receipts' = [receipts EXCEPT ![i] = Landed(i)] /\ Verified(i)
    BY <2>2, LandingWrites, ReceiptWritten DEF TERMINAL_STATUSES
  <2>3. CASE receipts' = [receipts EXCEPT ![i] = receipts[i]]
    <3>1. SameWork(receipts[i], receipts[i]) /\ SaysTrue(receipts[i])
      BY DEF SameWork, SaysTrue, LandingInv, ReceiptsTruthful
    <3>2. Open(i) \/ receipts[i].status \in TERMINAL_STATUSES
      BY DEF Open
    <3> QED
      BY <2>1, <2>3, <3>1, <3>2, ReceiptWritten
  <2> QED
    BY <2>2, <2>3 DEF adoptMergedState
<1> QED
  BY <1>2, <1>3, <1>4, MovesKeep

(* The base update: the merged file and the new head are well formed. *)
LEMMA BaseKeeps ==
    ASSUME LandingInv, NEW i \in Ids, updateBase(i)
    PROVE  LandingInv'
<1> DEFINE b0 == branches[i]
           w == b0.worktree
           files == MergedFile(mainLog[w.base], w.files, mainLog[Tip])
           rebased == [w EXCEPT !.base = Tip, !.files = files]
           pushed == b0.remote = busy.pin
           b == [b0 EXCEPT !.worktree = rebased,
                           !.remote = IF pushed THEN rebased ELSE @,
                           !.head = IF pushed /\ b0.state = "OPEN" THEN rebased ELSE @]
           step == IF pushed THEN "rebased" ELSE "WAITING_CI"
<1>1. /\ branches' = [branches EXCEPT ![i] = b] /\ busy.of = i /\ busy' = At(i, step, busy.pin)
      /\ UNCHANGED <<mainLog, local, queued, receipts, green, red, boot, foreign, faults>>
      /\ receipts[i].updates < MaxBaseUpdates
  BY DEF updateBase, NoVerdict, Behind, Rebased, MayUpdateBase
<1>2. /\ receipts[i] \in Receipts /\ b0 \in Branches /\ Tip \in Nat /\ Tip > 0
      /\ Tip <= MaxMain /\ mainLog[Tip] \in Content
  BY LandingLens DEF LandingInv, LandingBase
<1>3. /\ w \in Heads /\ b0.remote \in Heads /\ b0.head \in Heads
      /\ w.files \in Content /\ w.of \in 0..MaxTransitions /\ w.rev \in 0..MaxForeign
  BY <1>2, BranchNumbers DEF Heads
<1>4. files \in Content
  BY <1>2, <1>3 DEF MergedFile, Content
<1>5. Tip \in 0..MaxMain
  BY <1>2, LandingNumbers
<1> HIDE DEF files
<1>6. rebased \in Heads /\ rebased.rev = w.rev
  BY <1>3, <1>4, <1>5 DEF Heads
<1>7. step \in BusySteps /\ step # "merge"
  BY DEF BusySteps
<1> HIDE DEF rebased, pushed, step
<1>8. /\ b \in Branches /\ b.worktree = rebased /\ b.remote \in {b0.remote, rebased}
      /\ b.head \in {b0.head, rebased} /\ b.state = b0.state /\ b.at = b0.at
  BY <1>2, <1>3, <1>6 DEF Branches
<1> HIDE DEF b
<1>9. /\ w.rev <= foreign /\ b0.remote.rev <= foreign /\ b0.head.rev <= foreign
      /\ b0.state = "MERGED" => b0.at \in receipts[i].src..Tip
      /\ foreign' \in Nat /\ foreign' = foreign /\ Len(mainLog') = Tip /\ foreign' >= foreign
  BY <1>1, LandingNumbers
     DEF LandingInv, LandingBase, RevsCounted, MergesPlaced, LandingTypes, Tip
<1>10. LogMove /\ ReceiptsMove
  BY <1>1, LogStays, ReceiptsStay
<1>11. BranchesMove
  <2>1. b.worktree.rev <= foreign' /\ b.remote.rev <= foreign' /\ b.head.rev <= foreign'
    BY <1>6, <1>8, <1>9
  <2>2. b.state = "MERGED" => b.at \in receipts[i].src..Len(mainLog')
    BY <1>8, <1>9
  <2> QED
    BY <1>1, <1>8, <1>9, <1>10, <2>1, <2>2, BranchWritten
<1>12. BusyOpen' /\ busy' \in [of : 0..MaxTransitions, at : BusySteps, pin : Heads]
  BY <1>1, <1>7, BusyIsOpen, BusyGoesOn
<1>13. OthersMove
  BY <1>1, <1>12 DEF OthersMove, LandingInv, LandingBase, LandingTypes
<1> QED
  BY <1>10, <1>11, <1>12, <1>13, MovesKeep

(* The update is counted with the wait; the budget was looked at before it. *)
LEMMA WaitKeeps ==
    ASSUME LandingInv, NEW i \in Ids, waitForCi(i)
    PROVE  LandingInv'
<1> DEFINE q == WithStatus(i, "WAITING_CI")
           n == IF busy.at = "rebased" THEN q.updates + 1 ELSE q.updates
           r == [q EXCEPT !.updates = n]
<1>1. /\ writeReceipt(i, r) /\ busy.of = i
      /\ UNCHANGED <<mainLog, local, queued, branches, green, red, boot, foreign, faults>>
  BY DEF waitForCi, NoVerdict
<1>2. /\ receipts[i] \in Receipts
      /\ busy.at = "rebased" => receipts[i].updates < MaxBaseUpdates
      /\ local' \in 1..Len(mainLog) /\ faults' \in 0..MaxFaults
  BY <1>1, LandingLens DEF LandingInv, LandingBase, LandingTypes, BusyOpen
<1>3. /\ q \in Receipts /\ SameWork(q, receipts[i]) /\ q.status = "WAITING_CI"
      /\ q.updates = receipts[i].updates
  BY <1>2, LandingWrites, StatusWrite DEF RECEIPT_STATUSES, WithStatus
<1>4. n \in 0..MaxBaseUpdates
  BY <1>2, <1>3 DEF Receipts, MaxBaseUpdates
<1> HIDE DEF q, n
<1>5. r \in Receipts /\ SameWork(r, q) /\ r.status = "WAITING_CI"
  BY <1>3, <1>4, UpdatesWrite
<1> HIDE DEF r
<1>6. SameWork(r, receipts[i]) /\ SaysTrue(r) /\ Open(i)
  BY <1>1, <1>3, <1>5, BusyIsOpen DEF SameWork, SaysTrue
<1> QED
  BY <1>1, <1>2, <1>5, <1>6, WriteKeeps

LEMMA CheckKeeps ==
    ASSUME LandingInv, NEW i \in Ids, preMergeCheck(i)
    PROVE  LandingInv'
<1>1. /\ UNCHANGED <<mainLog, local, queued, branches, green, red, boot, foreign, faults>>
      /\ Open(i) /\ foreign' \in Nat /\ foreign' >= foreign
      /\ local' \in 1..Len(mainLog) /\ faults' \in 0..MaxFaults
  BY TurnIsOpen, LandingNumbers
     DEF preMergeCheck, TERMINAL_STATUSES, LandingInv, LandingBase, LandingTypes
<1>2. CASE busy' = At(i, "merge", receipts[i].auth) /\ UNCHANGED receipts
  <2>1. receipts[i].auth \in Heads
    BY LandingLens DEF LandingInv, LandingBase, Receipts
  <2>2. BusyOpen' /\ busy' \in [of : 0..MaxTransitions, at : BusySteps, pin : Heads]
    BY <1>1, <1>2, <2>1, BusyGoesOn DEF BusySteps
  <2>3. LogMove /\ ReceiptsMove /\ BranchesMove
    BY <1>1, <1>2, LogStays, ReceiptsStay, BranchesStay
  <2>4. OthersMove
    BY <1>1, <2>2 DEF OthersMove, LandingInv, LandingBase, LandingTypes
  <2> QED
    BY <2>2, <2>3, <2>4, MovesKeep
<1>3. CASE writeReceipt(i, revokeAuthorization(i))
  <2> DEFINE r == revokeAuthorization(i)
  <2>1. r \in Receipts /\ SameWork(r, receipts[i]) /\ SaysTrue(r) /\ writeReceipt(i, r)
    BY <1>3, LandingWrites
  <2> HIDE DEF r
  <2> QED
    BY <1>1, <2>1, WriteKeeps
<1> QED
  BY <1>2, <1>3 DEF preMergeCheck

LEMMA RefusalKeeps ==
    ASSUME LandingInv, NEW i \in Ids, checkFails(i)
    PROVE  LandingInv'
<1> DEFINE r == revokeAuthorization(i)
<1>1. /\ UNCHANGED <<mainLog, local, queued, branches, green, red, boot, foreign>>
      /\ Open(i) /\ local' \in 1..Len(mainLog) /\ faults' \in 0..MaxFaults
  BY TurnIsOpen, LandingNumbers
     DEF checkFails, TERMINAL_STATUSES, LandingInv, LandingBase, LandingTypes
<1>2. r \in Receipts /\ SameWork(r, receipts[i]) /\ SaysTrue(r) /\ writeReceipt(i, r)
  BY LandingWrites DEF checkFails
<1> HIDE DEF r
<1> QED
  BY <1>1, <1>2, WriteKeeps

(* A squash merge appends the head's file to main. *)
LEMMA SquashMoves ==
    ASSUME LandingInv, NEW i \in Ids, GitHubAdmits(branches[i]), Squash(i),
           foreign' \in Nat, foreign' >= foreign
    PROVE  LogMove /\ BranchesMove /\ Len(mainLog') = Tip + 1
<1>1. /\ receipts[i] \in Receipts /\ branches[i] \in Branches /\ Tip \in Nat /\ Tip < MaxMain
      /\ receipts[i].src \in Nat /\ receipts[i].src <= Tip
  <2>1. LandingTypes /\ MergesPlaced
    BY DEF LandingInv, LandingBase
  <2>2. receipts[i] \in Receipts /\ branches[i] \in Branches /\ Tip \in Nat
    BY <2>1, LandingLens
  <2> QED
    BY <2>1, <2>2, BranchNumbers DEF MergesPlaced, GitHubAdmits
<1>2. branches[i].head.files \in Content
  BY <1>1, BranchNumbers DEF Heads
<1>3. LogMove /\ Len(mainLog') = Tip + 1
  BY <1>1, <1>2, LogAppended DEF Squash
<1> DEFINE n == Tip + 1
           b == [branches[i] EXCEPT !.state = "MERGED", !.at = n, !.remote = NoHead]
<1>4. n \in 0..MaxMain /\ n \in receipts[i].src..Len(mainLog')
  BY <1>1, <1>3, LandingNumbers
<1>5. branches' = [branches EXCEPT ![i] = b]
  BY DEF Squash
<1> HIDE DEF n
<1>6. /\ b \in Branches /\ b.worktree = branches[i].worktree /\ b.remote = NoHead
      /\ b.head = branches[i].head /\ b.at = n
  BY <1>1, <1>4, NoHeadTyped DEF Branches
<1> HIDE DEF b
<1>7. b.worktree.rev <= foreign' /\ b.remote.rev <= foreign' /\ b.head.rev <= foreign'
  <2>1. /\ branches[i].worktree.rev <= foreign /\ branches[i].head.rev <= foreign
        /\ foreign \in Nat /\ NoHead.rev = 0
    BY NoHeadTyped, LandingNumbers DEF LandingInv, LandingBase, LandingTypes, RevsCounted
  <2>2. branches[i].worktree.rev \in Nat /\ branches[i].head.rev \in Nat
    BY <1>1, BranchNumbers
  <2> QED
    BY <1>6, <2>1, <2>2
<1>8. BranchesMove
  BY <1>3, <1>4, <1>5, <1>6, <1>7, BranchWritten
<1> QED
  BY <1>3, <1>8

LEMMA MergeKeeps ==
    ASSUME LandingInv, NEW i \in Ids, mergeCommand(i)
    PROVE  LandingInv'
<1>1. /\ UNCHANGED <<local, queued, green, red, boot, foreign, faults>>
      /\ busy.of = i /\ Open(i) /\ busy.pin \in Heads
      /\ foreign' \in Nat /\ foreign' >= foreign
      /\ local' \in 1..Len(mainLog) /\ faults' \in 0..MaxFaults
  BY BusyIsOpen, LandingNumbers DEF mergeCommand, LandingInv, LandingBase, LandingTypes
<1>2. CASE /\ GitHubAdmits(branches[i]) /\ Squash(i)
           /\ busy' = At(i, "MERGE_REQUESTED", busy.pin) /\ UNCHANGED receipts
  <2>1. LogMove /\ BranchesMove /\ Len(mainLog') = Tip + 1
    BY <1>1, <1>2, SquashMoves
  <2>2. BusyOpen' /\ busy' \in [of : 0..MaxTransitions, at : BusySteps, pin : Heads]
    BY <1>1, <1>2, BusyGoesOn DEF BusySteps
  <2>3. ReceiptsMove
    BY <1>2, ReceiptsStay
  <2>4. local' \in 1..Len(mainLog')
    BY <1>1, <2>1, LandingLens DEF LandingInv, LandingBase, Tip
  <2>5. OthersMove
    BY <1>1, <2>2, <2>4 DEF OthersMove, LandingInv, LandingBase, LandingTypes
  <2> QED
    BY <2>1, <2>2, <2>3, <2>5, MovesKeep
<1>3. CASE writeReceipt(i, Retryable(i)) /\ UNCHANGED <<mainLog, branches>>
  <2> DEFINE r == Retryable(i)
  <2>1. r \in Receipts /\ SameWork(r, receipts[i]) /\ SaysTrue(r) /\ writeReceipt(i, r)
    BY <1>1, <1>3, LandingWrites DEF Open, TERMINAL_STATUSES
  <2> HIDE DEF r
  <2> QED
    BY <1>1, <1>3, <2>1, WriteKeeps
<1> QED
  BY <1>2, <1>3 DEF mergeCommand

(* The supervisor's own steps outside a receipt, and the rest of the world's. *)
LEMMA WorldMoves ==
    ASSUME LandingInv, UNCHANGED <<receipts, busy>>, LogMove, BranchesMove,
           local' \in 1..Len(mainLog'), queued' \in Seq(Snapshots), Len(queued') <= 1,
           green' \cap red' = {}, UNCHANGED boot,
           foreign' \in 0..MaxForeign, faults' \in 0..MaxFaults
    PROVE  LandingInv'
<1>1. ReceiptsMove
  BY ReceiptsStay
<1>2. BusyOpen'
  BY DEF LandingInv, BusyOpen, Open, Ids
<1>3. OthersMove
  BY DEF OthersMove, LandingInv, LandingBase, LandingTypes
<1> QED
  BY <1>1, <1>2, <1>3, MovesKeep

LEMMA WorldKeeps ==
    ASSUME LandingInv, NEW i,
           \/ refreshMain \/ OtherMerge
           \/ i \in Ids /\ (CiVerdict(i) \/ CiRerun(i) \/ OperatorMerge(i))
    PROVE  LandingInv'
<1>1. /\ LandingTypes /\ Tip \in Nat /\ Tip > 0 /\ mainLog[Tip] \in Content
      /\ local \in 1..Len(mainLog) /\ queued \in Seq(Snapshots) /\ Len(queued) <= 1
      /\ green \cap red = {} /\ foreign \in 0..MaxForeign /\ faults \in 0..MaxFaults
  BY LandingLens DEF LandingInv, LandingBase, LandingTypes
<1>2. /\ UNCHANGED <<queued, receipts, busy, boot>>
      /\ foreign' \in 0..MaxForeign /\ faults' \in 0..MaxFaults
      /\ foreign' \in Nat /\ foreign' >= foreign
      /\ green' \cap red' = {}
  BY <1>1, LandingNumbers DEF refreshMain, OtherMerge, CiVerdict, CiRerun, OperatorMerge
<1>3. CASE OtherMerge
  <2>1. LogMove /\ Len(mainLog') = Tip + 1
    BY <1>1, <1>3, LogAppended DEF OtherMerge
  <2>2. BranchesMove
    BY <1>2, <1>3, <2>1, BranchesStay DEF OtherMerge
  <2>3. local' \in 1..Len(mainLog')
    BY <1>1, <1>3, <2>1 DEF OtherMerge, Tip
  <2> QED
    BY <1>1, <1>2, <2>1, <2>2, <2>3, WorldMoves
<1>4. CASE i \in Ids /\ OperatorMerge(i)
  <2>1. LogMove /\ BranchesMove /\ Len(mainLog') = Tip + 1
    BY <1>2, <1>4, SquashMoves DEF OperatorMerge
  <2>2. local' \in 1..Len(mainLog')
    BY <1>1, <1>4, <2>1 DEF OperatorMerge, Tip
  <2> QED
    BY <1>1, <1>2, <2>1, <2>2, WorldMoves
<1>5. CASE refreshMain \/ CiVerdict(i) \/ CiRerun(i)
  <2>1. UNCHANGED <<mainLog, branches>> /\ local' \in 1..Len(mainLog')
    BY <1>1, <1>5 DEF refreshMain, CiVerdict, CiRerun, Tip
  <2>2. LogMove /\ BranchesMove
    BY <1>2, <2>1, LogStays, BranchesStay
  <2> QED
    BY <1>1, <1>2, <2>1, <2>2, WorldMoves
<1> QED
  BY <1>3, <1>4, <1>5

(* The commit somebody else pushes is a head with one more foreign commit. *)
LEMMA PushKeeps ==
    ASSUME LandingInv, NEW i \in Ids, NEW p \in Packages, NEW s \in PackageStatus,
           ForeignPush(i, p, s)
    PROVE  LandingInv'
<1> DEFINE h0 == branches[i].remote
           f == [h0.files EXCEPT ![p] = s]
           n == h0.rev + 1
           h == [h0 EXCEPT !.files = f, !.rev = n]
           b == [branches[i] EXCEPT !.remote = h, !.head = h]
<1>1. /\ branches[i] \in Branches /\ h0 \in Heads /\ h0.rev \in Nat /\ receipts[i] \in Receipts
      /\ branches[i].worktree.rev \in Nat
  BY LandingLens, BranchNumbers DEF LandingInv, LandingBase
<1>2. /\ foreign \in Nat /\ foreign < MaxForeign /\ foreign' = foreign + 1 /\ h0.rev <= foreign
      /\ branches[i].worktree.rev <= foreign
      /\ branches[i].state = "OPEN"
      /\ UNCHANGED <<mainLog, local, queued, receipts, green, red, busy, boot, faults>>
      /\ LandingTypes
  BY LandingNumbers DEF LandingInv, LandingBase, LandingTypes, RevsCounted, ForeignPush
<1>3. f \in Content
  BY <1>1 DEF Heads, Content
<1>4. n \in 0..MaxForeign /\ n <= foreign'
  BY <1>1, <1>2, LandingNumbers
<1>5. branches' = [branches EXCEPT ![i] = b]
  BY DEF ForeignPush
<1> HIDE DEF f, n
<1>6. h \in Heads /\ h.rev = n
  BY <1>1, <1>3, <1>4 DEF Heads
<1> HIDE DEF h
<1>7. /\ b \in Branches /\ b.remote = h /\ b.head = h /\ b.worktree = branches[i].worktree
      /\ b.state = "OPEN"
  BY <1>1, <1>2, <1>6 DEF Branches
<1> HIDE DEF b
<1>8. LogMove
  BY <1>2, LogStays
<1>9. foreign' \in Nat /\ foreign' >= foreign /\ foreign' \in 0..MaxForeign
  BY <1>2, LandingNumbers
<1>10. b.worktree.rev <= foreign' /\ b.remote.rev <= foreign' /\ b.head.rev <= foreign'
  BY <1>1, <1>2, <1>4, <1>6, <1>7
<1>11. BranchesMove
  BY <1>5, <1>7, <1>8, <1>9, <1>10, BranchWritten
<1> QED
  BY <1>2, <1>8, <1>9, <1>11, WorldMoves DEF LandingTypes

LEMMA CrashKeeps ==
    ASSUME LandingInv, Crash
    PROVE  LandingInv'
<1>1. /\ LandingTypes /\ foreign' \in Nat /\ foreign' >= foreign
      /\ UNCHANGED <<mainLog, local, receipts, branches, green, red, foreign>>
      /\ busy' = Idle /\ queued' = <<>> /\ boot' \subseteq Ids /\ faults' \in 0..MaxFaults
  BY LandingNumbers DEF Crash, LandingInv, LandingBase, LandingTypes
<1>2. LogMove /\ BranchesMove /\ ReceiptsMove
  BY <1>1, LogStays, BranchesStay, ReceiptsStay
<1>3. queued' \in Seq(Snapshots) /\ Len(queued') <= 1
  BY <1>1
<1>4. OthersMove /\ BusyOpen'
  BY <1>1, <1>3, IdleTyped DEF OthersMove, BusyOpen, LandingTypes
<1> QED
  BY <1>2, <1>4, MovesKeep

LEMMA QueueKeeps ==
    ASSUME LandingInv, NEW p \in Packages, NEW s \in PackageStatus, setPackageStatus(p, s)
    PROVE  LandingInv'
<1> DEFINE q == [pkg |-> p, from |-> mainLog[local][p], to |-> s,
                 desired |-> [mainLog[local] EXCEPT ![p] = s]]
<1>1. /\ LandingTypes /\ foreign' \in Nat /\ foreign' >= foreign
      /\ UNCHANGED <<mainLog, local, receipts, branches, green, red, busy, boot, foreign, faults>>
      /\ queued' = <<q>>
  BY LandingNumbers DEF setPackageStatus, LandingInv, LandingBase, LandingTypes
<1>2. mainLog[local] \in Content
  BY <1>1, LandingLens DEF LandingTypes, Tip
<1>3. q \in Snapshots
  BY <1>2 DEF Snapshots, Content
<1> HIDE DEF q
<1>4. queued' \in Seq(Snapshots) /\ Len(queued') <= 1
  BY <1>1, <1>3
<1>5. LogMove /\ BranchesMove
  BY <1>1, LogStays, BranchesStay
<1> QED
  BY <1>1, <1>4, <1>5, WorldMoves DEF LandingTypes

(* A request opens a receipt only when no open one is for its transition. *)
LEMMA RequestOpens ==
    ASSUME LandingInv, NEW q \in Snapshots, Len(receipts) < MaxTransitions,
           \A i \in Ids : ~Answers(receipts[i], q),
           receipts' = Append(receipts, NewReceipt(q)),
           branches' = Append(branches, [worktree |-> NoHead, remote |-> NoHead,
                                         state |-> "NONE", head |-> NoHead, at |-> 0]),
           queued' = <<>>, local' \in 1..Len(mainLog),
           UNCHANGED <<mainLog, green, red, busy, boot, foreign, faults>>
    PROVE  LandingInv'
<1> DEFINE r == NewReceipt(q)
           b == [worktree |-> NoHead, remote |-> NoHead, state |-> "NONE", head |-> NoHead,
                 at |-> 0]
           m == Len(receipts) + 1
<1>1. /\ LandingTypes /\ RevsCounted /\ BusyOpen /\ MergesPlaced /\ ReceiptsTruthful
      /\ receipts \in Seq(Receipts) /\ branches \in Seq(Branches) /\ Len(branches) = Len(receipts)
      /\ foreign \in Nat
  BY LandingNumbers DEF LandingInv, LandingBase, LandingTypes
<1>2. Len(receipts) \in Nat /\ Tip \in 1..MaxMain /\ Tip \in Nat /\ Ids = 1..Len(receipts)
  BY <1>1, LandingLens, LandingNumbers
<1>3. /\ r \in Receipts /\ r.src = Tip /\ r.status = "REQUESTED" /\ SameTransition(r, q)
      /\ b \in Branches /\ b.state = "NONE"
      /\ b.worktree.rev = 0 /\ b.remote.rev = 0 /\ b.head.rev = 0
  <2>1. q.pkg \in Packages /\ q.from \in PackageStatus /\ q.to \in PackageStatus /\ q.desired \in Content
    BY DEF Snapshots
  <2>2. "REQUESTED" \in RECEIPT_STATUSES /\ 0 \in 0..MaxBaseUpdates
        /\ 0 \in 0..(MaxVerifyRetries + 1) /\ 0 \in 0..MaxMain
    BY LandingNumbers DEF RECEIPT_STATUSES, MaxBaseUpdates, MaxVerifyRetries
  <2>3. r \in Receipts /\ r.src = Tip /\ r.status = "REQUESTED" /\ SameTransition(r, q)
    BY <1>2, <2>1, <2>2, NoHeadTyped DEF NewReceipt, Receipts, SameTransition
  <2>4. b \in Branches /\ b.state = "NONE" /\ b.worktree = NoHead /\ b.remote = NoHead /\ b.head = NoHead
    BY <2>2, NoHeadTyped DEF Branches
  <2> QED
    BY <2>3, <2>4, NoHeadTyped
<1> HIDE DEF r, b
<1>4. /\ receipts' \in Seq(Receipts) /\ Len(receipts') = m
      /\ \A i \in Ids : receipts'[i] = receipts[i]
      /\ receipts'[m] = r
  <2>1. receipts' = Append(receipts, r)
    BY DEF r
  <2> QED
    BY <1>1, <1>2, <1>3, <2>1, AppendProperties
<1>5. /\ branches' \in Seq(Branches) /\ Len(branches') = m
      /\ \A i \in Ids : branches'[i] = branches[i]
      /\ branches'[m] = b
  <2>1. branches' = Append(branches, b)
    BY DEF b
  <2> QED
    BY <1>1, <1>2, <1>3, <2>1, AppendProperties
<1>6. /\ m \in Nat /\ Ids' = 1..m /\ Ids \subseteq Ids' /\ m \notin Ids /\ m <= MaxTransitions
      /\ \A i \in Ids' : i \in Ids \/ i = m
      /\ Tip' = Tip
  BY <1>2, <1>4, LandingNumbers DEF Ids, Tip
<1> HIDE DEF m
<1>7. LandingTypes'
  <2>1. queued' \in Seq(Snapshots) /\ Len(queued') <= 1
    OBVIOUS
  <2>2. boot' \subseteq Ids'
    BY <1>1, <1>6 DEF LandingTypes
  <2> QED
    BY <1>1, <1>4, <1>5, <1>6, <2>1, <2>2 DEF LandingTypes
<1>8. RevsCounted'
  BY <1>1, <1>3, <1>5, <1>6 DEF RevsCounted
<1>9. BusyOpen'
  BY <1>1, <1>4, <1>6 DEF BusyOpen, Open
<1>10. MergesPlaced'
  <2> SUFFICES ASSUME NEW i \in Ids'
               PROVE  /\ receipts'[i].src <= Tip
                      /\ branches'[i].state = "MERGED" => branches'[i].at \in receipts'[i].src..Tip
    BY <1>6 DEF MergesPlaced
  <2>1. CASE i \in Ids
    BY <1>1, <1>4, <1>5, <2>1 DEF MergesPlaced
  <2>2. CASE i = m
    BY <1>2, <1>3, <1>4, <1>5, <2>2
  <2> QED
    BY <1>6, <2>1, <2>2
<1>11. ReceiptsTruthful'
  <2>1. ASSUME NEW i \in Ids', receipts'[i].status = "MERGED", ~receipts'[i].leftover
        PROVE  /\ receipts'[i].merged \in receipts'[i].src..Tip
               /\ \E n \in receipts'[i].merged..Tip : mainLog[n] = receipts'[i].desired
    <3>1. i \in Ids
      BY <1>3, <1>4, <1>6, <2>1
    <3> QED
      BY <1>1, <1>4, <2>1, <3>1 DEF ReceiptsTruthful
  <2>2. ASSUME NEW i \in Ids, Open(i)
        PROVE  ~SameTransition(receipts[i], r) /\ ~SameTransition(r, receipts[i])
    <3>1. ~SameTransition(receipts[i], q)
      BY <2>2 DEF Answers, Open
    <3> QED
      BY <1>3, <3>1 DEF SameTransition
  <2>3. ASSUME NEW i \in Ids', NEW j \in Ids', i # j,
               receipts'[i].status \notin TERMINAL_STATUSES,
               receipts'[j].status \notin TERMINAL_STATUSES
        PROVE  ~SameTransition(receipts'[i], receipts'[j])
    <3>1. CASE i \in Ids /\ j \in Ids
      BY <1>1, <1>4, <2>3, <3>1 DEF ReceiptsTruthful, Open
    <3>2. CASE i \in Ids /\ j = m
      BY <1>4, <2>2, <2>3, <3>2 DEF Open
    <3>3. CASE i = m /\ j \in Ids
      BY <1>4, <2>2, <2>3, <3>3 DEF Open
    <3> QED
      BY <1>6, <2>3, <3>1, <3>2, <3>3
  <2> QED
    BY <1>6, <2>1, <2>3 DEF ReceiptsTruthful, Open
<1> QED
  BY <1>7, <1>8, <1>9, <1>10, <1>11 DEF LandingInv, LandingBase

LEMMA RequestKeeps ==
    ASSUME LandingInv, requestTransition
    PROVE  LandingInv'
<1>1. /\ LandingTypes /\ queued \in Seq(Snapshots) /\ queued # <<>>
      /\ local \in 1..Len(mainLog) /\ foreign' \in Nat /\ foreign' >= foreign
      /\ UNCHANGED <<mainLog, green, red, busy, boot, foreign, faults>> /\ queued' = <<>>
  BY LandingNumbers DEF requestTransition, LandingInv, LandingBase, LandingTypes
<1>2. local' \in 1..Len(mainLog)
  BY <1>1, LandingLens DEF requestTransition, Tip
<1> DEFINE q == Head(queued)
<1>3. q \in Snapshots
  BY <1>1, HeadTailProperties
<1>4. CASE UNCHANGED <<receipts, branches>>
  <2>1. LogMove /\ BranchesMove
    BY <1>1, <1>4, LogStays, BranchesStay
  <2>2. queued' \in Seq(Snapshots) /\ Len(queued') <= 1
    BY <1>1
  <2> QED
    BY <1>1, <1>2, <1>4, <2>1, <2>2, WorldMoves DEF LandingTypes
<1>5. CASE ~\E i \in Ids : Answers(receipts[i], q)
  <2>1. /\ Len(receipts) < MaxTransitions
        /\ receipts' = Append(receipts, NewReceipt(q))
        /\ branches' = Append(branches, [worktree |-> NoHead, remote |-> NoHead,
                                         state |-> "NONE", head |-> NoHead, at |-> 0])
    BY <1>5 DEF requestTransition
  <2> HIDE DEF q
  <2> QED
    BY <1>1, <1>2, <1>3, <1>5, <2>1, RequestOpens
<1> QED
  BY <1>4, <1>5 DEF requestTransition

LEMMA LandingStep ==
    ASSUME LandingInv, [LandingNext]_landingVars
    PROVE  LandingInv'
<1>1. CASE refreshMain \/ OtherMerge
  BY <1>1, WorldKeeps
<1>2. CASE requestTransition
  BY <1>2, RequestKeeps
<1>3. CASE Crash
  BY <1>3, CrashKeeps
<1>4. CASE \E p \in Packages, s \in PackageStatus : setPackageStatus(p, s)
  BY <1>4, QueueKeeps
<1>5. ASSUME NEW i \in Ids,
             AdvanceReceipt(i) \/ callFails(i) \/ checkFails(i) \/ reuseBranch(i)
      PROVE  LandingInv'
  BY <1>5, StepWritesKeep, EffectsKeep, PrepareKeeps, ReuseKeeps, AdoptKeeps, BaseKeeps, WaitKeeps,
     CheckKeeps, RefusalKeeps, MergeKeeps DEF AdvanceReceipt
<1>6. ASSUME NEW i \in Ids, CiVerdict(i) \/ CiRerun(i) \/ OperatorMerge(i)
      PROVE  LandingInv'
  BY <1>6, WorldKeeps
<1>7. ASSUME NEW i \in Ids, NEW p \in Packages, NEW s \in PackageStatus, ForeignPush(i, p, s)
      PROVE  LandingInv'
  BY <1>7, PushKeeps
<1>8. CASE UNCHANGED landingVars
  BY <1>8 DEF landingVars, LandingInv, LandingBase, LandingTypes, RevsCounted, BusyOpen,
     MergesPlaced, ReceiptsTruthful, Ids, Tip, Open
<1> QED
  BY <1>1, <1>2, <1>3, <1>4, <1>5, <1>6, <1>7, <1>8 DEF LandingNext

LEMMA LandingStarts == LandingInit => LandingInv
<1> SUFFICES ASSUME LandingInit PROVE LandingInv
  OBVIOUS
<1> DEFINE c == [p \in Packages |-> "PENDING"]
<1>1. c \in Content
  BY LandingNumbers DEF Content
<1>2. mainLog = <<c>> /\ receipts = <<>> /\ branches = <<>>
  BY DEF LandingInit
<1> HIDE DEF c
<1>3. mainLog \in Seq(Content) /\ Len(mainLog) = 1 /\ Ids = {}
  BY <1>1, <1>2 DEF Ids
<1>4. receipts \in Seq(Receipts) /\ Len(receipts) = 0 /\ branches \in Seq(Branches) /\ Len(branches) = 0
  BY <1>2
<1>5. LandingTypes
  BY <1>3, <1>4, IdleTyped, LandingNumbers DEF LandingInit, LandingTypes
<1>6. BusyOpen
  BY IdleTyped DEF LandingInit, BusyOpen, Idle
<1> QED
  BY <1>3, <1>5, <1>6 DEF LandingInv, LandingBase, RevsCounted, MergesPlaced, ReceiptsTruthful

LEMMA LandingInductive == LandingSpec => []LandingInv
<1>1. LandingInv /\ [LandingNext]_landingVars => LandingInv'
  BY LandingStep
<1> QED
  BY <1>1, LandingStarts, PTL DEF LandingSpec

(* Types of the lane's state: what the run checks as LandingTypeOK.        *)
LEMMA LandingTyped == LandingInv => LandingTypeOK
<1> SUFFICES ASSUME LandingInv PROVE LandingTypeOK
  OBVIOUS
<1>1. LandingTypes
  BY DEF LandingInv, LandingBase
<1>2. \A i \in Ids : receipts[i] \in Receipts /\ branches[i] \in Branches
  BY <1>1, LandingLens
<1> QED
  BY <1>1, <1>2 DEF LandingTypes, LandingTypeOK, Receipts, Branches, Snapshots

(* The receipts of the lane tell the truth in every reachable state, for    *)
(* any number of packages, receipts, crashes and foreign pushes and merges: *)
(* MERGED means main had the desired file from the named commit on          *)
(* (verifyMergeAuthoritatively), unless the receipt was closed on a branch   *)
(* the cleanup had left, and a change on its way has one open receipt (the  *)
(* logical transition key).                                                 *)
THEOREM ReceiptsAreTruthful == LandingSpec => []ReceiptsTruthful
<1>1. LandingInv => ReceiptsTruthful
  BY DEF LandingInv
<1> QED
  BY <1>1, LandingInductive, PTL

(* The lane never merges anything but the head its receipt is authorized    *)
(* for, and only while that head's required check is green, whatever is     *)
(* pushed or re-run between preMergeCheck and the merge command.            *)
THEOREM LaneMergesAuthorized == LandingSpec => LaneMergesItsAuthorizedHead
<1> DEFINE P == \A i \in Ids :
                 (busy.of = i /\ busy.at = "merge" /\ mainLog' # mainLog /\ busy' # busy) =>
                     /\ branches[i].head = receipts[i].auth
                     /\ receipts[i].auth \in green
<1>1. LandingInv /\ [LandingNext]_landingVars => P
  <2> SUFFICES ASSUME LandingInv, [LandingNext]_landingVars, NEW i \in Ids,
                      busy.of = i, busy.at = "merge", mainLog' # mainLog, busy' # busy
               PROVE  branches[i].head = receipts[i].auth /\ receipts[i].auth \in green
    OBVIOUS
  <2>1. ASSUME NEW j \in Ids, AdvanceReceipt(j)
        PROVE  mergeCommand(j)
    BY <2>1 DEF AdvanceReceipt, prepareBranch, pushBranch, openPullRequest, writeAfterEffect, pinHead,
       authorizeHead, ciRefused, updateBase, waitForCi, reverifyHead, reconcileMerged, preMergeCheck,
       verifyLanding, adoptMergedState
  <2>2. \E j \in Ids : mergeCommand(j)
    BY <2>1 DEF LandingNext, landingVars, refreshMain, requestTransition, Crash, OtherMerge,
       setPackageStatus, callFails, checkFails, reuseBranch, CiVerdict, CiRerun, OperatorMerge, ForeignPush
  <2>3. mergeCommand(i) /\ GitHubAdmits(branches[i]) /\ MatchesHead(i)
    BY <2>2 DEF mergeCommand
  <2>4. busy.pin = receipts[i].auth
    BY DEF LandingInv, BusyOpen
  <2> QED
    BY <2>3, <2>4 DEF GitHubAdmits, MatchesHead
<1>2. LandingInv /\ [LandingNext]_landingVars => [P]_landingVars
  BY <1>1
<1> QED
  BY <1>2, LandingInductive, PTL DEF LandingSpec, LaneMergesItsAuthorizedHead

-----------------------------------------------------------------------------
(* Alerts: what the router gives away *)

(* Whatever the requests are, classifyAlert delivers no request under a     *)
(* class it has not earned: a confirmed opportunity passed every gate on    *)
(* results nobody contradicted, and an announcement is of a new candidate   *)
(* that is neither at risk nor rejected nor expired.                        *)
THEOREM ClassesAreEarned ==
    \A q \in Requests : classifyAlert(q) # Suppressed => Earned(q, classifyAlert(q))
<1> SUFFICES ASSUME NEW q \in Requests, classifyAlert(q) # Suppressed
             PROVE  Earned(q, classifyAlert(q))
  OBVIOUS
<1>1. /\ GateResultsMatch(q) /\ classifyAlert(q) = routeAlertClass(q)
      /\ routeAlertClass(q) # Suppressed
  BY DEF classifyAlert
<1>2. ~q.organicUnbacked /\ q.decision \notin {"IGNORE", "REJECT", "INSUFFICIENT_DATA"}
  BY <1>1 DEF routeAlertClass
<1>3. CASE q.prior
  <2>1. routeAlertClass(q) = routePriorUpdate(q)
    BY <1>2, <1>3 DEF routeAlertClass
  <2>2. /\ q.actionability # "EXPIRED"
        /\ routePriorUpdate(q) \in {"OPPORTUNITY_EXPIRED", "RISK_ALERT", "THESIS_WEAKENING",
                                    "THESIS_STRENGTHENING"}
    BY <1>1, <2>1 DEF routePriorUpdate
  <2> QED
    BY <1>1, <1>2, <2>1, <2>2 DEF Earned
<1>4. CASE ~q.prior
  <2>1. q.actionability # "EXPIRED"
    BY <1>1, <1>2, <1>4 DEF routeAlertClass
  <2>2. CASE q.lifecycle \in TerminalLifecycle \/ q.risk \in RiskStates
    <3>1. routeAlertClass(q) \in {"OPPORTUNITY_EXPIRED", "RISK_ALERT"}
      BY <1>2, <1>4, <2>1, <2>2 DEF routeAlertClass
    <3> QED
      BY <1>1, <1>2, <2>1, <3>1 DEF Earned
  <2>3. CASE q.lifecycle \notin TerminalLifecycle /\ q.risk \notin RiskStates
    <3>1. routeAlertClass(q) = IF wantsConfirmed(q) THEN confirm(q)
                               ELSE IF q.recommended # "none" THEN q.recommended ELSE "EARLY_WATCH"
      BY <1>2, <1>4, <2>1, <2>3 DEF routeAlertClass
    <3>2. routeAlertClass(q) = "CONFIRMED_OPPORTUNITY" => q.refused = {} /\ q.supplied # "differ"
      BY <1>1, <3>1 DEF wantsConfirmed, confirm, GateResultsMatch, Suppressed
    <3> QED
      BY <1>1, <1>2, <1>4, <2>1, <2>3, <3>2 DEF Earned
  <2> QED
    BY <2>2, <2>3
<1> QED
  BY <1>3, <1>4

LEMMA NothingUnearned == UnearnedClasses = {}
  BY ClassesAreEarned DEF UnearnedClasses

-----------------------------------------------------------------------------
(* Alerts: the inductive invariant *)

AlertRecords == [state : {"NONE", "ACTIONABLE", "EXPIRED"}, class : Recorded \cup {"none"}, until : Nat]
UpdateRows == [prior : Alerts, kind : Kinds, evidence : {v.evidence : v \in Views},
               risk : {v.risk : v \in Views}, at : Nat]
Sweeps == [at : {"idle", "next", "commit", "write"}, now : Nat, due : Seq(Alerts), kind : Kinds,
           view : SUBSET Views]

AlertTypes ==
    /\ clock \in 0..MaxClock
    /\ record \in [Alerts -> AlertRecords]
    /\ updates \subseteq UpdateRows
    /\ ledger \in [Alerts -> [until : Nat, updatedAt : Nat]]
    /\ sweep \in [Sweepers -> Sweeps]

(* A sweep works with a clock that is past, on recorded alerts; at the update *)
(* of an alert it has one view, and the alert was valid at the sweep's clock. *)
SoundSweep(s) ==
    /\ Len(s.due) <= SweepLimit
    /\ s.at # "idle" =>
           /\ s.now <= clock /\ s.due # <<>>
           /\ \A i \in 1..Len(s.due) : record[s.due[i]].state # "NONE"
    /\ s.at \in {"commit", "write"} =>
           /\ s.now < record[Head(s.due)].until
           /\ \E v \in Views : s.view = {v}

SweepsSound == \A w \in Sweepers : SoundSweep(sweep[w])

UpdatesSound == \A u \in updates :
    u.at <= clock /\ record[u.prior].state # "NONE" /\ u.at < record[u.prior].until

LedgerBounded == \A a \in Alerts :
    \E k \in Kinds : ledger[a].until <= cooldownUntilFrom(ledger[a].updatedAt, k)

LedgerRemembers(a) ==
    LET of == {u \in updates : u.prior = a} IN
    of # {} => /\ \A u \in of : u.at <= ledger[a].updatedAt
               /\ \E u \in of : /\ u.at = ledger[a].updatedAt
                                /\ ledger[a].until = cooldownUntilFrom(u.at, u.kind)

KeysUnique == \A u, v \in updates : KeyOf(u) = KeyOf(v) => u = v

AlertInv ==
    /\ AlertTypes /\ SweepsSound /\ UpdatesSound /\ LedgerBounded /\ KeysUnique
    /\ \A a \in Alerts : LedgerRemembers(a)

LEMMA AlertNumbers ==
    /\ Ttl \in Nat /\ MaxClock \in Nat /\ Alerts \subseteq Nat
    /\ SweepLimit \in Nat /\ SweepLimit > 0
  BY AlertAssumption

(* The window of an update of any kind ends no earlier than it starts. *)
LEMMA WindowTyped ==
    ASSUME NEW n \in Nat, NEW k \in Kinds
    PROVE  cooldownUntilFrom(n, k) \in Nat /\ cooldownUntilFrom(n, k) >= n
<1>1. alertClassForPriorEvent(k) \in UpdateClasses
  BY DEF alertClassForPriorEvent, UpdateClasses, Kinds
<1>2. PICK d \in Nat : d = Cooldown[alertClassForPriorEvent(k)]
  BY <1>1, AlertAssumption
<1>3. cooldownUntilFrom(n, k) = n + d
  BY <1>2 DEF cooldownUntilFrom
<1> QED
  BY <1>2, <1>3

LEMMA NoSweepTyped ==
    /\ NoSweep \in Sweeps /\ NoSweep.at = "idle" /\ NoSweep.due = <<>> /\ SoundSweep(NoSweep)
<1>1. NoSweep \in Sweeps /\ NoSweep.at = "idle" /\ NoSweep.due = <<>>
  BY DEF NoSweep, Sweeps, Kinds
<1> QED
  BY <1>1, AlertNumbers DEF SoundSweep

LEMMA NoRecordTyped == NoRecord \in AlertRecords /\ NoRecord.state = "NONE"
  BY DEF NoRecord, AlertRecords

(* Records only start and expire: what a sweep or an update relies on stays. *)
RecordsMove == \A a \in Alerts : record[a].state # "NONE" =>
    record'[a].state # "NONE" /\ record'[a].until = record[a].until

LEMMA SoundStays ==
    ASSUME AlertInv, RecordsMove, clock' \in Nat, clock' >= clock, NEW s \in Sweeps, SoundSweep(s)
    PROVE  SoundSweep(s)'
<1>1. /\ s.due \in Seq(Alerts) /\ s.now \in Nat /\ clock \in Nat
  BY AlertNumbers DEF Sweeps, AlertInv, AlertTypes
<1>2. \A i \in 1..Len(s.due) : s.due[i] \in Alerts
  BY <1>1, ElementOfSeq
<1>3. CASE s.at = "idle"
  BY <1>3 DEF SoundSweep
<1>4. CASE s.at # "idle"
  <2>1. s.due # <<>> /\ \A i \in 1..Len(s.due) : record[s.due[i]].state # "NONE"
    BY <1>4 DEF SoundSweep
  <2>2. Len(s.due) \in Nat /\ Len(s.due) > 0 /\ Head(s.due) = s.due[1]
    BY <1>1, <2>1, EmptySeq
  <2>3. record'[Head(s.due)].until = record[Head(s.due)].until
    BY <1>2, <2>1, <2>2 DEF RecordsMove
  <2>4. \A i \in 1..Len(s.due) : record'[s.due[i]].state # "NONE"
    BY <1>2, <2>1 DEF RecordsMove
  <2>5. s.now <= clock'
    BY <1>1, <1>4 DEF SoundSweep
  <2> QED
    BY <1>4, <2>1, <2>3, <2>4, <2>5 DEF SoundSweep
<1> QED
  BY <1>3, <1>4

(* The sweeps stay sound when one of them moves on and records only move. *)
LEMMA SweepsKept ==
    ASSUME AlertInv, NEW w \in Sweepers, NEW s \in Sweeps, SoundSweep(s),
           sweep' = [sweep EXCEPT ![w] = s], RecordsMove, UNCHANGED clock
    PROVE  sweep' \in [Sweepers -> Sweeps] /\ SweepsSound'
<1>1. /\ clock \in Nat /\ sweep \in [Sweepers -> Sweeps] /\ sweep' \in [Sweepers -> Sweeps]
  BY AlertNumbers DEF AlertInv, AlertTypes
<1> SUFFICES ASSUME NEW x \in Sweepers PROVE SoundSweep(sweep[x])'
  BY <1>1 DEF SweepsSound
<1>2. sweep[x] \in Sweeps /\ SoundSweep(sweep[x])
  BY <1>1 DEF AlertInv, SweepsSound
<1>3. SoundSweep(s)'
  BY <1>1, SoundStays
<1>4. (x = w /\ sweep'[x] = s) \/ (x # w /\ sweep'[x] = sweep[x])
  BY <1>1
<1>5. CASE x = w
  BY <1>3, <1>4, <1>5 DEF SoundSweep
<1>6. CASE x # w
  <2>1. PICK y \in Sweeps : y = sweep[x]
    BY <1>2
  <2>2. SoundSweep(y) /\ clock' \in Nat /\ clock' >= clock
    BY <1>1, <1>2, <2>1
  <2>3. SoundSweep(y)'
    BY <2>2, SoundStays
  <2>4. sweep'[x] = y
    BY <1>4, <1>6, <2>1
  <2> QED
    BY <2>3, <2>4 DEF SoundSweep
<1> QED
  BY <1>5, <1>6

(* A step of one sweep that leaves the updates and the ledger alone. *)
LEMMA SweepMoves ==
    ASSUME AlertInv, NEW w \in Sweepers, NEW s \in Sweeps, SoundSweep(s),
           sweep' = [sweep EXCEPT ![w] = s], record' \in [Alerts -> AlertRecords], RecordsMove,
           UNCHANGED <<clock, updates, ledger>>
    PROVE  AlertInv'
<1>1. /\ AlertTypes /\ clock \in Nat /\ sweep \in [Sweepers -> Sweeps]
  BY AlertNumbers DEF AlertInv, AlertTypes
<1>2. AlertTypes'
  BY <1>1 DEF AlertTypes
<1>3. SweepsSound'
  BY SweepsKept
<1>4. UpdatesSound'
  BY <1>1 DEF AlertInv, UpdatesSound, RecordsMove, AlertTypes, UpdateRows
<1>5. /\ LedgerBounded' /\ KeysUnique'
      /\ \A a \in Alerts : LedgerRemembers(a)'
  BY DEF AlertInv, LedgerBounded, KeysUnique, LedgerRemembers
<1> QED
  BY <1>2, <1>3, <1>4, <1>5 DEF AlertInv

(* What NextAlert leaves of a sweep. *)
Rest(s) == IF Len(s.due) = 1 THEN NoSweep
           ELSE [NoSweep EXCEPT !.at = "next", !.now = s.now, !.due = Tail(s.due)]

LEMMA NextAlertRest ==
    ASSUME AlertInv, NEW w \in Sweepers, NextAlert(w)
    PROVE  sweep' = [sweep EXCEPT ![w] = Rest(sweep[w])]
  BY DEF NextAlert, Rest, AlertInv, AlertTypes

LEMMA BatchTyped ==
    ASSUME NEW n \in Nat, NEW due \in Seq(Alerts)
    PROVE  LET s == [NoSweep EXCEPT !.at = "next", !.now = n, !.due = due] IN
           s \in Sweeps /\ s.at = "next" /\ s.now = n /\ s.due = due
  BY NoSweepTyped DEF Sweeps, NoSweep, Kinds

LEMMA SweepFacts ==
    ASSUME AlertInv, NEW w \in Sweepers
    PROVE  /\ sweep[w] \in Sweeps /\ SoundSweep(sweep[w]) /\ sweep[w].due \in Seq(Alerts)
           /\ sweep[w].now \in Nat /\ clock \in Nat
           /\ sweep[w].at # "idle" =>
                  /\ sweep[w].now <= clock
                  /\ Len(sweep[w].due) \in Nat /\ Len(sweep[w].due) > 0
                  /\ Head(sweep[w].due) = sweep[w].due[1] /\ Head(sweep[w].due) \in Alerts
                  /\ record[Head(sweep[w].due)] \in AlertRecords
                  /\ record[Head(sweep[w].due)].state # "NONE"
<1>1. sweep[w] \in Sweeps /\ SoundSweep(sweep[w]) /\ clock \in Nat /\ record \in [Alerts -> AlertRecords]
  BY AlertNumbers DEF AlertInv, AlertTypes, SweepsSound
<1>2. sweep[w].due \in Seq(Alerts) /\ sweep[w].now \in Nat
  BY <1>1 DEF Sweeps
<1>3. ASSUME sweep[w].at # "idle"
      PROVE  /\ sweep[w].now <= clock
             /\ Len(sweep[w].due) \in Nat /\ Len(sweep[w].due) > 0
             /\ Head(sweep[w].due) = sweep[w].due[1] /\ Head(sweep[w].due) \in Alerts
             /\ record[Head(sweep[w].due)] \in AlertRecords
             /\ record[Head(sweep[w].due)].state # "NONE"
  <2>1. /\ sweep[w].now <= clock /\ sweep[w].due # <<>>
        /\ \A i \in 1..Len(sweep[w].due) : record[sweep[w].due[i]].state # "NONE"
    BY <1>1, <1>3 DEF SoundSweep
  <2>2. /\ Len(sweep[w].due) \in Nat /\ Len(sweep[w].due) > 0 /\ Head(sweep[w].due) = sweep[w].due[1]
        /\ Head(sweep[w].due) \in Alerts
    BY <1>2, <2>1, EmptySeq, HeadTailProperties
  <2> QED
    BY <1>1, <2>1, <2>2
<1> QED
  BY <1>1, <1>2, <1>3

LEMMA RestSound ==
    ASSUME AlertInv, NEW w \in Sweepers, sweep[w].at # "idle"
    PROVE  Rest(sweep[w]) \in Sweeps /\ SoundSweep(Rest(sweep[w]))
<1>1. PICK s \in Sweeps : s = sweep[w]
  BY SweepFacts
<1>2. /\ SoundSweep(s) /\ s.at # "idle" /\ s.due \in Seq(Alerts) /\ s.now \in Nat
      /\ Len(s.due) \in Nat /\ Len(s.due) > 0
  BY <1>1, SweepFacts
<1>3. CASE Len(s.due) = 1
  BY <1>1, <1>3, NoSweepTyped DEF Rest
<1>4. CASE Len(s.due) # 1
  <2> DEFINE d == Tail(s.due)
             r == [NoSweep EXCEPT !.at = "next", !.now = s.now, !.due = d]
  <2>1. /\ d \in Seq(Alerts) /\ Len(d) = Len(s.due) - 1
        /\ \A i \in 1..Len(d) : d[i] = s.due[i + 1] /\ i + 1 \in 1..Len(s.due)
    BY <1>2, <1>4, HeadTailProperties, EmptySeq
  <2> HIDE DEF d
  <2>2. r \in Sweeps /\ r.at = "next" /\ r.now = s.now /\ r.due = d
    BY <1>2, <2>1, BatchTyped
  <2>3. Rest(sweep[w]) = r
    BY <1>1, <1>4 DEF Rest, d
  <2> HIDE DEF r
  <2>4. /\ Len(s.due) <= SweepLimit /\ s.now <= clock
        /\ \A i \in 1..Len(s.due) : record[s.due[i]].state # "NONE"
    BY <1>2 DEF SoundSweep
  <2>5. Len(d) \in Nat /\ Len(d) > 0 /\ Len(d) <= SweepLimit
    <3>1. PICK n \in Nat : n = Len(s.due)
      BY <1>2
    <3>2. n > 0 /\ n # 1 /\ Len(d) = n - 1 /\ n <= SweepLimit /\ SweepLimit \in Nat
      BY <1>2, <1>4, <2>1, <2>4, <3>1, AlertNumbers
    <3> QED
      BY <3>2
  <2>6. d # <<>>
    BY <2>5
  <2>7. \A i \in 1..Len(d) : record[d[i]].state # "NONE"
    BY <2>1, <2>4
  <2>8. SoundSweep(r)
    BY <2>2, <2>4, <2>5, <2>6, <2>7 DEF SoundSweep
  <2> QED
    BY <2>2, <2>3, <2>8
<1> QED
  BY <1>3, <1>4

LEMMA RecordsStay ==
    ASSUME AlertInv, UNCHANGED record
    PROVE  record' \in [Alerts -> AlertRecords] /\ RecordsMove
  BY DEF AlertInv, AlertTypes, RecordsMove

LEMMA RecordExpires ==
    ASSUME AlertInv, NEW a \in Alerts, record[a].state # "NONE", transitionAlertActionability(a)
    PROVE  record' \in [Alerts -> AlertRecords] /\ RecordsMove
<1>1. record \in [Alerts -> AlertRecords]
  BY DEF AlertInv, AlertTypes
<1> DEFINE r == [record[a] EXCEPT !.state = "EXPIRED"]
<1>2. r \in AlertRecords /\ r.state = "EXPIRED" /\ r.until = record[a].until
  BY <1>1 DEF AlertRecords
<1>3. record' = [record EXCEPT ![a] = r]
  BY DEF transitionAlertActionability
<1> HIDE DEF r
<1> QED
  BY <1>1, <1>2, <1>3 DEF RecordsMove

LEMMA StartKeeps ==
    ASSUME AlertInv, NEW w \in Sweepers, sweepStart(w)
    PROVE  AlertInv'
<1>1. PICK n \in 1..SweepLimit : \E due \in [1..n -> DueAlerts] :
          sweep' = [sweep EXCEPT ![w] = [NoSweep EXCEPT !.at = "next", !.now = clock, !.due = due]]
  BY DEF sweepStart
<1>2. PICK due \in [1..n -> DueAlerts] :
          sweep' = [sweep EXCEPT ![w] = [NoSweep EXCEPT !.at = "next", !.now = clock, !.due = due]]
  BY <1>1
<1>3. /\ clock \in Nat /\ n \in Nat /\ n > 0 /\ n <= SweepLimit
  BY AlertNumbers DEF AlertInv, AlertTypes
<1>4. /\ due \in Seq(Alerts) /\ Len(due) = n
      /\ \A i \in 1..n : record[due[i]].state # "NONE"
  <2>1. due \in [1..n -> Alerts] /\ \A i \in 1..n : due[i] \in DueAlerts
    BY <1>2 DEF DueAlerts
  <2>2. due \in Seq(Alerts) /\ Len(due) = n
    BY <1>3, <2>1
  <2> QED
    BY <2>1, <2>2 DEF DueAlerts
<1> DEFINE s == [NoSweep EXCEPT !.at = "next", !.now = clock, !.due = due]
<1>5. s \in Sweeps /\ s.at = "next" /\ s.now = clock /\ s.due = due
  BY <1>3, <1>4, BatchTyped
<1>6. sweep' = [sweep EXCEPT ![w] = s] /\ UNCHANGED <<clock, record, updates, ledger>>
  BY <1>2 DEF sweepStart
<1> HIDE DEF s
<1>7. due # <<>>
  BY <1>3, <1>4
<1>8. SoundSweep(s)
  BY <1>3, <1>4, <1>5, <1>7 DEF SoundSweep
<1> QED
  BY <1>5, <1>6, <1>8, RecordsStay, SweepMoves

LEMMA SweepEndsKeep ==
    ASSUME AlertInv, NEW w \in Sweepers, sweep[w].at # "idle",
           NextAlert(w) \/ sweep' = [sweep EXCEPT ![w] = NoSweep],
           record' \in [Alerts -> AlertRecords], RecordsMove, UNCHANGED <<clock, updates, ledger>>
    PROVE  AlertInv'
<1>1. CASE NextAlert(w)
  <2> DEFINE s == Rest(sweep[w])
  <2>1. s \in Sweeps /\ SoundSweep(s) /\ sweep' = [sweep EXCEPT ![w] = s]
    BY <1>1, RestSound, NextAlertRest
  <2> HIDE DEF s
  <2> QED
    BY <2>1, SweepMoves
<1>2. CASE sweep' = [sweep EXCEPT ![w] = NoSweep]
  BY <1>2, NoSweepTyped, SweepMoves
<1> QED
  BY <1>1, <1>2

LEMMA BatchStepKeeps ==
    ASSUME AlertInv, NEW w \in Sweepers,
           sweepExpires(w) \/ sweepSkips(w) \/ reassessLate(w) \/ sweepAborts(w)
    PROVE  AlertInv'
<1>1. /\ sweep[w].at # "idle" /\ UNCHANGED <<clock, updates, ledger>>
      /\ NextAlert(w) \/ sweep' = [sweep EXCEPT ![w] = NoSweep]
  BY DEF sweepExpires, sweepSkips, reassessLate, sweepAborts
<1>2. /\ UNCHANGED record \/ transitionAlertActionability(Head(sweep[w].due))
      /\ Head(sweep[w].due) \in Alerts /\ record[Head(sweep[w].due)].state # "NONE"
  BY <1>1, SweepFacts DEF sweepExpires, sweepSkips, reassessLate, sweepAborts
<1>3. record' \in [Alerts -> AlertRecords] /\ RecordsMove
  BY <1>2, RecordsStay, RecordExpires
<1> QED
  BY <1>1, <1>3, SweepEndsKeep

LEMMA SweepWrite ==
    ASSUME NEW s \in Sweeps, NEW kind \in Kinds, NEW v \in Views
    PROVE  LET t == [s EXCEPT !.at = "commit", !.kind = kind, !.view = {v}] IN
           t \in Sweeps /\ t.at = "commit" /\ t.now = s.now /\ t.due = s.due /\ t.view = {v}
  BY DEF Sweeps

LEMMA ReassessKeeps ==
    ASSUME AlertInv, NEW w \in Sweepers, NEW kind \in Kinds, NEW v \in Views, reassess(w, kind, v)
    PROVE  AlertInv'
<1> DEFINE t == [sweep[w] EXCEPT !.at = "commit", !.kind = kind, !.view = {v}]
<1>1. /\ sweep[w].at = "next" /\ UNCHANGED <<clock, record, updates, ledger>>
      /\ sweep' = [sweep EXCEPT ![w] = t]
      /\ ~(sweep[w].now >= record[Head(sweep[w].due)].until)
  BY DEF reassess, actionabilityFor
<1>2. /\ sweep[w] \in Sweeps /\ SoundSweep(sweep[w]) /\ sweep[w].now \in Nat
      /\ record[Head(sweep[w].due)] \in AlertRecords
  BY <1>1, SweepFacts
<1>3. record[Head(sweep[w].due)].until \in Nat
  BY <1>2 DEF AlertRecords
<1>4. /\ t \in Sweeps /\ t.at = "commit" /\ t.now = sweep[w].now /\ t.due = sweep[w].due
      /\ t.view = {v}
  BY <1>2, SweepWrite
<1> HIDE DEF t
<1>5. SoundSweep(t)
  BY <1>1, <1>2, <1>3, <1>4 DEF SoundSweep
<1> QED
  BY <1>1, <1>4, <1>5, RecordsStay, SweepMoves

LEMMA ReadsKeep ==
    ASSUME AlertInv, NEW w \in Sweepers, updateReads(w)
    PROVE  AlertInv'
<1>1. sweep[w].at = "commit" /\ UNCHANGED <<clock, record, updates, ledger>>
  BY DEF updateReads
<1>2. CASE NextAlert(w)
  BY <1>1, <1>2, RecordsStay, SweepEndsKeep
<1>3. CASE sweep' = [sweep EXCEPT ![w].at = "write"]
  <2> DEFINE t == [sweep[w] EXCEPT !.at = "write"]
  <2>1. sweep[w] \in Sweeps /\ SoundSweep(sweep[w])
    BY SweepFacts
  <2>2. /\ t \in Sweeps /\ t.at = "write" /\ t.now = sweep[w].now /\ t.due = sweep[w].due
        /\ t.view = sweep[w].view
    BY <2>1 DEF Sweeps
  <2>3. sweep' = [sweep EXCEPT ![w] = t]
    BY <1>3
  <2> HIDE DEF t
  <2>4. SoundSweep(t)
    BY <1>1, <2>1, <2>2 DEF SoundSweep
  <2> QED
    BY <1>1, <2>2, <2>3, <2>4, RecordsStay, SweepMoves
<1> QED
  BY <1>2, <1>3 DEF updateReads

(* The row of an update, its key and the ledger are written together. *)
LEMMA RowWritten ==
    ASSUME AlertInv, NEW a \in Alerts, NEW u \in UpdateRows, u.prior = a,
           u.at <= clock, record[a].state # "NONE", u.at < record[a].until,
           ~KeyTaken(KeyOf(u)), u.at >= ledger[a].updatedAt,
           updates' = updates \union {u},
           ledger' = [ledger EXCEPT ![a] = [until |-> cooldownUntilFrom(u.at, u.kind),
                                            updatedAt |-> u.at]],
           UNCHANGED <<clock, record>>
    PROVE  /\ updates' \subseteq UpdateRows /\ ledger' \in [Alerts -> [until : Nat, updatedAt : Nat]]
           /\ UpdatesSound' /\ LedgerBounded' /\ KeysUnique' /\ \A b \in Alerts : LedgerRemembers(b)'
<1>1. /\ updates \subseteq UpdateRows /\ ledger \in [Alerts -> [until : Nat, updatedAt : Nat]]
      /\ UpdatesSound /\ LedgerBounded /\ KeysUnique /\ \A b \in Alerts : LedgerRemembers(b)
  BY DEF AlertInv, AlertTypes
<1>2. u.at \in Nat /\ u.kind \in Kinds /\ \A v \in updates : v.at \in Nat /\ v.prior \in Alerts
  BY <1>1 DEF UpdateRows
<1> DEFINE row == [until |-> cooldownUntilFrom(u.at, u.kind), updatedAt |-> u.at]
<1>3. /\ row \in [until : Nat, updatedAt : Nat]
      /\ row.until = cooldownUntilFrom(u.at, u.kind) /\ row.updatedAt = u.at /\ row.until \in Nat
  BY <1>2, WindowTyped
<1>4. ledger' = [ledger EXCEPT ![a] = row]
  OBVIOUS
<1> HIDE DEF row
<1>5. /\ ledger' \in [Alerts -> [until : Nat, updatedAt : Nat]] /\ ledger'[a] = row
      /\ \A b \in Alerts : b # a => ledger'[b] = ledger[b]
  BY <1>1, <1>3, <1>4
<1>6. UpdatesSound'
  BY <1>1 DEF UpdatesSound
<1>7. LedgerBounded'
  <2>1. row.until <= cooldownUntilFrom(row.updatedAt, u.kind)
    BY <1>3
  <2> QED
    BY <1>1, <1>2, <1>5, <2>1 DEF LedgerBounded
<1>8. KeysUnique'
  BY <1>1 DEF KeysUnique, KeyTaken
<1>9. ASSUME NEW b \in Alerts
      PROVE  LedgerRemembers(b)'
  <2>1. CASE b # a
    <3>1. {v \in updates' : v.prior = b} = {v \in updates : v.prior = b}
      BY <2>1
    <3> QED
      BY <1>1, <1>5, <2>1, <3>1 DEF LedgerRemembers
  <2>2. CASE b = a
    <3>1. \A v \in updates : v.prior = a => v.at <= u.at
      <4> SUFFICES ASSUME NEW v \in updates, v.prior = a PROVE v.at <= u.at
        OBVIOUS
      <4>1. v.at <= ledger[a].updatedAt
        BY <1>1 DEF LedgerRemembers
      <4>2. ledger[a].updatedAt \in Nat
        BY <1>1
      <4> QED
        BY <1>2, <4>1, <4>2
    <3>2. \A v \in updates' : v.prior = a => v.at <= ledger'[a].updatedAt
      BY <1>2, <1>3, <1>5, <3>1
    <3>3. u \in {v \in updates' : v.prior = a}
      OBVIOUS
    <3> QED
      BY <1>3, <1>5, <2>2, <3>2, <3>3 DEF LedgerRemembers
  <2> QED
    BY <2>1, <2>2
<1> QED
  BY <1>1, <1>5, <1>6, <1>7, <1>8, <1>9

(* The row that a sweep at its writes commits, and the step that does. *)
NewRow(w) == [prior |-> Head(sweep[w].due), kind |-> CandidateKey(w).kind,
              evidence |-> CandidateKey(w).evidence, risk |-> CandidateKey(w).risk,
              at |-> sweep[w].now]

UpdateCommits(w) ==
    LET u == NewRow(w) IN
    /\ sweep[w].at = "write" /\ ~KeyTaken(CandidateKey(w))
    /\ LedgerAdvances(Head(sweep[w].due), sweep[w].now)
    /\ updates' = updates \union {u}
    /\ ledger' = [ledger EXCEPT ![u.prior] = [until |-> cooldownUntilFrom(u.at, u.kind),
                                              updatedAt |-> u.at]]
    /\ NextAlert(w) /\ UNCHANGED <<clock, record>>

LEMMA NewRowFacts ==
    ASSUME AlertInv, NEW w \in Sweepers, sweep[w].at = "write"
    PROVE  LET u == NewRow(w) IN
           /\ u \in UpdateRows /\ u.prior = Head(sweep[w].due) /\ u.prior \in Alerts
           /\ u.at = sweep[w].now /\ u.at \in Nat /\ u.at <= clock /\ u.kind \in Kinds
           /\ record[u.prior].state # "NONE" /\ u.at < record[u.prior].until
           /\ KeyOf(u) = CandidateKey(w)
<1> DEFINE a == Head(sweep[w].due)
           now == sweep[w].now
           k == CandidateKey(w)
           u == NewRow(w)
<1>1. /\ sweep[w] \in Sweeps /\ SoundSweep(sweep[w]) /\ now \in Nat /\ now <= clock
      /\ a \in Alerts /\ record[a].state # "NONE"
  BY SweepFacts
<1>2. PICK v \in Views : sweep[w].view = {v}
  BY <1>1 DEF SoundSweep
<1>3. now < record[a].until
  BY <1>1 DEF SoundSweep
<1>4. CandidateOf(w) = v
  BY <1>2 DEF CandidateOf
<1>5. sweep[w].kind \in Kinds
  BY <1>1 DEF Sweeps
<1>6. k = [prior |-> a, kind |-> sweep[w].kind, evidence |-> v.evidence, risk |-> v.risk]
  BY <1>4 DEF CandidateKey, UpdateKey
<1>7. u = [prior |-> a, kind |-> sweep[w].kind, evidence |-> v.evidence, risk |-> v.risk, at |-> now]
  BY <1>6 DEF NewRow
<1> HIDE DEF u, k, a, now
<1>8. /\ u \in UpdateRows /\ u.prior = a /\ u.at = now /\ u.kind \in Kinds /\ KeyOf(u) = k
  BY <1>1, <1>5, <1>6, <1>7 DEF UpdateRows, KeyOf
<1> QED
  BY <1>1, <1>3, <1>8 DEF u, k, a, now

(* Its transaction commits the update or leaves no trace. *)
LEMMA WriteOutcomes ==
    ASSUME AlertInv, NEW w \in Sweepers, updateWrites(w)
    PROVE  \/ UpdateCommits(w)
           \/ /\ NextAlert(w) \/ sweep' = [sweep EXCEPT ![w] = NoSweep]
              /\ UNCHANGED <<clock, record, updates, ledger>>
<1>1. sweep[w].at = "write" /\ UNCHANGED <<clock, record>>
  BY DEF updateWrites
<1>2. CASE /\ ~KeyTaken(CandidateKey(w))
           /\ LedgerAdvances(Head(sweep[w].due), sweep[w].now) /\ NextAlert(w)
           /\ updates' = updates \union {NewRow(w)}
           /\ ledger' = [ledger EXCEPT ![Head(sweep[w].due)] =
                  [until |-> cooldownUntilFrom(sweep[w].now, CandidateKey(w).kind),
                   updatedAt |-> sweep[w].now]]
  <2>1. /\ NewRow(w).prior = Head(sweep[w].due) /\ NewRow(w).at = sweep[w].now
        /\ NewRow(w).kind = CandidateKey(w).kind
    BY DEF NewRow
  <2> QED
    BY <1>1, <1>2, <2>1 DEF UpdateCommits
<1> QED
  BY <1>1, <1>2 DEF updateWrites, InsertConflicts, NewRow

LEMMA WritesKeep ==
    ASSUME AlertInv, NEW w \in Sweepers, updateWrites(w)
    PROVE  AlertInv'
<1>1. sweep[w].at = "write"
  BY DEF updateWrites
<1>2. CASE /\ NextAlert(w) \/ sweep' = [sweep EXCEPT ![w] = NoSweep]
           /\ UNCHANGED <<clock, record, updates, ledger>>
  BY <1>1, <1>2, RecordsStay, SweepEndsKeep
<1>3. CASE UpdateCommits(w)
  <2> DEFINE u == NewRow(w)
  <2>1. /\ u \in UpdateRows /\ u.prior \in Alerts /\ u.at <= clock
        /\ u.prior = Head(sweep[w].due) /\ u.at = sweep[w].now
        /\ record[u.prior].state # "NONE" /\ u.at < record[u.prior].until
        /\ KeyOf(u) = CandidateKey(w)
    BY <1>1, NewRowFacts
  <2>2. /\ ~KeyTaken(KeyOf(u)) /\ u.at >= ledger[u.prior].updatedAt
        /\ updates' = updates \union {u} /\ NextAlert(w) /\ UNCHANGED <<clock, record>>
        /\ ledger' = [ledger EXCEPT ![u.prior] = [until |-> cooldownUntilFrom(u.at, u.kind),
                                                  updatedAt |-> u.at]]
    BY <1>3, <2>1 DEF UpdateCommits, LedgerAdvances
  <2> HIDE DEF u
  <2>3. /\ updates' \subseteq UpdateRows /\ ledger' \in [Alerts -> [until : Nat, updatedAt : Nat]]
        /\ UpdatesSound' /\ LedgerBounded' /\ KeysUnique' /\ \A b \in Alerts : LedgerRemembers(b)'
    BY <2>1, <2>2, RowWritten
  <2>4. sweep' \in [Sweepers -> Sweeps] /\ SweepsSound'
    <3> DEFINE s == Rest(sweep[w])
    <3>1. s \in Sweeps /\ SoundSweep(s) /\ sweep' = [sweep EXCEPT ![w] = s]
      BY <1>1, <2>2, RestSound, NextAlertRest
    <3>2. RecordsMove
      BY <2>2, RecordsStay
    <3> HIDE DEF s
    <3> QED
      BY <2>2, <3>1, <3>2, SweepsKept
  <2>5. AlertTypes'
    BY <2>2, <2>3, <2>4 DEF AlertInv, AlertTypes
  <2> QED
    BY <2>3, <2>4, <2>5 DEF AlertInv
<1> QED
  BY <1>2, <1>3, WriteOutcomes

LEMMA RecordKeeps ==
    ASSUME AlertInv, NEW a \in Alerts, NEW c \in Recorded, recordPriorAlert(a, c)
    PROVE  AlertInv'
<1> DEFINE n == clock + Ttl
           r == [state |-> "ACTIONABLE", class |-> c, until |-> n]
<1>1. /\ record' = [record EXCEPT ![a] = r] /\ record[a].state = "NONE"
      /\ UNCHANGED <<clock, updates, ledger, sweep>>
  BY NoRecordTyped DEF recordPriorAlert
<1>2. n \in Nat /\ clock \in Nat
  BY AlertNumbers DEF AlertInv, AlertTypes
<1> HIDE DEF n
<1>3. r \in AlertRecords /\ record \in [Alerts -> AlertRecords]
  BY <1>2 DEF AlertRecords, AlertInv, AlertTypes
<1> HIDE DEF r
<1>4. record' \in [Alerts -> AlertRecords] /\ RecordsMove
  BY <1>1, <1>3 DEF RecordsMove
<1>5. AlertTypes'
  BY <1>1, <1>4 DEF AlertInv, AlertTypes
<1>6. SweepsSound'
  <2> SUFFICES ASSUME NEW x \in Sweepers PROVE SoundSweep(sweep[x])'
    BY DEF SweepsSound
  <2>1. PICK y \in Sweeps : y = sweep[x]
    BY SweepFacts
  <2>2. SoundSweep(y) /\ clock' \in Nat /\ clock' >= clock
    BY <1>1, <1>2, <2>1, SweepFacts
  <2>3. SoundSweep(y)'
    BY <1>4, <2>2, SoundStays
  <2> QED
    BY <1>1, <2>1, <2>3 DEF SoundSweep
<1>7. UpdatesSound'
  BY <1>1, <1>4 DEF AlertInv, AlertTypes, UpdateRows, UpdatesSound, RecordsMove
<1> QED
  BY <1>1, <1>5, <1>6, <1>7 DEF AlertInv, LedgerBounded, KeysUnique, LedgerRemembers

LEMMA TickKeeps ==
    ASSUME AlertInv, AlertTick
    PROVE  AlertInv'
<1>1. /\ clock \in Nat /\ clock' = clock + 1 /\ clock' \in 0..MaxClock
      /\ UNCHANGED <<record, updates, ledger, sweep>>
  BY AlertNumbers DEF AlertInv, AlertTypes, AlertTick
<1>2. AlertTypes'
  BY <1>1 DEF AlertInv, AlertTypes
<1>3. SweepsSound'
  <2> SUFFICES ASSUME NEW x \in Sweepers PROVE SoundSweep(sweep[x])'
    BY DEF SweepsSound
  <2>1. PICK y \in Sweeps : y = sweep[x]
    BY SweepFacts
  <2>2. SoundSweep(y) /\ clock' \in Nat /\ clock' >= clock
    BY <1>1, <2>1, SweepFacts
  <2>3. SoundSweep(y)'
    BY <1>1, <2>2, SoundStays, RecordsStay
  <2> QED
    BY <1>1, <2>1, <2>3 DEF SoundSweep
<1>4. UpdatesSound'
  BY <1>1 DEF AlertInv, AlertTypes, UpdateRows, UpdatesSound
<1> QED
  BY <1>1, <1>2, <1>3, <1>4 DEF AlertInv, LedgerBounded, KeysUnique, LedgerRemembers

LEMMA AlertStep ==
    ASSUME AlertInv, [AlertNext]_alertVars
    PROVE  AlertInv'
<1>1. CASE AlertTick
  BY <1>1, TickKeeps
<1>2. ASSUME NEW a \in Alerts, NEW c \in Recorded \cap DeliverableClasses, recordPriorAlert(a, c)
      PROVE  AlertInv'
  BY <1>2, RecordKeeps
<1>3. ASSUME NEW w \in Sweepers, SweepSteps(w) \/ sweepAborts(w)
      PROVE  AlertInv'
  BY <1>3, StartKeeps, BatchStepKeeps, ReassessKeeps, ReadsKeep, WritesKeep DEF SweepSteps
<1>4. CASE UNCHANGED alertVars
  BY <1>4 DEF alertVars, AlertInv, AlertTypes, SweepsSound, SoundSweep, UpdatesSound,
     LedgerBounded, KeysUnique, LedgerRemembers
<1> QED
  BY <1>1, <1>2, <1>3, <1>4 DEF AlertNext

LEMMA AlertStarts == AlertInit => AlertInv
<1> SUFFICES ASSUME AlertInit PROVE AlertInv
  OBVIOUS
<1>1. AlertTypes
  BY NoSweepTyped, NoRecordTyped, AlertNumbers DEF AlertInit, AlertTypes
<1>2. SweepsSound
  BY NoSweepTyped DEF AlertInit, SweepsSound
<1>3. LedgerBounded
  BY WindowTyped DEF AlertInit, LedgerBounded, Kinds
<1>4. updates = {}
  BY DEF AlertInit
<1> QED
  BY <1>1, <1>2, <1>3, <1>4 DEF AlertInv, UpdatesSound, KeysUnique, LedgerRemembers

LEMMA AlertInductive == AlertSpec => []AlertInv
<1>1. AlertInv /\ [AlertNext]_alertVars => AlertInv'
  BY AlertStep
<1> QED
  BY <1>1, AlertStarts, PTL DEF AlertSpec

LEMMA AlertTyped == AlertInv => AlertTypeOK
<1> SUFFICES ASSUME AlertInv PROVE AlertTypeOK
  OBVIOUS
<1>1. \A a \in Alerts : /\ record[a].state \in {"NONE", "ACTIONABLE", "EXPIRED"}
                        /\ \E k \in Kinds :
                               ledger[a].until <= cooldownUntilFrom(ledger[a].updatedAt, k)
  BY DEF AlertInv, AlertTypes, AlertRecords, LedgerBounded
<1>2. \A u \in updates : u.prior \in Alerts /\ u.kind \in Kinds /\ u.at <= clock
  BY DEF AlertInv, AlertTypes, UpdateRows, UpdatesSound
<1>3. \A w \in Sweepers : /\ sweep[w].at \in {"idle", "next", "commit", "write"}
                          /\ sweep[w].at = "idle" \/ sweep[w].now <= clock
                          /\ Len(sweep[w].due) <= SweepLimit
  BY DEF AlertInv, AlertTypes, Sweeps, SweepsSound, SoundSweep
<1> QED
  BY <1>1, <1>2, <1>3 DEF AlertTypeOK, AlertInv, AlertTypes

(* For any requests, views, alerts and number of racing sweeps: no alert on *)
(* record is of an unearned class, there is one update notification per      *)
(* idempotency key, each about an alert valid at its sweep's clock, and the  *)
(* ledger remembers the last one (commitAlertUpdate's transaction).          *)
THEOREM AlertsAreExact == AlertSpec => []AlertsExact
<1>1. AlertInv => AlertsExact
  BY NothingUnearned DEF AlertInv, AlertsExact, KeysUnique, UpdatesSound, LedgerRemembers
<1> QED
  BY <1>1, AlertInductive, PTL

(* Updates and ledger change with a committed update and with nothing else. *)
LEMMA LedgerMoves ==
    ASSUME AlertInv, [AlertNext]_alertVars
    PROVE  UNCHANGED <<updates, ledger>> \/ \E w \in Sweepers : UpdateCommits(w)
<1>1. ASSUME NEW w \in Sweepers, updateWrites(w)
      PROVE  UNCHANGED <<updates, ledger>> \/ UpdateCommits(w)
  BY <1>1, WriteOutcomes
<1> QED
  BY <1>1 DEF AlertNext, alertVars, AlertTick, recordPriorAlert, SweepSteps, sweepStart,
     sweepExpires, sweepSkips, reassess, reassessLate, updateReads, sweepAborts

LEMMA ExpiredStays ==
    ASSUME AlertInv, [AlertNext]_alertVars, NEW b \in Alerts, record[b].state = "EXPIRED"
    PROVE  record'[b].state = "EXPIRED"
<1>1. record \in [Alerts -> AlertRecords]
  BY DEF AlertInv, AlertTypes
<1>2. \/ UNCHANGED record
      \/ \E a \in Alerts, c \in Recorded : recordPriorAlert(a, c)
      \/ \E a : transitionAlertActionability(a)
  BY DEF AlertNext, alertVars, AlertTick, SweepSteps, sweepStart, sweepExpires, sweepSkips,
     reassess, reassessLate, updateReads, updateWrites, sweepAborts
<1>3. ASSUME NEW a \in Alerts, NEW c \in Recorded, recordPriorAlert(a, c)
      PROVE  record'[b] = record[b]
  BY <1>1, <1>3, NoRecordTyped DEF recordPriorAlert
<1>4. ASSUME NEW a, transitionAlertActionability(a)
      PROVE  record'[b].state = "EXPIRED"
  BY <1>1, <1>4 DEF transitionAlertActionability, AlertRecords
<1> QED
  BY <1>2, <1>3, <1>4

(* What a committed update makes of the ledger. *)
LEMMA LedgerFollows ==
    ASSUME AlertInv, NEW w \in Sweepers, UpdateCommits(w)
    PROVE  LET u == NewRow(w) IN
           /\ ledger'[u.prior] = [until |-> cooldownUntilFrom(u.at, u.kind), updatedAt |-> u.at]
           /\ \A b \in Alerts : b # u.prior => ledger'[b] = ledger[b]
           /\ updates' = updates \union {u} /\ u \notin updates /\ u.prior \in Alerts
           /\ u.at >= ledger[u.prior].updatedAt
<1> DEFINE u == NewRow(w)
<1>1. /\ u.prior \in Alerts /\ u.prior = Head(sweep[w].due) /\ u.at = sweep[w].now
      /\ KeyOf(u) = CandidateKey(w)
  BY NewRowFacts DEF UpdateCommits
<1>2. /\ ~KeyTaken(KeyOf(u)) /\ updates' = updates \union {u}
      /\ ledger' = [ledger EXCEPT ![u.prior] = [until |-> cooldownUntilFrom(u.at, u.kind),
                                                updatedAt |-> u.at]]
      /\ u.at >= ledger[u.prior].updatedAt
  BY <1>1 DEF UpdateCommits, LedgerAdvances
<1> HIDE DEF u
<1>3. DOMAIN ledger = Alerts
  BY DEF AlertInv, AlertTypes
<1>4. u \notin updates
  BY <1>2 DEF KeyTaken
<1>5. /\ ledger'[u.prior] = [until |-> cooldownUntilFrom(u.at, u.kind), updatedAt |-> u.at]
      /\ \A b \in Alerts : b # u.prior => ledger'[b] = ledger[b]
  BY <1>1, <1>2, <1>3
<1> QED
  BY <1>1, <1>2, <1>4, <1>5 DEF u

(* No sweep, however stale its clock, writes over the ledger row of a later  *)
(* one; a row changes only with an update and then names it; and no step     *)
(* makes an expired alert actionable again (the guarded upsert of the        *)
(* ledger).                                                                  *)
THEOREM AlertsOnlyMoveForward == AlertSpec => AlertsMoveForward
<1> DEFINE P == /\ updates \subseteq updates'
                /\ \A u \in updates' \ updates :
                       ledger'[u.prior] = [until |-> cooldownUntilFrom(u.at, u.kind),
                                           updatedAt |-> u.at]
                /\ \A a \in Alerts :
                       /\ ledger'[a].updatedAt >= ledger[a].updatedAt
                       /\ ledger'[a] # ledger[a] => \E u \in updates' \ updates : u.prior = a
                       /\ record[a].state = "EXPIRED" => record'[a].state = "EXPIRED"
<1>1. AlertInv /\ [AlertNext]_alertVars => P
  <2> SUFFICES ASSUME AlertInv, [AlertNext]_alertVars PROVE P
    OBVIOUS
  <2>1. \A a \in Alerts : ledger[a].updatedAt \in Nat
    BY DEF AlertInv, AlertTypes
  <2>2. \A a \in Alerts : record[a].state = "EXPIRED" => record'[a].state = "EXPIRED"
    BY ExpiredStays
  <2>3. CASE UNCHANGED <<updates, ledger>>
    BY <2>1, <2>2, <2>3
  <2>4. ASSUME NEW w \in Sweepers, UpdateCommits(w) PROVE P
    <3> DEFINE u == NewRow(w)
               row == [until |-> cooldownUntilFrom(u.at, u.kind), updatedAt |-> u.at]
    <3>1. /\ ledger'[u.prior] = row /\ \A b \in Alerts : b # u.prior => ledger'[b] = ledger[b]
          /\ updates' = updates \union {u} /\ u \notin updates
          /\ u.at >= ledger[u.prior].updatedAt
      BY <2>4, LedgerFollows
    <3>2. row.updatedAt = u.at
      OBVIOUS
    <3>3. \A v \in updates' \ updates : v = u
      BY <3>1
    <3>4. \A a \in Alerts : ledger'[a].updatedAt >= ledger[a].updatedAt
      <4> SUFFICES ASSUME NEW a \in Alerts PROVE ledger'[a].updatedAt >= ledger[a].updatedAt
        OBVIOUS
      <4> HIDE DEF u, row
      <4>1. CASE a = u.prior
        BY <3>1, <3>2, <4>1
      <4>2. CASE a # u.prior
        BY <2>1, <3>1, <4>2
      <4> QED
        BY <4>1, <4>2
    <3>5. \A v \in updates' \ updates :
              ledger'[v.prior] = [until |-> cooldownUntilFrom(v.at, v.kind), updatedAt |-> v.at]
      BY <3>1, <3>3
    <3> HIDE DEF u
    <3>6. \A a \in Alerts : ledger'[a] # ledger[a] => \E v \in updates' \ updates : v.prior = a
      BY <3>1
    <3> QED
      BY <2>2, <3>1, <3>4, <3>5, <3>6
  <2> QED
    BY <2>3, <2>4, LedgerMoves
<1>2. AlertInv /\ [AlertNext]_alertVars => [P]_alertVars
  BY <1>1
<1> QED
  BY <1>2, AlertInductive, PTL DEF AlertSpec, AlertsMoveForward

-----------------------------------------------------------------------------
(* The composition: each part runs in it as on its own. *)

LEMMA ReleaseComposes == ReleaseSpec => AlertSpec /\ LandingSpec
<1>1. ReleaseInit => AlertInit /\ LandingInit
  BY DEF ReleaseInit
<1>2. [ReleaseNext]_<<alertVars, landingVars, focus>> => [AlertNext]_alertVars /\ [LandingNext]_landingVars
  BY DEF ReleaseNext, SerialNext
<1> QED
  BY <1>1, <1>2, PTL DEF ReleaseSpec, AlertSpec, LandingSpec

-----------------------------------------------------------------------------
(* Where sweeps do not overlap *)

OneSweep == \A v, w \in Sweepers : v # w => sweep[v].at = "idle" \/ sweep[w].at = "idle"

(* The window of every update is over before the one of the ledger is, and   *)
(* a sweep that is about to write has found that one over.                   *)
WindowsWithin == \A u \in updates : cooldownUntilFrom(u.at, u.kind) <= ledger[u.prior].until
WritesOpen == \A w \in Sweepers :
    sweep[w].at = "write" => ledger[Head(sweep[w].due)].until <= sweep[w].now

CooldownInv == OneSweep /\ WindowsWithin /\ WritesOpen /\ CooldownCollapses

(* A sweep comes to its writes by its reads alone. *)
LEMMA WriteEntered ==
    ASSUME AlertInv, [AlertNext]_alertVars, NEW w \in Sweepers, sweep'[w].at = "write"
    PROVE  \/ sweep'[w] = sweep[w]
           \/ /\ UNCHANGED ledger /\ ~InCooldown(Head(sweep[w].due), sweep[w].now)
              /\ sweep'[w].due = sweep[w].due /\ sweep'[w].now = sweep[w].now
<1>1. sweep \in [Sweepers -> Sweeps]
  BY DEF AlertInv, AlertTypes
<1>2. ASSUME NEW x \in Sweepers, NextAlert(x) PROVE sweep'[w] = sweep[w]
  <2>1. sweep' = [sweep EXCEPT ![x] = Rest(sweep[x])]
    BY <1>2, NextAlertRest
  <2>2. Rest(sweep[x]).at # "write"
    BY NoSweepTyped DEF Rest, NoSweep
  <2> QED
    BY <1>1, <2>1, <2>2
<1>3. ASSUME NEW x \in Sweepers, sweep' = [sweep EXCEPT ![x] = NoSweep] PROVE sweep'[w] = sweep[w]
  BY <1>1, <1>3, NoSweepTyped
<1>4. ASSUME NEW x \in Sweepers, sweepStart(x) PROVE sweep'[w] = sweep[w]
  <2>1. PICK due : sweep' = [sweep EXCEPT ![x] = [NoSweep EXCEPT !.at = "next", !.now = clock,
                                                                  !.due = due]]
    BY <1>4 DEF sweepStart
  <2>2. [NoSweep EXCEPT !.at = "next", !.now = clock, !.due = due].at # "write"
    BY DEF NoSweep
  <2> QED
    BY <1>1, <2>1, <2>2
<1>5. ASSUME NEW x \in Sweepers, NEW kind \in Kinds, NEW v \in Views, reassess(x, kind, v)
      PROVE  sweep'[w] = sweep[w]
  <2> DEFINE t == [sweep[x] EXCEPT !.at = "commit", !.kind = kind, !.view = {v}]
  <2>1. sweep' = [sweep EXCEPT ![x] = t]
    BY <1>5 DEF reassess
  <2>2. t.at # "write"
    BY <1>1, SweepWrite
  <2> QED
    BY <1>1, <2>1, <2>2
<1>6. ASSUME NEW x \in Sweepers, updateReads(x), ~NextAlert(x)
      PROVE  \/ sweep'[w] = sweep[w]
             \/ /\ UNCHANGED ledger /\ ~InCooldown(Head(sweep[w].due), sweep[w].now)
                /\ sweep'[w].due = sweep[w].due /\ sweep'[w].now = sweep[w].now
  <2>1. /\ sweep' = [sweep EXCEPT ![x].at = "write"] /\ UNCHANGED ledger
        /\ ~InCooldown(Head(sweep[x].due), sweep[x].now)
    BY <1>6 DEF updateReads
  <2>2. CASE x = w
    BY <1>1, <2>1, <2>2 DEF Sweeps
  <2>3. CASE x # w
    BY <1>1, <2>1, <2>3
  <2> QED
    BY <2>2, <2>3
<1>7. CASE UNCHANGED sweep
  BY <1>7
<1> QED
  BY <1>2, <1>3, <1>4, <1>5, <1>6, <1>7 DEF AlertNext, alertVars, AlertTick, recordPriorAlert,
     SweepSteps, sweepExpires, sweepSkips, reassessLate, updateWrites, sweepAborts

LEMMA CooldownStep ==
    ASSUME AlertInv, CooldownInv, [SerialNext]_alertVars
    PROVE  CooldownInv'
<1>1. [AlertNext]_alertVars /\ OneSweep'
  BY DEF SerialNext, CooldownInv, OneSweep, alertVars
<1>2. /\ \A b \in Alerts : ledger[b].until \in Nat
      /\ \A v \in updates : v.at \in Nat /\ v.kind \in Kinds /\ v.prior \in Alerts
  BY DEF AlertInv, AlertTypes, UpdateRows
<1>3. \A v \in updates : cooldownUntilFrom(v.at, v.kind) \in Nat
  BY <1>2, WindowTyped
<1>4. ASSUME NEW w \in Sweepers, sweep'[w].at = "write", sweep'[w] # sweep[w]
      PROVE  ledger'[Head(sweep'[w].due)].until <= sweep'[w].now
  <2>1. /\ UNCHANGED ledger /\ ~InCooldown(Head(sweep[w].due), sweep[w].now)
        /\ sweep'[w].due = sweep[w].due /\ sweep'[w].now = sweep[w].now
    BY <1>1, <1>4, WriteEntered
  <2>2. AlertInv'
    BY <1>1, AlertStep
  <2>3. Head(sweep'[w].due) \in Alerts /\ sweep'[w].now \in Nat
    <3>1. /\ sweep'[w] \in Sweeps /\ sweep'[w].due # <<>>
      BY <1>4, <2>2 DEF AlertInv, AlertTypes, SweepsSound, SoundSweep
    <3> QED
      BY <3>1, HeadTailProperties DEF Sweeps
  <2> QED
    BY <1>2, <2>1, <2>3 DEF InCooldown
<1>5. CASE UNCHANGED <<updates, ledger>>
  BY <1>1, <1>4, <1>5 DEF CooldownInv, WindowsWithin, WritesOpen, CooldownCollapses
<1>6. ASSUME NEW x \in Sweepers, UpdateCommits(x) PROVE CooldownInv'
  <2> DEFINE u == NewRow(x)
             row == [until |-> cooldownUntilFrom(u.at, u.kind), updatedAt |-> u.at]
  <2>1. /\ ledger'[u.prior] = row /\ \A b \in Alerts : b # u.prior => ledger'[b] = ledger[b]
        /\ updates' = updates \union {u}
    BY <1>6, LedgerFollows
  <2>2. /\ sweep[x].at = "write" /\ u.prior = Head(sweep[x].due) /\ u.at = sweep[x].now
        /\ u.at \in Nat /\ u.kind \in Kinds /\ u.prior \in Alerts
    BY <1>6, NewRowFacts DEF UpdateCommits
  <2>3. row.until = cooldownUntilFrom(u.at, u.kind)
    OBVIOUS
  <2> HIDE DEF u, row
  <2>4. row.until \in Nat /\ row.until >= u.at /\ ledger[u.prior].until <= u.at
    BY <2>2, <2>3, WindowTyped DEF CooldownInv, WritesOpen
  <2>5. \A v \in updates : v.prior = u.prior => cooldownUntilFrom(v.at, v.kind) <= u.at
    BY <1>2, <1>3, <2>2, <2>4 DEF CooldownInv, WindowsWithin
  <2>6. WindowsWithin'
    <3> SUFFICES ASSUME NEW v \in updates'
                 PROVE  cooldownUntilFrom(v.at, v.kind) <= ledger'[v.prior].until
      BY DEF WindowsWithin
    <3>1. CASE v = u
      BY <2>1, <2>3, <2>4, <3>1
    <3>2. CASE v \in updates /\ v.prior = u.prior
      <4>1. cooldownUntilFrom(v.at, v.kind) <= u.at /\ cooldownUntilFrom(v.at, v.kind) \in Nat
        BY <1>3, <2>5, <3>2
      <4>2. cooldownUntilFrom(v.at, v.kind) <= row.until
        BY <2>2, <2>4, <4>1
      <4> QED
        BY <2>1, <3>2, <4>2
    <3>3. CASE v \in updates /\ v.prior # u.prior
      BY <1>2, <2>1, <3>3 DEF CooldownInv, WindowsWithin
    <3> QED
      BY <2>1, <3>1, <3>2, <3>3
  <2>7. CooldownCollapses'
    <3> SUFFICES ASSUME NEW v \in updates', NEW r \in updates', v.prior = r.prior, v # r
                 PROVE  \/ v.at >= cooldownUntilFrom(r.at, r.kind)
                        \/ r.at >= cooldownUntilFrom(v.at, v.kind)
      BY DEF CooldownCollapses
    <3>1. CASE v \in updates /\ r \in updates
      BY <3>1 DEF CooldownInv, CooldownCollapses
    <3>2. CASE v = u /\ r \in updates
      BY <1>3, <2>2, <2>5, <3>2
    <3>3. CASE r = u /\ v \in updates
      BY <1>3, <2>2, <2>5, <3>3
    <3> QED
      BY <2>1, <3>1, <3>2, <3>3
  <2>8. WritesOpen'
    <3> SUFFICES ASSUME NEW w \in Sweepers, sweep'[w].at = "write"
                 PROVE  ledger'[Head(sweep'[w].due)].until <= sweep'[w].now
      BY DEF WritesOpen
    <3>1. sweep' = [sweep EXCEPT ![x] = Rest(sweep[x])] /\ DOMAIN sweep = Sweepers
      BY <1>6, NextAlertRest DEF UpdateCommits, AlertInv, AlertTypes
    <3>2. Rest(sweep[x]).at # "write"
      BY DEF Rest, NoSweep
    <3>3. CASE w = x
      BY <3>1, <3>2, <3>3
    <3>4. CASE w # x
      <4>1. sweep[w].at = "idle" /\ sweep'[w] = sweep[w]
        BY <2>2, <3>1, <3>4 DEF CooldownInv, OneSweep
      <4> QED
        BY <4>1
    <3> QED
      BY <3>3, <3>4
  <2> QED
    BY <1>1, <2>6, <2>7, <2>8 DEF CooldownInv
<1> QED
  BY <1>1, <1>5, <1>6, LedgerMoves

(* Where sweeps do not overlap, two updates to one prior inside one cooldown *)
(* window collapse to one, for any cooldowns of the classes and whatever     *)
(* sweep fails (commitAlertUpdate's reads, the upsert of the ledger).        *)
THEOREM SerialSweepsCoolDown == ReleaseSpec => []SerialCooldown
<1> DEFINE SerialInv == focus = "serial" => CooldownInv
<1>1. ReleaseInit => SerialInv
  <2> SUFFICES ASSUME AlertInit PROVE CooldownInv
    BY DEF ReleaseInit
  <2>1. updates = {} /\ \A w \in Sweepers : sweep[w].at = "idle"
    BY NoSweepTyped DEF AlertInit
  <2> QED
    BY <2>1 DEF CooldownInv, OneSweep, WindowsWithin, WritesOpen, CooldownCollapses
<1>2. AlertInv /\ SerialInv /\ [ReleaseNext]_<<alertVars, landingVars, focus>> => SerialInv'
  <2> SUFFICES ASSUME AlertInv, SerialInv, [ReleaseNext]_<<alertVars, landingVars, focus>>,
                      focus' = "serial"
               PROVE  CooldownInv'
    OBVIOUS
  <2>1. focus = "serial" /\ [SerialNext]_alertVars
    BY DEF ReleaseNext
  <2> QED
    BY <2>1, CooldownStep
<1>3. SerialInv => SerialCooldown
  BY DEF SerialCooldown, CooldownInv
<1> QED
  BY <1>1, <1>2, <1>3, ReleaseComposes, AlertInductive, PTL DEF ReleaseSpec

(* Alerts and landing lane keep their types together: counters within their  *)
(* limits, sweeps within their batch, receipts and branches well formed.     *)
THEOREM ReleaseTyped == ReleaseSpec => []ReleaseTypeOK
<1>1. AlertInv /\ LandingInv => ReleaseTypeOK
  BY AlertTyped, LandingTyped DEF ReleaseTypeOK
<1> QED
  BY <1>1, ReleaseComposes, AlertInductive, LandingInductive, PTL

=============================================================================
