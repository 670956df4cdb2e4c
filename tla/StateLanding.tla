------------------------------ MODULE StateLanding ------------------------------
(***************************************************************************)
(* The protected state-landing lane of the delivery automation             *)
(* (scripts/automation/state-landing.mjs, driven by foresift-autopilot.mjs).*)
(* The supervisor never pushes to main.  A change of a package's status is *)
(* a durable receipt that one process carries, a step per tick, through a  *)
(* branch in a worktree, a push, a pull request, an exact-head CI          *)
(* authorization, a guarded squash merge and a check of main's content.    *)
(*                                                                         *)
(* The milestone file is a function from packages to statuses; main is the *)
(* sequence of its versions; a commit of a state branch is a head.  The    *)
(* supervisor may die between an effect on git or GitHub and the write of  *)
(* the receipt; CI, other merges, an operator and other pushers act        *)
(* between any two of its reads.                                           *)
(***************************************************************************)
EXTENDS Naturals, Sequences, FiniteSets

CONSTANTS Packages,
          PackageStatus,  \* the statuses the lane moves packages between
          MaxTransitions, \* bound: receipts
          MaxMain,        \* bound: commits of main
          MaxForeign,     \* bound: pushes and merges by others
          MaxFaults       \* bound: crashes, failed calls and CI re-runs (a failed
                          \* cleanup ends its receipt and is not counted)

ASSUME LandingBounds ==
  /\ Packages # {}
  /\ "PENDING" \in PackageStatus /\ PackageStatus \subseteq {"PENDING", "RUNNING", "PROVEN"}
  /\ {MaxTransitions, MaxMain} \subseteq Nat \ {0}
  /\ {MaxForeign, MaxFaults} \subseteq Nat

VARIABLES mainLog,  \* origin/main: the milestone's content at each commit
          local,    \* the commit of main the supervisor's checkout is at
          queued,   \* a snapshot waiting on commitQueue (in memory)
          receipts, \* receipt files, in order of creation
          branches, \* per receipt: worktree branch, pushed branch, pull request
          green,    \* heads whose required check is a completed success
          red,      \* heads whose required check has failed
          busy,     \* the receipt being advanced, between two of its calls
          boot,     \* receipts startup recovery has not looked at yet
          foreign, faults

landingVars == <<mainLog, local, queued, receipts, branches, green, red, busy, boot, foreign, faults>>

Content == [Packages -> PackageStatus]

AllowedTransitions == {<<"PENDING", "RUNNING">>, <<"RUNNING", "PROVEN">>, <<"RUNNING", "PENDING">>,
                       <<"PROVEN", "RUNNING">>, <<"PENDING", "PROVEN">>}

TERMINAL_STATUSES == {"MERGED", "FAILED"}
RECEIPT_STATUSES == TERMINAL_STATUSES \cup
  {"REQUESTED", "BRANCH_READY", "BRANCH_PUSHED", "PR_READY", "WAITING_CI",
   "CI_AUTHORIZED", "MERGE_READY", "MERGE_REQUESTED"}

MaxBaseUpdates == 3
MaxVerifyRetries == 5

(* A commit of receipt of's branch: the newest commit of main it contains, *)
(* its milestone file, and how many commits by others it carries.          *)
Heads == [of : 0..MaxTransitions, base : 0..MaxMain, files : Content, rev : 0..MaxForeign]
NoHead == [of |-> 0, base |-> 0, files |-> [p \in Packages |-> "PENDING"], rev |-> 0]

Idle == [of |-> 0, at |-> "idle", pin |-> NoHead]
At(i, step, pin) == [of |-> i, at |-> step, pin |-> pin]

Tip == Len(mainLog)
Ids == 1..Len(receipts)
Open(i) == receipts[i].status \notin TERMINAL_STATUSES
Bump(n) == IF n > MaxVerifyRetries THEN n ELSE n + 1

-----------------------------------------------------------------------------
(* Requests *)

LandingInit ==
  /\ mainLog = <<[p \in Packages |-> "PENDING"]>>
  /\ local = 1 /\ queued = <<>>
  /\ receipts = <<>> /\ branches = <<>>
  /\ green = {} /\ red = {}
  /\ busy = Idle /\ boot = {} /\ foreign = 0 /\ faults = 0

(* git fetch and fast-forward of the supervisor's own checkout. *)
refreshMain ==
  /\ local # Tip
  /\ local' = Tip
  /\ UNCHANGED <<mainLog, queued, receipts, branches, green, red, busy, boot, foreign, faults>>

(* The caller changes one package in the milestone it reads from the       *)
(* checkout, and queues a snapshot of the whole file.                      *)
setPackageStatus(p, s) ==
  LET from == mainLog[local][p] IN
  /\ queued = <<>> /\ boot = {}
  /\ <<from, s>> \in AllowedTransitions
  /\ queued' = <<[pkg |-> p, from |-> from, to |-> s, desired |-> [mainLog[local] EXCEPT ![p] = s]]>>
  /\ UNCHANGED <<mainLog, local, receipts, branches, green, red, busy, boot, foreign, faults>>

SameTransition(r, q) == r.pkg = q.pkg /\ r.from = q.from /\ r.to = q.to /\ r.desired = q.desired

(* Mutant: the pending receipts are not searched for the logical key. *)
AnswersById(r, q) == SameTransition(r, q) /\ r.src = Tip

(* The receipt a request is answered with: the same transition id (same    *)
(* commit of main) in any status, else a pending one with the logical key. *)
Answers(r, q) ==
  /\ SameTransition(r, q)
  /\ r.src = Tip \/ r.status \notin TERMINAL_STATUSES

NewReceipt(q) ==
  [status |-> "REQUESTED", pkg |-> q.pkg, from |-> q.from, to |-> q.to, desired |-> q.desired,
   src |-> Tip, pr |-> FALSE, auth |-> NoHead, updates |-> 0, retries |-> 0, merged |-> 0,
   leftover |-> FALSE]  \* closed by reuseBranch

AlreadyLanded(r, q) == SameTransition(r, q) /\ r.src = Tip /\ r.status = "MERGED"

(* The queued snapshot becomes a receipt on the commit of main fetched now; *)
(* when that transition has landed already, the checkout follows main.      *)
requestTransition ==
  /\ queued # <<>>
  /\ IF \E i \in Ids : Answers(receipts[i], Head(queued))
     THEN UNCHANGED <<receipts, branches>>
     ELSE /\ Len(receipts) < MaxTransitions
          /\ receipts' = Append(receipts, NewReceipt(Head(queued)))
          /\ branches' = Append(branches, [worktree |-> NoHead, remote |-> NoHead,
                                           state |-> "NONE", head |-> NoHead, at |-> 0])
  /\ queued' = <<>>
  /\ local' = IF \E i \in Ids : AlreadyLanded(receipts[i], Head(queued)) THEN Tip ELSE local
  /\ UNCHANGED <<mainLog, green, red, busy, boot, foreign, faults>>

-----------------------------------------------------------------------------
(* One step of a receipt *)

(* Receipt i is the supervisor's turn, in one of the statuses S. *)
Turn(i, S) == busy = Idle /\ i \notin boot /\ receipts[i].status \in S

(* Receipt i, at its step, writes its next status and is done for the tick. *)
writeReceipt(i, r) == receipts' = [receipts EXCEPT ![i] = r] /\ busy' = Idle

WithStatus(i, s) == [receipts[i] EXCEPT !.status = s]
revokeAuthorization(i) == [receipts[i] EXCEPT !.status = "WAITING_CI", !.auth = NoHead]
Retryable(i) == [receipts[i] EXCEPT !.retries = Bump(@)]

(* REQUESTED: what an earlier attempt left is removed, a fresh worktree is *)
(* put on the source commit and the desired file is written over it and    *)
(* committed; nothing to commit means main already has it.                 *)
prepareBranch(i) ==
  LET r == receipts[i] IN
  /\ Turn(i, {"REQUESTED"})
  /\ IF mainLog[r.src] = r.desired
     THEN /\ writeReceipt(i, [r EXCEPT !.status = "MERGED", !.merged = r.src])
          /\ UNCHANGED branches
     ELSE /\ branches' = [branches EXCEPT ![i].worktree =
               [of |-> i, base |-> r.src, files |-> r.desired, rev |-> 0]]
          /\ busy' = At(i, "BRANCH_READY", NoHead)
          /\ UNCHANGED receipts
  /\ UNCHANGED <<mainLog, local, queued, green, red, boot, foreign, faults>>

(* REQUESTED again after a crash, and the cleanup could not remove the     *)
(* branch (its errors are ignored): the worktree is added on the branch    *)
(* that is there, whose commit holds the desired file already, so there is *)
(* nothing to commit and the receipt says MERGED at the source commit.     *)
reuseBranch(i) ==
  LET r == receipts[i] IN
  /\ Turn(i, {"REQUESTED"}) /\ branches[i].worktree # NoHead
  /\ writeReceipt(i, [r EXCEPT !.status = "MERGED", !.merged = r.src, !.leftover = TRUE])
  /\ UNCHANGED <<mainLog, local, queued, branches, green, red, boot, foreign, faults>>

(* BRANCH_READY and BRANCH_PUSHED: the push, or the discovery or creation  *)
(* of the pull request, takes effect; the receipt is written after it.     *)
pushBranch(i) ==
  /\ Turn(i, {"BRANCH_READY"})
  /\ branches' = [branches EXCEPT ![i].remote = branches[i].worktree]
  /\ busy' = At(i, "BRANCH_PUSHED", NoHead)
  /\ UNCHANGED <<mainLog, local, queued, receipts, green, red, boot, foreign, faults>>

openPullRequest(i) ==
  /\ Turn(i, {"BRANCH_PUSHED"})
  /\ branches' = [branches EXCEPT ![i].state = "OPEN", ![i].head = branches[i].remote]
  /\ busy' = At(i, "PR_READY", NoHead)
  /\ UNCHANGED <<mainLog, local, queued, receipts, green, red, boot, foreign, faults>>

writeAfterEffect(i) ==
  /\ busy.of = i /\ busy.at \in {"BRANCH_READY", "BRANCH_PUSHED", "PR_READY", "MERGE_REQUESTED"}
  /\ writeReceipt(i, [WithStatus(i, busy.at) EXCEPT !.pr = @ \/ busy.at = "PR_READY"])
  /\ UNCHANGED <<mainLog, local, queued, branches, green, red, boot, foreign, faults>>

(* A push or a creation of the pull request that fails: tried again later. *)
callFails(i) ==
  /\ Turn(i, {"BRANCH_READY", "BRANCH_PUSHED"})
  /\ faults < MaxFaults /\ faults' = faults + 1
  /\ writeReceipt(i, Retryable(i))
  /\ UNCHANGED <<mainLog, local, queued, branches, green, red, boot, foreign>>

(* PR_READY / WAITING_CI: the exact head is the pushed branch's, or the    *)
(* local branch's once the pushed one is gone.                             *)
pinHead(i) ==
  LET b == branches[i] IN
  /\ Turn(i, {"PR_READY", "WAITING_CI"})
  /\ busy' = At(i, "pinned", IF b.remote # NoHead THEN b.remote ELSE b.worktree)
  /\ UNCHANGED <<mainLog, local, queued, receipts, branches, green, red, boot, foreign, faults>>

authorizeHead(i) ==
  /\ busy.of = i /\ busy.at = "pinned" /\ busy.pin \in green
  /\ writeReceipt(i, [WithStatus(i, "CI_AUTHORIZED") EXCEPT !.auth = busy.pin])
  /\ UNCHANGED <<mainLog, local, queued, branches, green, red, boot, foreign, faults>>

ciRefused(i) ==
  /\ busy.of = i /\ busy.at = "pinned" /\ busy.pin \in red
  /\ writeReceipt(i, WithStatus(i, "FAILED"))
  /\ UNCHANGED <<mainLog, local, queued, branches, green, red, boot, foreign, faults>>

(* git merge of two versions of the file over their common ancestor. *)
Conflicts(base, ours, theirs) ==
  \E p \in Packages : Cardinality({base[p], ours[p], theirs[p]}) = 3
MergedFile(base, ours, theirs) ==
  [p \in Packages |-> IF ours[p] # base[p] THEN ours[p] ELSE theirs[p]]

(* Mutant: the budget of base updates is not looked at. *)
MayAlwaysUpdateBase(r) == Tip # r.src

MayUpdateBase(r) == Tip # r.src /\ r.updates < MaxBaseUpdates

(* No verdict yet, main past the source commit and no conflict with it. *)
Behind(i) ==
  LET b == branches[i] IN
  /\ MayUpdateBase(receipts[i])
  /\ ~Conflicts(mainLog[b.worktree.base], b.worktree.files, mainLog[Tip])

Rebased(i) ==
  LET w == branches[i].worktree IN
  [w EXCEPT !.base = Tip, !.files = MergedFile(mainLog[w.base], w.files, mainLog[Tip])]

(* The pinned head has neither verdict. *)
NoVerdict(i) == busy.of = i /\ busy.at = "pinned" /\ busy.pin \notin green \cup red

(* Main is merged into the worktree's branch, at most three times, and     *)
(* pushed, unless another push came after the head was pinned              *)
(* (--force-with-lease).  The update is counted on the receipt only after  *)
(* the push: a crash in between leaves it uncounted.                       *)
updateBase(i) ==
  LET pushed == branches[i].remote = busy.pin IN
  /\ NoVerdict(i) /\ Behind(i)
  /\ branches' = [branches EXCEPT
       ![i].worktree = Rebased(i),
       ![i].remote = IF pushed THEN Rebased(i) ELSE @,
       ![i].head = IF pushed /\ branches[i].state = "OPEN" THEN Rebased(i) ELSE @]
  /\ busy' = At(i, IF pushed THEN "rebased" ELSE "WAITING_CI", busy.pin)
  /\ UNCHANGED <<mainLog, local, queued, receipts, green, red, boot, foreign, faults>>

waitForCi(i) ==
  /\ \/ NoVerdict(i) /\ ~Behind(i)
     \/ busy.of = i /\ busy.at \in {"rebased", "WAITING_CI"}
  /\ writeReceipt(i, [WithStatus(i, "WAITING_CI") EXCEPT
       !.updates = IF busy.at = "rebased" THEN @ + 1 ELSE @])
  /\ UNCHANGED <<mainLog, local, queued, branches, green, red, boot, foreign, faults>>

(* CI_AUTHORIZED: pull request, pushed branch (when there is one) and      *)
(* verdict are looked at again.                                            *)
StillAuthorized(i) ==
  LET a == receipts[i].auth IN
  /\ branches[i].head = a
  /\ branches[i].remote \in {a, NoHead}
  /\ a \in green

reverifyHead(i) ==
  /\ Turn(i, {"CI_AUTHORIZED"})
  /\ writeReceipt(i, IF StillAuthorized(i) THEN WithStatus(i, "MERGE_READY") ELSE revokeAuthorization(i))
  /\ UNCHANGED <<mainLog, local, queued, branches, green, red, boot, foreign, faults>>

(* verifyMergeAuthoritatively: merged at the authorized head, still green, *)
(* and the file on main is the desired one.                                *)
Verified(i) ==
  /\ branches[i].state = "MERGED"
  /\ branches[i].head = receipts[i].auth /\ receipts[i].auth \in green
  /\ mainLog[Tip] = receipts[i].desired

Landed(i) == [WithStatus(i, "MERGED") EXCEPT !.merged = branches[i].at]

(* MERGE_READY with the pull request found merged; the checkout follows a  *)
(* landing that is verified.                                               *)
reconcileMerged(i) ==
  LET r == receipts[i] IN
  /\ Turn(i, {"MERGE_READY"}) /\ branches[i].state = "MERGED"
  /\ writeReceipt(i,
       CASE branches[i].head # r.auth -> WithStatus(i, "FAILED")
         [] branches[i].head = r.auth /\ Verified(i) -> Landed(i)
         [] OTHER -> [Retryable(i) EXCEPT
                        !.status = IF r.retries + 1 > MaxVerifyRetries THEN "FAILED" ELSE @])
  /\ local' = IF Verified(i) THEN Tip ELSE local
  /\ UNCHANGED <<mainLog, queued, branches, green, red, boot, foreign, faults>>

(* MERGE_READY with the pull request open: last check, then the command. *)
preMergeCheck(i) ==
  LET a == receipts[i].auth
      b == branches[i] IN
  /\ Turn(i, {"MERGE_READY"}) /\ b.state # "MERGED"
  /\ IF b.state = "OPEN" /\ b.head = a /\ b.remote = a /\ a \in green
     THEN busy' = At(i, "merge", a) /\ UNCHANGED receipts
     ELSE writeReceipt(i, revokeAuthorization(i))
  /\ UNCHANGED <<mainLog, local, queued, branches, green, red, boot, foreign, faults>>

(* MERGE_READY, and the pull request cannot be viewed or the branch cannot *)
(* be fetched: the same refusal, also of a pull request that is merged.    *)
checkFails(i) ==
  /\ Turn(i, {"MERGE_READY"})
  /\ faults < MaxFaults /\ faults' = faults + 1
  /\ writeReceipt(i, revokeAuthorization(i))
  /\ UNCHANGED <<mainLog, local, queued, branches, green, red, boot, foreign>>

(* What the protected branch admits (strict, required check). *)
GitHubAdmits(b) ==
  /\ b.state = "OPEN" /\ b.head \in green /\ b.head.base = Tip
  /\ Tip < MaxMain

(* The squash merge of pull request b, which removes the branch. *)
Squash(i) ==
  /\ mainLog' = Append(mainLog, branches[i].head.files)
  /\ branches' = [branches EXCEPT ![i].state = "MERGED", ![i].at = Tip + 1, ![i].remote = NoHead]

(* Mutant: gh pr merge without --match-head-commit. *)
MatchesAnyHead(i) == TRUE

MatchesHead(i) == branches[i].head = busy.pin

mergeCommand(i) ==
  /\ busy.of = i /\ busy.at = "merge"
  /\ IF GitHubAdmits(branches[i]) /\ MatchesHead(i)
     THEN Squash(i) /\ busy' = At(i, "MERGE_REQUESTED", busy.pin) /\ UNCHANGED receipts
     ELSE writeReceipt(i, Retryable(i)) /\ UNCHANGED <<mainLog, branches>>
  /\ UNCHANGED <<local, queued, green, red, boot, foreign, faults>>

(* MERGE_REQUESTED: verified, or left as it is; the checkout follows. *)
verifyLanding(i) ==
  /\ Turn(i, {"MERGE_REQUESTED"}) /\ Verified(i)
  /\ writeReceipt(i, Landed(i))
  /\ local' = Tip
  /\ UNCHANGED <<mainLog, queued, branches, green, red, boot, foreign, faults>>

(* Startup: a receipt with an authorization adopts a verified merge. *)
adoptMergedState(i) ==
  /\ busy = Idle /\ i \in boot
  /\ receipts' = [receipts EXCEPT ![i] =
       IF receipts[i].pr /\ receipts[i].auth # NoHead /\ Verified(i) THEN Landed(i) ELSE @]
  /\ boot' = boot \ {i}
  /\ UNCHANGED <<mainLog, local, queued, branches, green, red, busy, foreign, faults>>

-----------------------------------------------------------------------------
(* The rest of the world *)

Crash ==
  /\ faults < MaxFaults /\ faults' = faults + 1
  /\ busy' = Idle /\ queued' = <<>>
  /\ boot' = {i \in Ids : Open(i)}
  /\ UNCHANGED <<mainLog, local, receipts, branches, green, red, foreign>>

(* CI runs on the head of an open pull request. *)
CiVerdict(i) ==
  /\ branches[i].state = "OPEN" /\ branches[i].head \notin green \cup red
  /\ \/ green' = green \cup {branches[i].head} /\ UNCHANGED red
     \/ red' = red \cup {branches[i].head} /\ UNCHANGED green
  /\ UNCHANGED <<mainLog, local, queued, receipts, branches, busy, boot, foreign, faults>>

CiRerun(i) ==
  /\ faults < MaxFaults /\ faults' = faults + 1
  /\ branches[i].head \in green
  /\ green' = green \ {branches[i].head}
  /\ UNCHANGED <<mainLog, local, queued, receipts, branches, red, busy, boot, foreign>>

(* Another pull request lands on main; the milestone file is not in it. *)
OtherMerge ==
  /\ foreign < MaxForeign /\ foreign' = foreign + 1
  /\ Tip < MaxMain
  /\ mainLog' = Append(mainLog, mainLog[Tip])
  /\ UNCHANGED <<local, queued, receipts, branches, green, red, busy, boot, faults>>

(* Somebody else pushes a commit to a state branch. *)
ForeignPush(i, p, s) ==
  LET pushed == [branches[i].remote EXCEPT !.files[p] = s, !.rev = @ + 1] IN
  /\ foreign < MaxForeign /\ foreign' = foreign + 1
  /\ branches[i].state = "OPEN"
  /\ branches' = [branches EXCEPT ![i].remote = pushed, ![i].head = pushed]
  /\ UNCHANGED <<mainLog, local, queued, receipts, green, red, busy, boot, faults>>

(* An operator merges a state pull request whose number is on its receipt. *)
OperatorMerge(i) ==
  /\ foreign < MaxForeign /\ foreign' = foreign + 1
  /\ receipts[i].pr /\ GitHubAdmits(branches[i])
  /\ Squash(i)
  /\ UNCHANGED <<local, queued, receipts, green, red, busy, boot, faults>>

AdvanceReceipt(i) ==
  \/ prepareBranch(i) \/ pushBranch(i) \/ openPullRequest(i) \/ writeAfterEffect(i)
  \/ pinHead(i) \/ authorizeHead(i) \/ ciRefused(i) \/ updateBase(i) \/ waitForCi(i)
  \/ reverifyHead(i) \/ reconcileMerged(i) \/ preMergeCheck(i) \/ mergeCommand(i)
  \/ verifyLanding(i) \/ adoptMergedState(i)

LandingNext ==
  \/ refreshMain \/ requestTransition \/ Crash \/ OtherMerge
  \/ \E p \in Packages, s \in PackageStatus : setPackageStatus(p, s)
  \/ \E i \in Ids :
       \/ AdvanceReceipt(i) \/ callFails(i) \/ checkFails(i) \/ reuseBranch(i)
       \/ CiVerdict(i) \/ CiRerun(i) \/ OperatorMerge(i)
       \/ \E p \in Packages, s \in PackageStatus : ForeignPush(i, p, s)

LandingSpec == LandingInit /\ [][LandingNext]_landingVars

(* The supervisor ticks for ever and takes every open receipt on each tick; *)
(* CI gives a verdict on every head of an open pull request.                *)
LandingFairSpec ==
  /\ LandingSpec
  /\ WF_landingVars(refreshMain) /\ WF_landingVars(requestTransition)
  /\ \A i \in 1..MaxTransitions : WF_landingVars(i \in Ids /\ AdvanceReceipt(i)) /\ WF_landingVars(i \in Ids /\ CiVerdict(i))

-----------------------------------------------------------------------------
(* Properties *)

LandingTypeOK ==
  /\ mainLog \in Seq(Content) /\ Len(mainLog) \in 1..MaxMain
  /\ local \in 1..Len(mainLog)
  /\ Len(queued) <= 1
  /\ queued \in Seq([pkg : Packages, from : PackageStatus, to : PackageStatus, desired : Content])
  /\ Len(receipts) <= MaxTransitions /\ Len(branches) = Len(receipts)
  /\ \A i \in Ids :
       /\ receipts[i] \in
            [status : RECEIPT_STATUSES, pkg : Packages, from : PackageStatus, to : PackageStatus,
             desired : Content, src : 1..MaxMain, pr : BOOLEAN, auth : Heads,
             updates : 0..MaxBaseUpdates, retries : 0..(MaxVerifyRetries + 1), merged : 0..MaxMain,
             leftover : BOOLEAN]
       /\ branches[i] \in
            [worktree : Heads, remote : Heads, state : {"NONE", "OPEN", "MERGED"},
             head : Heads, at : 0..MaxMain]
  /\ green \cap red = {}
  /\ boot \subseteq Ids /\ foreign \in 0..MaxForeign /\ faults \in 0..MaxFaults

(* A merge the lane itself performs puts on main exactly the head its own  *)
(* receipt holds a CI authorization for: whatever is pushed, re-run or     *)
(* crashes between the checks and the command (TOCTOU guard,               *)
(* --match-head-commit).                                                   *)
LaneMergesItsAuthorizedHead ==
  [][\A i \in Ids :
       (busy.of = i /\ busy.at = "merge" /\ mainLog' # mainLog /\ busy' # busy) =>
         /\ branches[i].head = receipts[i].auth
         /\ receipts[i].auth \in green]_landingVars

(* The receipts tell the truth.  One that says MERGED names a commit of     *)
(* main, not older than its source, from which on main did hold the         *)
(* desired file, although the merge may have been somebody else's and the   *)
(* process may have died before noting it; and a change that is on its way  *)
(* has one open receipt however main moves, so that no two pull requests    *)
(* race for it (verifyMergeAuthoritatively, the logical transition key).    *)
(* The receipts reuseBranch has closed are left out: MergedIsOnMain.        *)
ReceiptsTruthful ==
  /\ \A i \in Ids : (receipts[i].status = "MERGED" /\ ~receipts[i].leftover) =>
       /\ receipts[i].merged \in receipts[i].src..Tip
       /\ \E n \in receipts[i].merged..Tip : mainLog[n] = receipts[i].desired
  /\ \A i, j \in Ids :
       (i # j /\ Open(i) /\ Open(j)) => ~SameTransition(receipts[i], receipts[j])

(* The comment on a landing with nothing to commit says that the state      *)
(* already matches origin/main; on a branch a failed cleanup left it need   *)
(* not: then the receipt is MERGED and main never held the file.            *)
MergedIsOnMain ==
  \A i \in Ids : receipts[i].status = "MERGED" =>
    \E n \in receipts[i].merged..Tip : mainLog[n] = receipts[i].desired

(* Every transition ends: the comment in the MERGED reconciliation says a  *)
(* verification that keeps failing is never an automatic live-lock.        *)
EveryLandingEnds ==
  \A i \in 1..MaxTransitions : (i \in Ids) ~> (i \in Ids /\ ~Open(i))

(* A status one landing has put on main is only undone by a landing that   *)
(* asked for it: merging one package's transition leaves the others alone. *)
OtherPackagesKept ==
  [][\A i \in Ids : (branches'[i].state = "MERGED" /\ branches[i].state # "MERGED") =>
       \A p \in Packages \ {receipts[i].pkg} : mainLog'[Tip'][p] = mainLog[Tip][p]]_landingVars
=============================================================================
