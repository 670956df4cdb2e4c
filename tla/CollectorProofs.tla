--------------------------- MODULE CollectorProofs ---------------------------
(***************************************************************************)
(* Proofs about the collector for every set of collectors, resolvers,      *)
(* controllers, gaps and slots: the pipeline of one shard, and the parts   *)
(* that steer it from outside.                                             *)
(***************************************************************************)
EXTENDS CollectorPipeline, CollectorControl, FiniteSetTheorems, WellFoundedInduction, TLAPS

-----------------------------------------------------------------------------
(* The pipeline: types *)

Registered == {"UNRECOVERED", "RECOVERING"} \union Resolved
AppStates == {"down", "load", "register", "stream", "append", "attribute", "feature", "guard",
              "write"}

Apps == [pc : AppStates, token : 0..MaxToken, slot : Slots \union {1}, seen : 0..MaxSlot,
         returned : BOOLEAN]
Gaps == [first : Nat, last : Nat, status : {"ABSENT"} \union Registered]
Decisions == [gap : GapIds \union {0}, to : {"NONE", "RECOVERING"} \union Resolved]

PipelineTypes ==
    /\ leaderLease \in [holder : Collectors \union {"nobody"}, live : BOOLEAN, token : 0..MaxToken]
    /\ checkpoint \in [token : 0..MaxToken, cursor : 0..MaxSlot]
    /\ collectorGaps \in [GapIds -> Gaps]
    /\ eventKeys \subseteq Slots /\ attributed \subseteq eventKeys /\ featured \subseteq attributed
    /\ app \in [Collectors -> Apps]
    /\ resolver \in [Resolvers -> Decisions]

(* A gap row has never been written, or holds an interval that is not empty. *)
GapsWellFormed == \A g \in GapIds :
    \/ collectorGaps[g] = NoGap
    \/ collectorGaps[g].status \in Registered /\ collectorGaps[g].first <= collectorGaps[g].last

(* A decision not yet written is about a registered gap. *)
DecisionsRefer == \A r \in Resolvers :
    \/ resolver[r] = NoDecision
    \/ /\ resolver[r].gap \in GapIds /\ resolver[r].to \in {"RECOVERING"} \union Resolved
       /\ collectorGaps[resolver[r].gap].status \in Registered

(* The ports that were called for the slot at hand have left their rows. *)
WorkBehind == \A c \in Collectors :
    /\ app[c].pc \in {"append", "attribute", "feature", "guard", "write"} => app[c].slot \in Slots
    /\ app[c].pc \in {"attribute", "feature", "guard", "write"} => app[c].slot \in eventKeys
    /\ app[c].pc \in {"feature", "guard", "write"} => app[c].slot \in attributed
    /\ app[c].pc \in {"guard", "write"} => app[c].slot \in featured

(* Every token in use was granted, and none to two runs. *)
TokensGranted ==
    /\ checkpoint.token <= leaderLease.token
    /\ \A c \in Collectors : app[c].token <= leaderLease.token
    /\ \A c, d \in Collectors :
           c # d /\ app[c].pc # "down" /\ app[d].pc # "down" => app[c].token # app[d].token

PipelineBase == PipelineTypes /\ GapsWellFormed /\ DecisionsRefer /\ WorkBehind /\ TokensGranted

LEMMA PipelineNumbers == MaxSlot \in Nat /\ MaxToken \in Nat
  BY PipelineAssumption

LEMMA BaseInit == PipelineInit => PipelineBase
  BY PipelineNumbers DEF PipelineInit, PipelineBase, PipelineTypes, GapsWellFormed, DecisionsRefer,
     WorkBehind, TokensGranted, Apps, Gaps, Decisions, AppStates, Registered, Resolved, NoGap,
     NoDecision, Stopped, Slots

USE DEF TablesUnchanged, Step

(* What the reads of a run leave in its collector's local state. *)
LEMMA AppWrites ==
    ASSUME app \in [Collectors -> Apps], NEW c \in Collectors, NEW a \in Apps,
           app' = [app EXCEPT ![c] = a]
    PROVE  /\ app' \in [Collectors -> Apps] /\ app'[c] = a
           /\ \A d \in Collectors : d # c => app'[d] = app[d]
  OBVIOUS

LEMMA LoadWrites ==
    ASSUME app \in [Collectors -> Apps], checkpoint.cursor \in 0..MaxSlot,
           NEW c \in Collectors, NEW s \in Slots, load(c, s)
    PROVE  /\ app' \in [Collectors -> Apps]
           /\ app'[c].pc = "register" /\ app'[c].slot = s /\ app'[c].seen = checkpoint.cursor
           /\ app'[c].token = app[c].token /\ app'[c].returned = app[c].returned
           /\ \A d \in Collectors : d # c => app'[d] = app[d]
<1> DEFINE a == [app[c] EXCEPT !.pc = "register", !.slot = s, !.seen = checkpoint.cursor]
<1>1. s \in Slots \union {1}
  BY PipelineNumbers DEF Slots
<1>2. /\ a \in Apps /\ a.pc = "register" /\ a.slot = s /\ a.seen = checkpoint.cursor
      /\ a.token = app[c].token /\ a.returned = app[c].returned
  BY <1>1 DEF Apps, AppStates
<1>3. app' = [app EXCEPT ![c] = a]
  BY DEF load
<1> HIDE DEF a
<1> QED
  BY <1>2, <1>3, AppWrites

LEMMA ReconnectWrites ==
    ASSUME app \in [Collectors -> Apps], NEW c \in Collectors, reconnect(c)
    PROVE  /\ app' \in [Collectors -> Apps]
           /\ app'[c].pc = "stream" /\ app'[c].slot = app[c].slot
           /\ app'[c].token = app[c].token /\ app'[c].returned = app[c].returned
           /\ \A d \in Collectors : d # c => app'[d] = app[d]
<1> DEFINE a == [app[c] EXCEPT !.pc = "stream", !.seen = 0]
<1>1. 0 \in 0..MaxSlot
  BY PipelineNumbers
<1>2. /\ a \in Apps /\ a.pc = "stream" /\ a.slot = app[c].slot
      /\ a.token = app[c].token /\ a.returned = app[c].returned
  BY <1>1 DEF Apps, AppStates
<1>3. app' = [app EXCEPT ![c] = a]
  BY DEF reconnect
<1> HIDE DEF a
<1> QED
  BY <1>2, <1>3, AppWrites

LEMMA ReceiveWrites ==
    ASSUME app \in [Collectors -> Apps], NEW c \in Collectors, NEW s \in Slots,
           receive(c, s)
    PROVE  /\ app' \in [Collectors -> Apps]
           /\ app'[c].pc = "append" /\ app'[c].slot \in Slots
           /\ app'[c].slot = app[c].slot \/ app[c].returned
           /\ app'[c].token = app[c].token /\ app'[c].returned = app[c].returned
           /\ \A d \in Collectors : d # c => app'[d] = app[d]
<1> DEFINE a == [app[c] EXCEPT !.pc = "append", !.slot = s]
<1>1. s \in Slots \union {1} /\ (s = app[c].slot \/ app[c].returned)
  BY PipelineNumbers DEF receive, Slots
<1>2. app' = [app EXCEPT ![c] = a]
  BY DEF receive
<1>3. /\ a \in Apps /\ a.pc = "append" /\ a.slot = s
      /\ a.token = app[c].token /\ a.returned = app[c].returned
  BY <1>1 DEF Apps, AppStates
<1> HIDE DEF a
<1> QED
  BY <1>1, <1>2, <1>3, AppWrites

LEMMA BaseStep == PipelineBase /\ [PipelineNext]_pipelineVars => PipelineBase'
<1> SUFFICES ASSUME PipelineBase, [PipelineNext]_pipelineVars
             PROVE  PipelineBase'
  OBVIOUS
<1> USE PipelineNumbers DEF PipelineBase, PipelineTypes, WorkBehind, TokensGranted
<1>1. ASSUME NEW c \in Collectors, acquire(c)
      PROVE  PipelineBase'
  <2> DEFINE a == [Stopped EXCEPT !.pc = "load", !.token = leaderLease.token + 1]
  <2>1. /\ leaderLease.token + 1 \in 0..MaxToken
        /\ leaderLease' = [holder |-> c, live |-> TRUE, token |-> leaderLease.token + 1]
    BY <1>1 DEF acquire
  <2>2. a \in Apps /\ a.pc = "load" /\ a.token = leaderLease.token + 1
    <3> DEFINE n == leaderLease.token + 1
    <3>1. n \in 0..MaxToken
      BY <2>1
    <3> HIDE DEF n
    <3> QED
      BY <3>1, 1 \in Slots \union {1}, 0 \in 0..MaxSlot DEF Stopped, Apps, AppStates, n
  <2>3. app' = [app EXCEPT ![c] = a]
    BY <1>1 DEF acquire
  <2> HIDE DEF a
  <2>4. TokensGranted'
    BY <1>1, <2>1, <2>2, <2>3 DEF acquire, Apps
  <2>5. PipelineTypes'
    BY <1>1, <2>1, <2>2, <2>3 DEF acquire
  <2> QED
    BY <1>1, <2>2, <2>3, <2>4, <2>5 DEF acquire, GapsWellFormed, DecisionsRefer
<1>2. CASE LeaseExpires
  BY <1>2 DEF LeaseExpires, GapsWellFormed, DecisionsRefer
<1>3. ASSUME NEW c \in Collectors, NEW s \in Slots, load(c, s)
      PROVE  PipelineBase'
  <2>1. checkpoint.cursor \in 0..MaxSlot
    OBVIOUS
  <2>2. /\ app' \in [Collectors -> Apps]
        /\ app'[c].pc = "register" /\ app'[c].token = app[c].token
        /\ \A d \in Collectors : d # c => app'[d] = app[d]
    BY <1>3, <2>1, LoadWrites
  <2> QED
    BY <1>3, <2>2 DEF load, GapsWellFormed, DecisionsRefer
<1>4. ASSUME NEW c \in Collectors, reconnect(c)
      PROVE  PipelineBase'
  <2>3. app' \in [Collectors -> Apps] /\ WorkBehind' /\ TokensGranted'
    <3>1. /\ app' \in [Collectors -> Apps]
          /\ app'[c].pc = "stream" /\ app'[c].token = app[c].token
          /\ \A d \in Collectors : d # c => app'[d] = app[d]
      BY <1>4, ReconnectWrites
    <3> QED
      BY <1>4, <3>1 DEF reconnect
  <2>5. collectorGaps' \in [GapIds -> Gaps] /\ GapsWellFormed' /\ DecisionsRefer'
    <3>1. CASE UNCHANGED collectorGaps
      BY <1>4, <3>1 DEF reconnect, GapsWellFormed, DecisionsRefer
    <3>2. ASSUME NEW g \in GapIds, collectorGaps[g] = NoGap, app[c].slot > app[c].seen + 1,
                 collectorGaps' = [collectorGaps EXCEPT ![g] =
                     [first |-> app[c].seen + 1, last |-> app[c].slot - 1,
                      status |-> "UNRECOVERED"]]
          PROVE  collectorGaps' \in [GapIds -> Gaps] /\ GapsWellFormed' /\ DecisionsRefer'
      <4> DEFINE n == [first |-> app[c].seen + 1, last |-> app[c].slot - 1,
                       status |-> "UNRECOVERED"]
      <4>1. n \in Gaps /\ n.status = "UNRECOVERED" /\ n.first <= n.last
        BY <3>2 DEF Gaps, Apps, Slots, Registered
      <4>2. collectorGaps' = [collectorGaps EXCEPT ![g] = n]
        BY <3>2
      <4> HIDE DEF n
      <4> QED
        BY <1>4, <4>1, <4>2 DEF reconnect, GapsWellFormed, DecisionsRefer, Registered
    <3> QED
      BY <1>4, <3>1, <3>2 DEF reconnect
  <2> QED
    BY <1>4, <2>3, <2>5 DEF reconnect
<1>5. ASSUME NEW c \in Collectors, NEW s \in Slots, receive(c, s)
      PROVE  PipelineBase'
  <2>1. /\ app' \in [Collectors -> Apps]
        /\ app'[c].pc = "append" /\ app'[c].slot \in Slots /\ app'[c].token = app[c].token
        /\ \A d \in Collectors : d # c => app'[d] = app[d]
    BY <1>5, ReceiveWrites
  <2> QED
    BY <1>5, <2>1 DEF receive, GapsWellFormed, DecisionsRefer
<1>6. ASSUME NEW c \in Collectors, appendImmutable(c)
      PROVE  PipelineBase'
  BY <1>6 DEF appendImmutable, Apps, AppStates, Slots, GapsWellFormed, DecisionsRefer
<1>7. ASSUME NEW c \in Collectors, attributeFirstSeen(c)
      PROVE  PipelineBase'
  BY <1>7 DEF attributeFirstSeen, Apps, AppStates, Slots, GapsWellFormed, DecisionsRefer
<1>8. ASSUME NEW c \in Collectors, emitFeatureUpdate(c)
      PROVE  PipelineBase'
  BY <1>8 DEF emitFeatureUpdate, Apps, AppStates, Slots, GapsWellFormed, DecisionsRefer
<1>9. ASSUME NEW c \in Collectors, commitGuard(c)
      PROVE  PipelineBase'
  BY <1>9 DEF commitGuard, Apps, AppStates, Slots, GapsWellFormed, DecisionsRefer
<1>10. ASSUME NEW c \in Collectors, commitWrite(c)
       PROVE  PipelineBase'
  <2>1. app[c] \in Apps /\ app[c].slot \in Slots /\ app[c].token \in 0..MaxToken
    BY <1>10 DEF commitWrite, Apps
  <2>2. checkpoint' \in [token : 0..MaxToken, cursor : 0..MaxSlot]
    BY <1>10, <2>1 DEF commitWrite, Slots
  <2>3. app' \in [Collectors -> Apps]
    <3> DEFINE n == [app[c] EXCEPT !.pc = "stream", !.returned = TRUE]
    <3>1. n \in Apps
      BY <2>1 DEF Apps, AppStates
    <3>2. app' = [app EXCEPT ![c] = n]
      BY <1>10 DEF commitWrite
    <3> HIDE DEF n
    <3> QED
      BY <3>1, <3>2
  <2>4. /\ app'[c].pc = "stream" /\ app'[c].token = app[c].token
        /\ \A d \in Collectors : d # c => app'[d] = app[d]
    BY <1>10, <2>1 DEF commitWrite, Apps
  <2>5. WorkBehind'
    BY <1>10, <2>1, <2>4 DEF commitWrite
  <2>6. TokensGranted'
    BY <1>10, <2>1, <2>4 DEF commitWrite
  <2> QED
    BY <1>10, <2>2, <2>3, <2>5, <2>6 DEF commitWrite, GapsWellFormed, DecisionsRefer
<1>11. ASSUME NEW c \in Collectors, runEnds(c)
       PROVE  PipelineBase'
  BY <1>11 DEF runEnds, Stopped, Apps, AppStates, Slots, GapsWellFormed, DecisionsRefer
<1>12. ASSUME NEW r \in Resolvers, NEW g \in GapIds, NEW to \in {"RECOVERING"} \union Resolved,
              resolveRead(r, g, to)
       PROVE  PipelineBase'
  BY <1>12 DEF resolveRead, Resolved, GapsWellFormed, DecisionsRefer, Decisions, NoDecision,
     Registered
<1>13. ASSUME NEW r \in Resolvers, resolveWrite(r)
       PROVE  PipelineBase'
  BY <1>13 DEF resolveWrite, Resolved, GapsWellFormed, DecisionsRefer, Decisions, NoDecision,
     Registered, Gaps, NoGap
<1>14. CASE UNCHANGED pipelineVars
  BY <1>14 DEF pipelineVars, GapsWellFormed, DecisionsRefer
<1> QED
  BY <1>1, <1>2, <1>3, <1>4, <1>5, <1>6, <1>7, <1>8, <1>9, <1>10, <1>11, <1>12, <1>13, <1>14
     DEF PipelineNext

-----------------------------------------------------------------------------
(* The pipeline: no slot is lost in silence *)

(* The slots whose fate the tables know. *)
Backed == Processed \union Covered(Registered)

(* What a run may count on: the slots behind it are backed, until it has     *)
(* committed once under its token; from then on a message may be lost, but   *)
(* the stored checkpoint is of its own epoch or a later one, and the guard   *)
(* of commitCheckpoint looks at what lies between.                           *)
PathOf(c) ==
    /\ app[c].pc = "register" => 1..app[c].seen \subseteq Backed
    /\ app[c].pc \in {"stream", "append", "attribute", "feature", "guard"} /\ ~app[c].returned
           => 1..app[c].slot - 1 \subseteq Backed
    /\ app[c].pc = "write" => 1..app[c].slot - 1 \subseteq Backed
    /\ app[c].returned => checkpoint.token >= app[c].token
    /\ app[c].pc \in {"load", "register"} => ~app[c].returned

PathBacked == \A c \in Collectors : PathOf(c)

LossInv == PipelineBase /\ PathBacked /\ NoSilentLoss

LEMMA LossInit == PipelineInit => LossInv
<1> SUFFICES ASSUME PipelineInit
             PROVE  PathBacked /\ NoSilentLoss
  BY BaseInit DEF LossInv
<1>1. checkpoint.cursor = 0
  BY DEF PipelineInit
<1>2. \A c \in Collectors : app[c].pc = "down" /\ app[c].returned = FALSE
  BY DEF PipelineInit, Stopped
<1> QED
  BY <1>1, <1>2 DEF PathBacked, PathOf, NoSilentLoss

(* Rows are never taken back: an event stays recorded, attributed and        *)
(* emitted, and a gap, once registered, keeps its interval.                  *)
LEMMA BackedGrows ==
    ASSUME PipelineBase, [PipelineNext]_pipelineVars
    PROVE  Backed \subseteq Backed'
<1> USE DEF PipelineBase, PipelineTypes, Backed, Processed, Covered
<1>1. ASSUME NEW c \in Collectors, reconnect(c)
      PROVE  Backed \subseteq Backed'
  <2>1. \A g \in GapIds : collectorGaps'[g] = collectorGaps[g] \/ collectorGaps[g] = NoGap
    BY <1>1 DEF reconnect
  <2>2. NoGap.status \notin Registered
    BY DEF NoGap, Registered, Resolved
  <2> QED
    BY <1>1, <2>1, <2>2 DEF reconnect
<1>2. ASSUME NEW r \in Resolvers, resolveWrite(r)
      PROVE  Backed \subseteq Backed'
  <2>1. resolver[r].to \in Registered
    BY <1>2 DEF resolveWrite, DecisionsRefer, Registered
  <2>2. \A g \in GapIds : /\ collectorGaps'[g].first = collectorGaps[g].first
                          /\ collectorGaps'[g].last = collectorGaps[g].last
                          /\ collectorGaps[g].status \in Registered
                                => collectorGaps'[g].status \in Registered
    BY <1>2, <2>1 DEF resolveWrite, Gaps
  <2> QED
    BY <1>2, <2>2 DEF resolveWrite
<1>3. ASSUME NEW c \in Collectors,
             appendImmutable(c) \/ attributeFirstSeen(c) \/ emitFeatureUpdate(c)
      PROVE  Backed \subseteq Backed'
  BY <1>3 DEF appendImmutable, attributeFirstSeen, emitFeatureUpdate
<1>4. CASE UNCHANGED <<collectorGaps, eventKeys, attributed, featured>>
  BY <1>4
<1> QED
  BY <1>1, <1>2, <1>3, <1>4 DEF PipelineNext, acquire, LeaseExpires, load, receive, commitGuard,
     commitWrite, runEnds, resolveRead, pipelineVars

(* A slot the run has recorded, attributed and emitted is backed. *)
LEMMA OwnSlotBacked ==
    ASSUME PipelineBase, NEW c \in Collectors, app[c].pc \in {"guard", "write"}
    PROVE  app[c].slot \in Slots /\ app[c].slot \in Backed
  BY DEF PipelineBase, WorkBehind, Backed, Processed

(* What the run's guard lets pass is backed. *)
LEMMA GuardBacks ==
    ASSUME LossInv, NEW c \in Collectors, commitGuard(c)
    PROVE  1..app[c].slot - 1 \subseteq Backed
<1>1. /\ app[c].pc = "guard" /\ app[c].token >= checkpoint.token
      /\ app[c].token = checkpoint.token =>
             checkpoint.cursor + 1..app[c].slot - 1 \subseteq Covered(Resolved)
  BY DEF commitGuard, CheckpointAdmits
<1>2. app[c].token \in Nat /\ checkpoint.token \in Nat /\ checkpoint.cursor \in Nat
      /\ app[c].slot \in Nat /\ app[c].returned \in BOOLEAN
  BY DEF LossInv, PipelineBase, PipelineTypes, Apps, Slots
<1>3. CASE app[c].returned
  <2>1. checkpoint.cursor + 1..app[c].slot - 1 \subseteq Covered(Resolved)
    BY <1>1, <1>2, <1>3 DEF LossInv, PathBacked, PathOf
  <2>2. Covered(Resolved) \subseteq Backed
    BY DEF Backed, Covered, Registered
  <2>3. 1..checkpoint.cursor \subseteq Backed
    BY DEF LossInv, NoSilentLoss, Backed, Registered
  <2> QED
    BY <1>2, <2>1, <2>2, <2>3
<1>4. CASE ~app[c].returned
  BY <1>1, <1>4 DEF LossInv, PathBacked, PathOf
<1> QED
  BY <1>3, <1>4

(* A collector that did not move keeps its path. *)
LEMMA PathKept ==
    ASSUME NEW d \in Collectors, PathOf(d), app'[d] = app[d], Backed \subseteq Backed',
           checkpoint.token \in Nat, checkpoint'.token \in Nat, app[d].token \in Nat,
           checkpoint'.token >= checkpoint.token
    PROVE  PathOf(d)'
<1>1. app[d].returned => checkpoint'.token >= app[d].token
  BY DEF PathOf
<1> QED
  BY <1>1 DEF PathOf

(* commitCheckpoint never lowers the stored token. *)
LEMMA CheckpointAdvances ==
    ASSUME PipelineBase, [PipelineNext]_pipelineVars
    PROVE  /\ \/ UNCHANGED checkpoint
              \/ \E c \in Collectors : commitWrite(c)
           /\ checkpoint.token \in Nat /\ checkpoint'.token \in Nat
           /\ checkpoint'.token >= checkpoint.token
<1>1. checkpoint.token \in Nat
  BY DEF PipelineBase, PipelineTypes
<1>2. ASSUME NEW c \in Collectors, commitWrite(c)
      PROVE  checkpoint'.token \in Nat /\ checkpoint'.token >= checkpoint.token
  <2>1. app[c].token \in Nat
    BY DEF PipelineBase, PipelineTypes, Apps
  <2> QED
    BY <1>1, <1>2, <2>1 DEF commitWrite, UpsertApplies
<1>3. UNCHANGED checkpoint \/ \E c \in Collectors : commitWrite(c)
  BY DEF PipelineNext, acquire, LeaseExpires, load, reconnect, receive, appendImmutable,
     attributeFirstSeen, emitFeatureUpdate, commitGuard, runEnds, resolveRead, resolveWrite,
     pipelineVars
<1> QED
  BY <1>1, <1>2, <1>3

LEMMA LossStep == LossInv /\ [PipelineNext]_pipelineVars => LossInv'
<1> SUFFICES ASSUME LossInv, [PipelineNext]_pipelineVars
             PROVE  LossInv'
  OBVIOUS
<1>1. PipelineBase /\ PipelineBase' /\ PathBacked /\ NoSilentLoss
  BY BaseStep DEF LossInv
<1>2. Backed \subseteq Backed'
  BY <1>1, BackedGrows
<1>3. /\ checkpoint.token \in Nat /\ checkpoint'.token \in Nat
      /\ checkpoint'.token >= checkpoint.token
      /\ UNCHANGED checkpoint \/ \E c \in Collectors : commitWrite(c)
  BY <1>1, CheckpointAdvances
<1>4. \A c \in Collectors : app[c] \in Apps /\ app[c].token \in Nat /\ app[c].slot \in Nat
  BY <1>1 DEF PipelineBase, PipelineTypes, Apps, Slots
<1>5. \A c \in Collectors : app'[c] = app[c] => PathOf(c)'
  BY <1>1, <1>2, <1>3, <1>4, PathKept DEF PathBacked
<1>6. NoSilentLoss'
  <2>1. CASE UNCHANGED checkpoint
    BY <1>1, <1>2, <2>1 DEF NoSilentLoss, Backed, Registered
  <2>2. ASSUME NEW c \in Collectors, commitWrite(c)
        PROVE  NoSilentLoss'
    <3>1. app[c].pc = "write" /\ checkpoint'.cursor = app[c].slot
      BY <2>2 DEF commitWrite
    <3>2. 1..app[c].slot - 1 \subseteq Backed /\ app[c].slot \in Backed
      BY <1>1, <3>1, OwnSlotBacked DEF PathBacked, PathOf
    <3>3. 1..app[c].slot \subseteq Backed'
      BY <1>2, <1>4, <3>2
    <3> QED
      BY <3>1, <3>3 DEF NoSilentLoss, Backed, Registered
  <2> QED
    BY <1>3, <2>1, <2>2
<1>7. ASSUME NEW c \in Collectors, app'[c] # app[c]
      PROVE  PathOf(c)'
  <2>0. app \in [Collectors -> Apps] /\ PathOf(c) /\ 1..checkpoint.cursor \subseteq Backed
    BY <1>1 DEF PipelineBase, PipelineTypes, PathBacked, NoSilentLoss, Backed, Registered
  <2>1. CASE acquire(c)
    BY <2>0, <2>1 DEF acquire, PathOf, Stopped
  <2>2. ASSUME NEW s \in Slots, load(c, s)
        PROVE  PathOf(c)'
    <3>1. checkpoint.cursor \in 0..MaxSlot
      BY <1>1 DEF PipelineBase, PipelineTypes
    <3>2. app'[c].pc = "register" /\ app'[c].seen = checkpoint.cursor /\ ~app'[c].returned
      BY <2>0, <2>2, <3>1, LoadWrites DEF load, PathOf
    <3> QED
      BY <1>2, <2>0, <3>2 DEF PathOf
  <2>3. CASE reconnect(c)
    <3>1. app'[c].pc = "stream" /\ app'[c].slot = app[c].slot
          /\ ~app[c].returned /\ ~app'[c].returned
      BY <2>0, <2>3, ReconnectWrites DEF reconnect, PathOf
    <3>2. 1..app[c].seen \subseteq Backed'
      BY <1>2, <2>0, <2>3 DEF reconnect, PathOf
    <3>3. app[c].seen + 1..app[c].slot - 1 \subseteq Backed'
      <4>1. CASE app[c].slot <= app[c].seen + 1
        BY <1>4, <4>1 DEF Apps
      <4>2. CASE app[c].slot > app[c].seen + 1
        <5>1. PICK g \in GapIds : collectorGaps' = [collectorGaps EXCEPT ![g] =
                  [first |-> app[c].seen + 1, last |-> app[c].slot - 1, status |-> "UNRECOVERED"]]
          BY <1>4, <2>3, <4>2 DEF reconnect, Apps
        <5>2. /\ collectorGaps'[g].status = "UNRECOVERED"
              /\ collectorGaps'[g].first = app[c].seen + 1
              /\ collectorGaps'[g].last = app[c].slot - 1
          BY <1>1, <5>1 DEF PipelineBase, PipelineTypes
        <5>3. app[c].seen + 1..app[c].slot - 1 \subseteq Slots
          BY <1>4, PipelineNumbers DEF Slots, Apps
        <5> QED
          BY <5>2, <5>3 DEF Backed, Covered, Registered
      <4> QED
        BY <1>4, <4>1, <4>2 DEF Apps
    <3>4. 1..app[c].slot - 1 \subseteq Backed'
      BY <1>4, <3>2, <3>3 DEF Apps
    <3> QED
      BY <3>1, <3>4 DEF PathOf
  <2>4. ASSUME NEW s \in Slots, receive(c, s)
        PROVE  PathOf(c)'
    <3>1. /\ app'[c].pc = "append" /\ (app'[c].slot = app[c].slot \/ app[c].returned)
          /\ app'[c].token = app[c].token /\ app'[c].returned = app[c].returned
          /\ app[c].pc = "stream" /\ UNCHANGED checkpoint
      BY <2>0, <2>4, ReceiveWrites DEF receive
    <3> QED
      BY <1>2, <2>0, <3>1 DEF PathOf
  <2>5. CASE appendImmutable(c) \/ attributeFirstSeen(c) \/ emitFeatureUpdate(c)
    <3>1. /\ app'[c].pc \in {"attribute", "feature", "guard"}
          /\ app[c].pc \in {"append", "attribute", "feature"}
          /\ app'[c].slot = app[c].slot /\ app'[c].token = app[c].token
          /\ app'[c].returned = app[c].returned /\ UNCHANGED checkpoint
      BY <2>0, <2>5 DEF appendImmutable, attributeFirstSeen, emitFeatureUpdate, Apps
    <3> QED
      BY <1>2, <2>0, <3>1 DEF PathOf
  <2>6. CASE commitGuard(c)
    <3>1. /\ app'[c].pc = "write" /\ app'[c].slot = app[c].slot /\ app'[c].token = app[c].token
          /\ app'[c].returned = app[c].returned /\ UNCHANGED checkpoint
      BY <2>0, <2>6 DEF commitGuard, Apps
    <3> QED
      BY <1>2, <2>0, <2>6, <3>1, GuardBacks DEF PathOf
  <2>7. CASE commitWrite(c)
    <3>1. /\ app'[c].pc = "stream" /\ app'[c].token = app[c].token
          /\ app'[c].returned = TRUE /\ checkpoint'.token = app[c].token
      BY <2>0, <2>7 DEF commitWrite, Apps
    <3> QED
      BY <1>4, <3>1 DEF PathOf
  <2>8. CASE runEnds(c)
    BY <2>0, <2>8 DEF runEnds, PathOf, Stopped
  <2>9. CASE \E d \in Collectors \ {c} :
               \/ acquire(d) \/ reconnect(d) \/ appendImmutable(d) \/ attributeFirstSeen(d)
               \/ emitFeatureUpdate(d) \/ commitGuard(d) \/ commitWrite(d) \/ runEnds(d)
               \/ \E s \in Slots : load(d, s) \/ receive(d, s)
    BY <1>7, <2>0, <2>9 DEF acquire, reconnect, appendImmutable, attributeFirstSeen,
       emitFeatureUpdate, commitGuard, commitWrite, runEnds, load, receive
  <2>10. CASE UNCHANGED app
    BY <1>7, <2>10
  <2> QED
    BY <2>1, <2>2, <2>3, <2>4, <2>5, <2>6, <2>7, <2>8, <2>9, <2>10
       DEF PipelineNext, LeaseExpires, resolveRead, resolveWrite, pipelineVars
<1> QED
  BY <1>1, <1>5, <1>6, <1>7 DEF LossInv, PathBacked

(* Every slot up to the committed cursor has been recorded, attributed and   *)
(* emitted, or lies in a registered gap, for any number of collectors that   *)
(* crash between the port calls of run() or lose their lease, any number of  *)
(* resolvers, and streams that start and skip where they like.               *)
THEOREM NothingLost == PipelineSpec => []NoSilentLoss
<1>1. LossInv => NoSilentLoss
  BY DEF LossInv
<1> QED
  BY <1>1, LossInit, LossStep, PTL DEF PipelineSpec

(* The rows of the collector and the local state of its runs keep their      *)
(* types; what is attributed was recorded and what was emitted attributed.   *)
THEOREM PipelineTyped == PipelineSpec => []PipelineTypeOK
<1>1. PipelineBase => PipelineTypeOK
  BY PipelineNumbers DEF PipelineBase, PipelineTypes, PipelineTypeOK, GapsWellFormed, WorkBehind,
     TokensGranted, Registered, Apps, AppStates
<1> QED
  BY <1>1, BaseInit, BaseStep, PTL DEF PipelineSpec

-----------------------------------------------------------------------------
(* The pipeline: the checkpoint under one resolver *)

(* A decision not yet written is still about an unresolved gap. *)
DecisionsFresh == \A r \in Resolvers :
    resolver[r] # NoDecision =>
        collectorGaps[resolver[r].gap].status \in {"UNRECOVERED", "RECOVERING"}

(* What the guard of commitCheckpoint saw still holds at the upsert, unless  *)
(* a later epoch has written in between.                                     *)
GuardStands == \A c \in Collectors :
    app[c].pc = "write" /\ app[c].token = checkpoint.token =>
        checkpoint.cursor + 1..app[c].slot - 1 \subseteq Covered(Resolved)

HonestInv == PipelineBase /\ DecisionsFresh /\ GuardStands

OneResolver == \A r, s \in Resolvers : r = s

LEMMA HonestInit == PipelineInit => HonestInv
<1> SUFFICES ASSUME PipelineInit
             PROVE  DecisionsFresh /\ GuardStands
  BY BaseInit DEF HonestInv
<1> QED
  BY DEF PipelineInit, DecisionsFresh, GuardStands, Stopped

(* A resolved gap is final. *)
LEMMA ResolvedKept ==
    ASSUME HonestInv, [PipelineNext]_pipelineVars, NEW g \in GapIds,
           collectorGaps[g].status \in Resolved
    PROVE  collectorGaps'[g] = collectorGaps[g]
<1> USE DEF HonestInv, PipelineBase, PipelineTypes
<1>1. ASSUME NEW c \in Collectors, reconnect(c)
      PROVE  collectorGaps'[g] = collectorGaps[g]
  BY <1>1 DEF reconnect, NoGap, Resolved
<1>2. ASSUME NEW r \in Resolvers, resolveWrite(r)
      PROVE  collectorGaps'[g] = collectorGaps[g]
  <2>1. resolver[r].gap # g
    BY <1>2 DEF resolveWrite, DecisionsFresh, Resolved
  <2> QED
    BY <1>2, <2>1 DEF resolveWrite
<1>3. CASE UNCHANGED collectorGaps
  BY <1>3
<1> QED
  BY <1>1, <1>2, <1>3 DEF PipelineNext, acquire, LeaseExpires, load, receive, appendImmutable,
     attributeFirstSeen, emitFeatureUpdate, commitGuard, commitWrite, runEnds, resolveRead,
     pipelineVars

LEMMA CoveredGrows ==
    ASSUME HonestInv, [PipelineNext]_pipelineVars
    PROVE  Covered(Resolved) \subseteq Covered(Resolved)'
  BY ResolvedKept DEF Covered

LEMMA FreshStep ==
    ASSUME OneResolver, HonestInv, [PipelineNext]_pipelineVars
    PROVE  DecisionsFresh'
<1> USE DEF HonestInv, PipelineBase, PipelineTypes
<1>1. ASSUME NEW c \in Collectors, reconnect(c)
      PROVE  DecisionsFresh'
  <2>1. \A h \in GapIds : collectorGaps'[h] = collectorGaps[h] \/ collectorGaps[h] = NoGap
    BY <1>1 DEF reconnect
  <2>2. ASSUME NEW r \in Resolvers, resolver[r] # NoDecision
        PROVE  /\ resolver[r].gap \in GapIds /\ collectorGaps[resolver[r].gap] # NoGap
               /\ collectorGaps[resolver[r].gap].status \in {"UNRECOVERED", "RECOVERING"}
    BY <2>2 DEF DecisionsRefer, DecisionsFresh, NoGap
  <2> QED
    BY <1>1, <2>1, <2>2 DEF reconnect, DecisionsFresh
<1>2. ASSUME NEW r \in Resolvers, resolveWrite(r)
      PROVE  DecisionsFresh'
  BY <1>2 DEF resolveWrite, DecisionsFresh, OneResolver
<1>3. ASSUME NEW r \in Resolvers, NEW g \in GapIds, NEW to \in {"RECOVERING"} \union Resolved,
             resolveRead(r, g, to)
      PROVE  DecisionsFresh'
  BY <1>3 DEF resolveRead, DecisionsFresh
<1>4. CASE UNCHANGED <<collectorGaps, resolver>>
  BY <1>4 DEF DecisionsFresh
<1> QED
  BY <1>1, <1>2, <1>3, <1>4 DEF PipelineNext, acquire, LeaseExpires, load, receive,
     appendImmutable, attributeFirstSeen, emitFeatureUpdate, commitGuard, commitWrite, runEnds,
     pipelineVars

(* A run reaches the upsert through the guard, and nothing moves the         *)
(* checkpoint of its epoch but itself.                                       *)
LEMMA GuardStep ==
    ASSUME HonestInv, [PipelineNext]_pipelineVars
    PROVE  GuardStands'
<1>1. Covered(Resolved) \subseteq Covered(Resolved)'
  BY CoveredGrows
<1>2. /\ app \in [Collectors -> Apps] /\ TokensGranted
      /\ UNCHANGED checkpoint \/ \E c \in Collectors : commitWrite(c)
  BY CheckpointAdvances DEF HonestInv, PipelineBase, PipelineTypes
<1> SUFFICES ASSUME NEW c \in Collectors, app'[c].pc = "write", app'[c].token = checkpoint'.token
             PROVE  checkpoint'.cursor + 1..app'[c].slot - 1 \subseteq Covered(Resolved)
  BY <1>1 DEF GuardStands
<1>3. CASE commitGuard(c)
  <2>1. app'[c].token = app[c].token /\ app'[c].slot = app[c].slot /\ UNCHANGED checkpoint
    BY <1>2, <1>3 DEF commitGuard, Apps
  <2> QED
    BY <1>3, <2>1 DEF commitGuard, CheckpointAdmits
<1>4. CASE app'[c] = app[c]
  <2>1. CASE UNCHANGED checkpoint
    BY <1>4, <2>1 DEF HonestInv, GuardStands
  <2>2. ASSUME NEW d \in Collectors, commitWrite(d)
        PROVE  FALSE
    <3>1. app[d].pc = "write" /\ checkpoint'.token = app[d].token
      BY <2>2 DEF commitWrite
    <3>2. app[c].token = app[d].token /\ app[c].pc = "write"
      BY <1>4, <3>1
    <3>3. c = d
      BY <1>2, <3>1, <3>2 DEF TokensGranted
    <3>4. app'[d].pc = "stream"
      BY <1>2, <2>2, app[d] \in Apps DEF commitWrite, Apps
    <3> QED
      BY <3>3, <3>4
  <2> QED
    BY <1>2, <2>1, <2>2
<1>5. CASE app'[c] # app[c] /\ ~commitGuard(c)
  <2>1. UNCHANGED app \/ \E d \in Collectors :
               \/ acquire(d) \/ reconnect(d) \/ appendImmutable(d) \/ attributeFirstSeen(d)
               \/ emitFeatureUpdate(d) \/ commitGuard(d) \/ commitWrite(d) \/ runEnds(d)
               \/ \E s \in Slots : load(d, s) \/ receive(d, s)
    BY DEF PipelineNext, LeaseExpires, resolveRead, resolveWrite, pipelineVars
  <2>2. \A d \in Collectors : app[d] \in Apps
    BY <1>2
  <2>3. PICK d \in Collectors :
               \/ acquire(d) \/ reconnect(d) \/ appendImmutable(d) \/ attributeFirstSeen(d)
               \/ emitFeatureUpdate(d) \/ commitGuard(d) \/ commitWrite(d) \/ runEnds(d)
               \/ \E s \in Slots : load(d, s) \/ receive(d, s)
    BY <1>5, <2>1
  <2>4. d = c
    BY <1>2, <1>5, <2>3 DEF acquire, reconnect, appendImmutable, attributeFirstSeen,
       emitFeatureUpdate, commitGuard, commitWrite, runEnds, load, receive
  <2>5. CASE acquire(c) \/ runEnds(c)
    <3>1. ASSUME acquire(c)
          PROVE  app'[c] = [Stopped EXCEPT !.pc = "load", !.token = leaderLease.token + 1]
      BY <1>2, <3>1 DEF acquire
    <3>2. ASSUME runEnds(c)
          PROVE  app'[c] = Stopped
      BY <1>2, <3>2 DEF runEnds
    <3>3. /\ Stopped.pc = "down"
          /\ [Stopped EXCEPT !.pc = "load", !.token = leaderLease.token + 1].pc = "load"
      BY DEF Stopped
    <3> QED
      BY <2>5, <3>1, <3>2, <3>3
  <2>6. CASE appendImmutable(c) \/ attributeFirstSeen(c) \/ emitFeatureUpdate(c)
    BY <1>2, <2>2, <2>6 DEF appendImmutable, attributeFirstSeen, emitFeatureUpdate, Apps
  <2>7. CASE reconnect(c)
    BY <1>2, <2>7, ReconnectWrites
  <2>8. CASE \E s \in Slots : receive(c, s)
    BY <1>2, <2>8, ReceiveWrites
  <2>9. CASE commitWrite(c)
    <3>1. app'[c] = [app[c] EXCEPT !.pc = "stream", !.slot = @ + 1, !.returned = TRUE]
      BY <1>2, <2>9 DEF commitWrite
    <3> QED
      BY <2>2, <3>1 DEF Apps
  <2>10. CASE \E s \in Slots : load(c, s)
    <3>1. checkpoint.cursor \in 0..MaxSlot
      BY DEF HonestInv, PipelineBase, PipelineTypes
    <3> QED
      BY <1>2, <2>10, <3>1, LoadWrites
  <2> QED
    BY <1>5, <2>3, <2>4, <2>5, <2>6, <2>7, <2>8, <2>9, <2>10
<1> QED
  BY <1>3, <1>4, <1>5

(* While one resolver works at a time, the stored checkpoint only moves      *)
(* forward, by fencing token and then by cursor, crosses within an epoch     *)
(* only resolved gaps, and a resolved gap is final: the guard and the upsert *)
(* of commitCheckpoint are two statements, and any number of deposed leaders *)
(* may come between them.                                                    *)
THEOREM CheckpointsHonest == OneResolver /\ PipelineSpec => CheckpointHonest
<1> SUFFICES ASSUME OneResolver
             PROVE  PipelineSpec => CheckpointHonest
  OBVIOUS
<1>1. HonestInv /\ [PipelineNext]_pipelineVars
      =>     [/\ \/ checkpoint'.token > checkpoint.token
                 \/ checkpoint'.token = checkpoint.token /\ checkpoint'.cursor >= checkpoint.cursor
              /\ checkpoint'.token = checkpoint.token
                     => checkpoint.cursor + 1..checkpoint'.cursor - 1 \subseteq Covered(Resolved)
              /\ \A g \in GapIds :
                     collectorGaps[g].status \in Resolved => collectorGaps'[g] = collectorGaps[g]
             ]_pipelineVars
  <2>0. HAVE HonestInv /\ [PipelineNext]_pipelineVars
  <2>1. checkpoint.token \in Nat /\ checkpoint.cursor \in Nat
    BY <2>0 DEF HonestInv, PipelineBase, PipelineTypes
  <2>2. UNCHANGED checkpoint \/ \E c \in Collectors : commitWrite(c)
    BY <2>0, CheckpointAdvances DEF HonestInv
  <2>3. ASSUME NEW c \in Collectors, commitWrite(c)
        PROVE  /\ \/ checkpoint'.token > checkpoint.token
                  \/ checkpoint'.token = checkpoint.token
                     /\ checkpoint'.cursor >= checkpoint.cursor
               /\ checkpoint'.token = checkpoint.token
                      => checkpoint.cursor + 1..checkpoint'.cursor - 1 \subseteq Covered(Resolved)
    BY <2>0, <2>3 DEF HonestInv, GuardStands, commitWrite, UpsertApplies
  <2>4. CASE UNCHANGED checkpoint
    BY <2>0, <2>1, <2>4, ResolvedKept
  <2> QED
    BY <2>0, <2>2, <2>3, <2>4, ResolvedKept
<1>2. HonestInv /\ [PipelineNext]_pipelineVars => HonestInv'
  BY BaseStep, FreshStep, GuardStep DEF HonestInv
<1> QED
  BY <1>1, <1>2, HonestInit, PTL DEF PipelineSpec, CheckpointHonest

-----------------------------------------------------------------------------
(* Control: the state machine, the governor and the watermark *)

Capacities == [paused : BOOLEAN, pausing : BOOLEAN, resuming : BOOLEAN,
               incidents : 0..MaxAudits, audits : 0..MaxAudits, resumes : 0..MaxAudits]

ControlTypes ==
    /\ partition \in [state : PartitionStates, token : Nat]
    /\ capacity \in Capacities
    /\ proven \subseteq Positions
    /\ watermark \in [through : Positions \union {0}, token : Nat]
    /\ current \in [Controllers -> Positions \union {0}]

(* Every resume, made or under way, has an audit entry of its own. *)
ResumesAudited ==
    /\ capacity.resumes <= capacity.audits
    /\ capacity.resuming => capacity.resumes < capacity.audits

(* A controller's own position is backed like the stored one. *)
CurrentBacked == \A c \in Controllers : 1..current[c] \subseteq proven

SteerInv == ControlTypes /\ ResumesAudited /\ CurrentBacked /\ WatermarkBacked

LEMMA ControlNumbers ==
    /\ \A c \in Controllers : ControlToken[c] \in Nat
    /\ Positions \subseteq Nat
    /\ MaxAudits \in Nat /\ MaximumRange \in Nat /\ MaximumRange > 0
  BY ControlAssumption, FS_CardinalityType

(* Every non-empty set of naturals has a least element. *)
LEMMA Least ==
    ASSUME NEW T \in SUBSET Nat, T # {}
    PROVE  \E n \in T : \A m \in T : n <= m
<1>1. PICK n \in T : \A m \in T : ~(<<m, n>> \in OpToRel(<, Nat))
  BY NatLessThanWellFounded, WFMin
<1>2. \A m \in T : ~(m < n)
  BY <1>1 DEF OpToRel
<1> QED
  BY <1>2

(* WatermarkCoordinator's fold: it ends at a position that all the evidence  *)
(* from the start leads up to, whatever the evidence is.                     *)
LEMMA ContiguousFold ==
    ASSUME NEW from \in Positions \union {0}, NEW evidence \in SUBSET Positions
    PROVE  LET n == Contiguous(from, evidence) IN
           /\ n \in Positions \union {0} /\ n >= from
           /\ from + 1..n \subseteq evidence
<1> DEFINE k == Cardinality(Positions)
           T == {n \in Nat : n >= from /\ n + 1 \notin evidence}
<1>1. k \in Nat /\ Positions = 1..k
  BY ControlAssumption, FS_CardinalityType
<1> HIDE DEF k
<1>2. k \in T
  BY <1>1
<1>3. PICK n \in T : \A m \in T : n <= m
  <2>1. T \in SUBSET Nat /\ T # {}
    BY <1>2
  <2> HIDE DEF T
  <2> QED
    BY <2>1, Least
<1>4. \A i \in from + 1..n : i \in evidence
  <2> SUFFICES ASSUME NEW i \in from + 1..n, i \notin evidence
               PROVE  FALSE
    OBVIOUS
  <2>1. from \in Nat /\ n \in Nat
    BY <1>1, <1>3
  <2>2. i - 1 \in Nat /\ i - 1 >= from /\ (i - 1) + 1 = i /\ i - 1 < n
    BY <2>1
  <2>3. i - 1 \in T
    BY <2>2
  <2> QED
    BY <1>3, <2>1, <2>2, <2>3
<1>5. n \in {from} \union Positions
  <2>1. CASE n = from
    BY <2>1
  <2>2. CASE n # from
    BY <1>1, <1>3, <1>4, <2>2
  <2> QED
    BY <2>1, <2>2
<1> DEFINE P(m) == m >= from /\ from + 1..m \subseteq evidence /\ m + 1 \notin evidence
<1>6. \E m \in {from} \union Positions : P(m)
  BY <1>3, <1>4, <1>5
<1>7. Contiguous(from, evidence) = CHOOSE m \in {from} \union Positions : P(m)
  BY DEF Contiguous
<1>8. /\ Contiguous(from, evidence) \in {from} \union Positions
      /\ P(Contiguous(from, evidence))
  BY <1>6, <1>7
<1> HIDE DEF T, k
<1> QED
  BY <1>8

LEMMA SteerInit == ControlInit => SteerInv
  BY ControlNumbers DEF ControlInit, SteerInv, ControlTypes, Capacities, ResumesAudited,
     CurrentBacked, WatermarkBacked, PartitionStates, LegalPartitionTransitions

LEMMA TransitionSteers ==
    ASSUME SteerInv, NEW c \in Controllers, NEW to \in PartitionStates, NEW ready \in BOOLEAN,
           transition(c, to, ready)
    PROVE  SteerInv'
  BY ControlNumbers DEF SteerInv, ControlTypes, ResumesAudited, CurrentBacked, WatermarkBacked,
     transition

LEMMA CapacitySteers ==
    ASSUME SteerInv, CapacityNext
    PROVE  SteerInv'
<1>1. /\ capacity \in Capacities /\ ResumesAudited
      /\ UNCHANGED <<partition, proven, watermark, current>>
  BY DEF SteerInv, ControlTypes, CapacityNext, admitOverCeiling, createIncident, auditResume,
     resumePartition, GovernorCrash
<1>0. /\ capacity.incidents \in Nat /\ capacity.audits \in Nat /\ capacity.resumes \in Nat
      /\ capacity.incidents <= MaxAudits /\ capacity.audits <= MaxAudits
      /\ capacity.resuming \in BOOLEAN
  BY <1>1, ControlNumbers DEF Capacities
<1>2. ASSUME admitOverCeiling
      PROVE  capacity' \in Capacities /\ ResumesAudited'
  BY <1>1, <1>2 DEF admitOverCeiling, Capacities, ResumesAudited
<1>6. ASSUME createIncident
      PROVE  capacity' \in Capacities /\ ResumesAudited'
  <2> DEFINE n == capacity.incidents + 1
  <2>1. n \in 0..MaxAudits
    BY <1>0, <1>6, ControlNumbers DEF createIncident
  <2>2. capacity' = [capacity EXCEPT !.incidents = n, !.pausing = FALSE]
    BY <1>6 DEF createIncident
  <2> HIDE DEF n
  <2> QED
    BY <1>1, <2>1, <2>2 DEF Capacities, ResumesAudited
<1>3. ASSUME auditResume
      PROVE  capacity' \in Capacities /\ ResumesAudited'
  <2> DEFINE n == capacity.audits + 1
  <2>1. n \in 0..MaxAudits /\ capacity.resumes < n
    BY <1>0, <1>1, <1>3, ControlNumbers DEF auditResume, ResumesAudited
  <2>2. capacity' = [capacity EXCEPT !.audits = n, !.resuming = TRUE]
    BY <1>3 DEF auditResume
  <2> HIDE DEF n
  <2>3. /\ capacity' \in Capacities
        /\ capacity'.audits = n /\ capacity'.resumes = capacity.resumes
    BY <1>1, <2>1, <2>2 DEF Capacities
  <2> QED
    BY <1>0, <2>1, <2>3 DEF ResumesAudited
<1>4. ASSUME resumePartition
      PROVE  capacity' \in Capacities /\ ResumesAudited'
  <2> DEFINE n == capacity.resumes + 1
  <2>1. n \in 0..MaxAudits /\ n <= capacity.audits
    BY <1>0, <1>1, <1>4, ControlNumbers DEF resumePartition, ResumesAudited
  <2>2. capacity' = [capacity EXCEPT !.paused = FALSE, !.resumes = n, !.resuming = FALSE]
    BY <1>4 DEF resumePartition
  <2> HIDE DEF n
  <2>3. /\ capacity' \in Capacities /\ capacity'.resuming = FALSE
        /\ capacity'.resumes = n /\ capacity'.audits = capacity.audits
    BY <1>1, <2>1, <2>2 DEF Capacities
  <2> QED
    BY <2>1, <2>3 DEF ResumesAudited
<1>5. ASSUME GovernorCrash
      PROVE  capacity' \in Capacities /\ ResumesAudited'
  BY <1>1, <1>5, ControlNumbers DEF GovernorCrash, Capacities, ResumesAudited
<1> QED
  BY <1>1, <1>2, <1>3, <1>4, <1>5, <1>6
     DEF SteerInv, ControlTypes, CurrentBacked, WatermarkBacked, CapacityNext

LEMMA AdvanceSteers ==
    ASSUME SteerInv, NEW c \in Controllers, NEW evidence \in SUBSET proven, advance(c, evidence)
    PROVE  SteerInv'
<1> DEFINE n == Contiguous(current[c], evidence)
<1>1. current[c] \in Positions \union {0} /\ evidence \in SUBSET Positions
  BY DEF SteerInv, ControlTypes
<1>2. n \in Positions \union {0} /\ n >= current[c] /\ current[c] + 1..n \subseteq evidence
  BY <1>1, ContiguousFold
<1>3. /\ watermark' = [through |-> n, token |-> ControlToken[c]]
      /\ current' = [current EXCEPT ![c] = n]
      /\ UNCHANGED <<partition, capacity, proven, planner>>
  BY DEF advance
<1> HIDE DEF n
<1>4. n \in Nat /\ current[c] \in Nat
  <2>1. Positions \union {0} \subseteq Nat
    BY ControlNumbers
  <2> QED
    BY <1>1, <1>2, <2>1
<1>5. 1..n \subseteq proven
  BY <1>2, <1>4 DEF SteerInv, CurrentBacked
<1> QED
  BY <1>2, <1>3, <1>5, ControlNumbers DEF SteerInv, ControlTypes, ResumesAudited, CurrentBacked,
     WatermarkBacked

LEMMA SteerStep == SteerInv /\ [ControlNext]_controlVars => SteerInv'
<1> SUFFICES ASSUME SteerInv, [ControlNext]_controlVars
             PROVE  SteerInv'
  OBVIOUS
<1>1. CASE PartitionNext
  BY <1>1, TransitionSteers DEF PartitionNext
<1>2. CASE CapacityNext
  BY <1>2, CapacitySteers
<1>3. ASSUME NEW p \in Positions, ObservePosition(p)
      PROVE  SteerInv'
  BY <1>3 DEF ObservePosition, SteerInv, ControlTypes, ResumesAudited, CurrentBacked,
     WatermarkBacked
<1>4. ASSUME NEW c \in Controllers, NEW p \in Positions \union {0}, Reload(c, p)
      PROVE  SteerInv'
  BY <1>4 DEF Reload, SteerInv, ControlTypes, ResumesAudited, CurrentBacked, WatermarkBacked
<1>5. CASE PlannerNext \/ UNCHANGED controlVars
  BY <1>5 DEF PlannerNext, planStep, controlVars, SteerInv, ControlTypes, ResumesAudited,
     CurrentBacked, WatermarkBacked
<1> QED
  BY <1>1, <1>2, <1>3, <1>4, <1>5, AdvanceSteers DEF ControlNext, WatermarkNext

(* No step of a deposed controller moves the partition, LIVE is entered from *)
(* SYNCING alone, and a capacity pause is lifted only by a resume with an    *)
(* audit entry of its own, for any tokens and any number of controllers,     *)
(* pauses, resumes and crashes of the governor.                              *)
THEOREM StepsLegal == ControlSpec => ControlStepsLegal
<1>1. SteerInv /\ [ControlNext]_controlVars
          => [PartitionFenced /\ PauseLiftedOnlyAudited]_controlVars
  <2> SUFFICES ASSUME SteerInv, ControlNext
               PROVE  PartitionFenced /\ PauseLiftedOnlyAudited
    OBVIOUS
  <2>1. CASE PartitionNext
    <3>1. PICK c \in Controllers, to \in PartitionStates, ready \in BOOLEAN :
              transition(c, to, ready)
      BY <2>1 DEF PartitionNext
    <3>2. partition.token \in Nat /\ ControlToken[c] \in Nat /\ partition.state \in PartitionStates
      BY ControlNumbers DEF SteerInv, ControlTypes
    <3>3. "LIVE" \in LegalPartitionTransitions[partition.state] => partition.state = "SYNCING"
      BY <3>2 DEF LegalPartitionTransitions, PartitionStates
    <3> QED
      BY <3>1, <3>2, <3>3 DEF transition, PartitionFenced, PauseLiftedOnlyAudited
  <2>2. CASE CapacityNext
    BY <2>2, ControlNumbers DEF CapacityNext, admitOverCeiling, createIncident, auditResume,
       resumePartition, GovernorCrash, SteerInv, ControlTypes, Capacities, ResumesAudited,
       PartitionFenced, PauseLiftedOnlyAudited
  <2>3. CASE WatermarkNext \/ PlannerNext
    BY <2>3 DEF WatermarkNext, ObservePosition, advance, Reload, PlannerNext, planStep,
       PartitionFenced, PauseLiftedOnlyAudited
  <2> QED
    BY <2>1, <2>2, <2>3 DEF ControlNext
<1> QED
  BY <1>1, SteerInit, SteerStep, PTL DEF ControlSpec, ControlStepsLegal

-----------------------------------------------------------------------------
(* Control: the backfill plan *)

Requests == [gaps : GapLists, limit : JobLimits]
GapIndexes == 1..Len(request.gaps)
Jobs == [gap : GapIndexes, first : Int, last : Int]

PlannerTypes ==
    /\ request \in Requests
    /\ planner \in [gap : GapIndexes, next : Int, jobs : SUBSET Jobs,
                    state : {"running", "done", "blocked", "refused"}]
    /\ IsFiniteSet(planner.jobs)

(* A job is a piece of its gap, no wider than the range. *)
JobFits(j) ==
    /\ request.gaps[j.gap].first <= j.first /\ j.first <= j.last
    /\ j.last <= request.gaps[j.gap].last /\ j.last - j.first < MaximumRange

(* The plan works through the gaps in order, each from its start. *)
PlanOrdered ==
    /\ planner.next >= request.gaps[planner.gap].first
    /\ \A j \in planner.jobs :
           /\ JobFits(j) /\ j.gap <= planner.gap
           /\ j.gap = planner.gap => j.last < planner.next
    /\ \A j, k \in planner.jobs : j # k /\ j.gap = k.gap => j.last < k.first \/ k.last < j.first

(* Position x of gap i is in a job. *)
Planned(i, x) == \E j \in planner.jobs : j.gap = i /\ x \in j.first..j.last

GapPlanned(i) == \A x \in request.gaps[i].first..request.gaps[i].last : Planned(i, x)

(* Nothing behind the plan's position is left out, unless the job bound cut  *)
(* the list short.                                                           *)
PlanCovers == planner.state \in {"running", "done"} =>
    /\ \A x \in request.gaps[planner.gap].first..request.gaps[planner.gap].last :
           x < planner.next => Planned(planner.gap, x)
    /\ Cardinality(planner.jobs) < request.limit =>
           \A i \in GapIndexes : i < planner.gap => GapPlanned(i)
    /\ planner.state = "done" =>
           /\ planner.gap = Len(request.gaps)
           /\ \/ planner.next > request.gaps[planner.gap].last
              \/ Cardinality(planner.jobs) >= request.limit

(* The jobs keep to the bound, and what lies in front of one is in another. *)
FrontPlanned(g, first) ==
    /\ \A i \in GapIndexes : i < g => GapPlanned(i)
    /\ \A x \in request.gaps[g].first..request.gaps[g].last : x < first => Planned(g, x)

PlanBounded ==
    /\ Cardinality(planner.jobs) <= request.limit
    /\ \A j \in planner.jobs : FrontPlanned(j.gap, j.first)

PlanInv == PlannerTypes /\ PlanOrdered /\ PlanCovers /\ PlanBounded

LEMMA GapsTyped ==
    ASSUME request \in Requests
    PROVE  /\ request.limit \in Nat /\ request.limit > 0
           /\ Len(request.gaps) \in Nat /\ 1 \in GapIndexes /\ DOMAIN request.gaps = GapIndexes
           /\ \A i \in GapIndexes : /\ request.gaps[i].first \in Int
                                     /\ request.gaps[i].last \in Int
<1> DEFINE Row == [first : Int, last : Int]
<1>1. request.gaps \in Seq(Row) /\ Len(request.gaps) > 0
  BY ControlAssumption DEF Requests
<1>2. \A row \in Row : row.first \in Int /\ row.last \in Int
  OBVIOUS
<1> HIDE DEF Row
<1>3. /\ Len(request.gaps) \in Nat /\ DOMAIN request.gaps = GapIndexes
      /\ \A i \in GapIndexes : request.gaps[i] \in Row
  BY <1>1 DEF GapIndexes
<1>4. request.limit \in Nat /\ request.limit > 0
  <2>1. request.limit \in JobLimits
    BY DEF Requests
  <2>2. JobLimits \subseteq Nat \ {0}
    BY ControlAssumption, Zenon
  <2>3. \A n \in Nat \ {0} : n \in Nat /\ n > 0
    OBVIOUS
  <2> QED
    BY <2>1, <2>2, <2>3, Zenon
<1> QED
  BY <1>1, <1>2, <1>3, <1>4 DEF GapIndexes

LEMMA PlanInit == ControlInit => PlanInv
<1> SUFFICES ASSUME ControlInit
             PROVE  PlanInv
  OBVIOUS
<1>1. /\ planner = [gap |-> 1, next |-> request.gaps[1].first, jobs |-> {}, state |-> "running"]
      /\ request \in Requests
  BY DEF ControlInit, Requests
<1>2. IsFiniteSet({}) /\ Cardinality({}) = 0
  BY FS_EmptySet
<1>3. PlannerTypes
  BY <1>1, <1>2, GapsTyped DEF PlannerTypes
<1>4. PlanOrdered /\ PlanCovers /\ PlanBounded
  BY <1>1, <1>2, GapsTyped DEF PlanOrdered, PlanCovers, PlanBounded, GapIndexes
<1> QED
  BY <1>3, <1>4 DEF PlanInv

(* What a step that leaves the request alone leaves alone with it. *)
LEMMA RequestKept ==
    ASSUME PlanInv, request' = request
    PROVE  /\ GapIndexes' = GapIndexes /\ Jobs' = Jobs /\ request \in Requests
           /\ \A j : JobFits(j)' <=> JobFits(j)
  BY DEF GapIndexes, Jobs, JobFits, PlanInv, PlannerTypes

(* One more job: the chunk that starts at the plan's position. *)
LEMMA AdmittedPlans ==
    ASSUME PlanInv, request' = request, planner.state = "running",
           planner.next <= request.gaps[planner.gap].last,
           Cardinality(planner.jobs) < request.limit,
           planner' = [planner EXCEPT !.next = @ + MaximumRange, !.jobs = @ \union
                          {[gap |-> planner.gap, first |-> planner.next,
                            last |-> ChunkEnd(planner.next, request.gaps[planner.gap].last)]}]
    PROVE  PlanInv'
<1> DEFINE last == request.gaps[planner.gap].last
           end == ChunkEnd(planner.next, last)
           new == [gap |-> planner.gap, first |-> planner.next, last |-> end]
<1>0. /\ GapIndexes' = GapIndexes /\ Jobs' = Jobs /\ request \in Requests
      /\ \A j : JobFits(j)' <=> JobFits(j)
  BY RequestKept
<1>1. /\ planner.gap \in GapIndexes /\ planner.next \in Int /\ planner.jobs \subseteq Jobs
      /\ last \in Int /\ MaximumRange \in Nat /\ MaximumRange > 0
      /\ request.gaps[planner.gap].first \in Int /\ planner.next <= last
  BY GapsTyped, ControlNumbers DEF PlanInv, PlannerTypes
<1>2. /\ end \in Int /\ planner.next <= end /\ end <= last
      /\ end - planner.next < MaximumRange /\ end < planner.next + MaximumRange
      /\ end = last \/ end = planner.next + MaximumRange - 1
  BY <1>1 DEF ChunkEnd
<1> HIDE DEF end
<1>3. new \in Jobs /\ new.gap = planner.gap /\ new.first = planner.next /\ new.last = end
  BY <1>1, <1>2 DEF Jobs
<1>4. /\ planner'.gap = planner.gap /\ planner'.next = planner.next + MaximumRange
      /\ planner'.jobs = planner.jobs \union {new} /\ planner'.state = "running"
  BY DEF end, PlanInv, PlannerTypes
<1> HIDE DEF new
<1>5. PlannerTypes'
  <2>1. IsFiniteSet(planner.jobs \union {new})
    BY FS_AddElement DEF PlanInv, PlannerTypes
  <2>2. planner' \in [gap : GapIndexes, next : Int, jobs : SUBSET Jobs,
                      state : {"running", "done", "blocked", "refused"}]
    <3> DEFINE n == planner.next + MaximumRange
               jobs == planner.jobs \union {new}
    <3>1. n \in Int /\ jobs \in SUBSET Jobs
      BY <1>1, <1>3
    <3>2. planner' = [planner EXCEPT !.next = n, !.jobs = jobs]
      BY DEF new, end
    <3> HIDE DEF n, jobs
    <3> QED
      BY <3>1, <3>2 DEF PlanInv, PlannerTypes
  <2> QED
    BY <1>0, <1>4, <2>1, <2>2 DEF PlannerTypes
<1>6. \A j \in planner.jobs : /\ j.gap \in GapIndexes /\ j.first \in Int /\ j.last \in Int
                              /\ JobFits(j) /\ j.gap <= planner.gap
                              /\ j.gap = planner.gap => j.last < planner.next
  BY <1>1 DEF PlanInv, PlanOrdered, Jobs
<1>7. PlanOrdered'
  <2>1. JobFits(new)
    BY <1>1, <1>2, <1>3 DEF JobFits, PlanInv, PlanOrdered
  <2>2. planner'.next >= request.gaps[planner'.gap].first
    BY <1>1, <1>4 DEF PlanInv, PlanOrdered
  <2>3. \A j \in planner'.jobs : /\ JobFits(j) /\ j.gap <= planner'.gap
                                 /\ j.gap = planner'.gap => j.last < planner'.next
    BY <1>0, <1>1, <1>2, <1>3, <1>4, <1>6, <2>1, GapsTyped DEF GapIndexes
  <2>4. \A j, k \in planner'.jobs :
            j # k /\ j.gap = k.gap => j.last < k.first \/ k.last < j.first
    BY <1>1, <1>2, <1>3, <1>4, <1>6 DEF PlanInv, PlanOrdered
  <2> QED
    BY <1>0, <2>2, <2>3, <2>4 DEF PlanOrdered
<1>8. \A i, x : Planned(i, x) => Planned(i, x)'
  BY <1>4 DEF Planned
<1>9. PlanCovers'
  <2>1. ASSUME NEW x \in request.gaps[planner.gap].first..last, x < planner'.next
        PROVE  Planned(planner.gap, x)'
    <3>1. CASE x < planner.next
      BY <1>8, <3>1 DEF PlanInv, PlanCovers
    <3>2. CASE ~(x < planner.next)
      <4>1. x \in new.first..new.last
        BY <1>1, <1>2, <1>3, <1>4, <2>1, <3>2
      <4> QED
        BY <1>3, <1>4, <4>1 DEF Planned
    <3> QED
      BY <3>1, <3>2
  <2>2. \A i \in GapIndexes : i < planner.gap => GapPlanned(i)'
    BY <1>8 DEF PlanInv, PlanCovers, GapPlanned
  <2> QED
    BY <1>0, <1>4, <2>1, <2>2 DEF PlanCovers
<1>10. PlanBounded'
  <2>1. Cardinality(planner'.jobs) <= request.limit
    <3>1. IsFiniteSet(planner.jobs) /\ Cardinality(planner.jobs) \in Nat /\ request.limit \in Nat
      BY <1>0, GapsTyped, FS_CardinalityType DEF PlanInv, PlannerTypes
    <3>2. \/ Cardinality(planner.jobs \union {new}) = Cardinality(planner.jobs)
          \/ Cardinality(planner.jobs \union {new}) = Cardinality(planner.jobs) + 1
      BY <3>1, FS_AddElement
    <3> QED
      BY <1>4, <3>1, <3>2
  <2>2. \A i \in GapIndexes : GapPlanned(i) => GapPlanned(i)'
    BY <1>8 DEF GapPlanned
  <2>3. \A g, first : FrontPlanned(g, first) => FrontPlanned(g, first)'
    BY <1>0, <1>8, <2>2 DEF FrontPlanned
  <2>4. FrontPlanned(planner.gap, planner.next)
    BY DEF PlanInv, PlanCovers, FrontPlanned
  <2>5. \A j \in planner'.jobs : j \in planner.jobs \/ j = new
    BY <1>4
  <2>6. \A j \in planner.jobs : FrontPlanned(j.gap, j.first)
    BY DEF PlanInv, PlanBounded
  <2>7. FrontPlanned(new.gap, new.first)
    BY <1>3, <2>4
  <2>8. \A j \in planner'.jobs : FrontPlanned(j.gap, j.first)'
    BY <2>3, <2>5, <2>6, <2>7, Zenon
  <2> QED
    BY <2>1, <2>8 DEF PlanBounded
<1> QED
  BY <1>5, <1>7, <1>9, <1>10 DEF PlanInv

(* The end of a gap, or of the jobs the plan may hold. *)
LEMMA GapEndPlans ==
    ASSUME PlanInv, request' = request, planner.state = "running",
           \/ planner.next > request.gaps[planner.gap].last
           \/ Cardinality(planner.jobs) >= request.limit,
           planner' = IF planner.gap < Len(request.gaps)
                      THEN [planner EXCEPT !.gap = @ + 1,
                                           !.next = request.gaps[planner.gap + 1].first]
                      ELSE [planner EXCEPT !.state = "done"]
    PROVE  PlanInv'
<1>0. /\ GapIndexes' = GapIndexes /\ Jobs' = Jobs /\ request \in Requests
      /\ \A j : JobFits(j)' <=> JobFits(j)
  BY RequestKept
<1>1. /\ planner.gap \in GapIndexes /\ planner.next \in Int /\ planner.jobs \subseteq Jobs
      /\ planner.gap \in Nat /\ Len(request.gaps) \in Nat /\ planner.gap <= Len(request.gaps)
      /\ request.gaps[planner.gap].last \in Int /\ request.limit \in Nat
      /\ Cardinality(planner.jobs) \in Nat
  BY GapsTyped, ControlNumbers, FS_CardinalityType DEF PlanInv, PlannerTypes, GapIndexes
<1>2. \A j \in planner.jobs : j.gap \in GapIndexes /\ JobFits(j) /\ j.gap <= planner.gap
  BY <1>1 DEF PlanInv, PlanOrdered, Jobs
<1>3. Cardinality(planner.jobs) < request.limit => GapPlanned(planner.gap)
  BY <1>0, <1>1, GapsTyped DEF GapPlanned, PlanInv, PlanCovers
<1>4. CASE planner.gap < Len(request.gaps)
  <2> DEFINE g == planner.gap + 1
             n == request.gaps[g].first
  <2>1. g \in GapIndexes /\ n \in Int
    BY <1>0, <1>1, <1>4, GapsTyped DEF GapIndexes
  <2>2. /\ planner' = [planner EXCEPT !.gap = g, !.next = n]
    BY <1>4
  <2>3. \A i \in GapIndexes : i < g <=> i < planner.gap \/ i = planner.gap
    BY <1>1 DEF GapIndexes
  <2>4. \A j \in planner.jobs : j.gap <= g /\ j.gap # g
    BY <1>1, <1>2 DEF GapIndexes
  <2> HIDE DEF g
  <2>5. /\ planner'.gap = g /\ planner'.next = n /\ planner'.jobs = planner.jobs
        /\ planner'.state = "running" /\ PlannerTypes'
    BY <1>0, <2>1, <2>2 DEF PlanInv, PlannerTypes
  <2>6. PlanOrdered'
    BY <1>0, <1>2, <2>1, <2>4, <2>5 DEF PlanInv, PlanOrdered
  <2>7. \A i, x : Planned(i, x)' <=> Planned(i, x)
    BY <2>5 DEF Planned
  <2>8. PlanCovers'
    <3>1. \A x \in request.gaps[g].first..request.gaps[g].last : ~(x < n)
      BY <1>0, <2>1, GapsTyped
    <3>2. Cardinality(planner.jobs) < request.limit =>
              \A i \in GapIndexes : i < g => GapPlanned(i)'
      BY <1>3, <2>3, <2>7 DEF PlanInv, PlanCovers, GapPlanned
    <3> QED
      BY <1>0, <2>5, <3>1, <3>2 DEF PlanCovers
  <2>9. PlanBounded'
    BY <1>0, <2>5, <2>7 DEF PlanInv, PlanBounded, FrontPlanned, GapPlanned
  <2> QED
    BY <2>5, <2>6, <2>8, <2>9 DEF PlanInv
<1>5. CASE ~(planner.gap < Len(request.gaps))
  <2>1. /\ planner'.gap = planner.gap /\ planner'.next = planner.next
        /\ planner'.jobs = planner.jobs /\ planner'.state = "done" /\ PlannerTypes'
    BY <1>0, <1>5 DEF PlanInv, PlannerTypes
  <2>2. PlanOrdered'
    BY <1>0, <2>1 DEF PlanInv, PlanOrdered
  <2>3. \A i, x : Planned(i, x)' <=> Planned(i, x)
    BY <2>1 DEF Planned
  <2>4. PlanCovers'
    BY <1>0, <1>1, <1>5, <2>1, <2>3 DEF PlanInv, PlanCovers, GapPlanned
  <2>5. PlanBounded'
    BY <1>0, <2>1, <2>3 DEF PlanInv, PlanBounded, FrontPlanned, GapPlanned
  <2> QED
    BY <2>1, <2>2, <2>4, <2>5 DEF PlanInv
<1> QED
  BY <1>4, <1>5

LEMMA PlanStep == PlanInv /\ [ControlNext]_controlVars => PlanInv'
<1> SUFFICES ASSUME PlanInv, [ControlNext]_controlVars
             PROVE  PlanInv'
  OBVIOUS
<1>0. request' = request
  BY DEF ControlNext, controlVars
<1>1. CASE UNCHANGED planner
  BY <1>0, <1>1, RequestKept
  DEF PlanInv, PlannerTypes, PlanOrdered, PlanCovers, PlanBounded, FrontPlanned, GapPlanned,
      Planned
<1>2. ASSUME NEW admitted \in BOOLEAN, planStep(admitted)
      PROVE  PlanInv'
  <2>1. ASSUME NEW state \in {"blocked", "refused"},
               planner' = [planner EXCEPT !.state = state, !.jobs = {}]
        PROVE  PlanInv'
    <3>0. /\ GapIndexes' = GapIndexes /\ Jobs' = Jobs /\ request \in Requests
          /\ request.limit \in Nat
      BY <1>0, RequestKept, GapsTyped
    <3>1. /\ planner'.gap = planner.gap /\ planner'.next = planner.next
          /\ planner'.jobs = {} /\ planner'.state = state
      BY <2>1 DEF PlanInv, PlannerTypes
    <3>2. planner' \in [gap : GapIndexes, next : Int, jobs : SUBSET Jobs,
                        state : {"running", "done", "blocked", "refused"}]
      BY <2>1 DEF PlanInv, PlannerTypes
    <3>3. PlannerTypes'
      BY <1>0, <3>0, <3>1, <3>2, FS_EmptySet DEF PlannerTypes
    <3>4. PlanBounded'
      BY <1>0, <3>0, <3>1, FS_EmptySet DEF PlanBounded
    <3> QED
      BY <1>0, <3>1, <3>3, <3>4 DEF PlanInv, PlanOrdered, PlanCovers
  <2>2. /\ request.limit \in Nat /\ Cardinality(planner.jobs) \in Nat
    BY GapsTyped, FS_CardinalityType DEF PlanInv, PlannerTypes
  <2> QED
    BY <1>0, <1>2, <2>1, <2>2, AdmittedPlans, GapEndPlans DEF planStep, JobsAtLimit
<1> QED
  BY <1>1, <1>2 DEF ControlNext, PartitionNext, transition, CapacityNext, admitOverCeiling,
     createIncident, auditResume, resumePartition, GovernorCrash, WatermarkNext, ObservePosition,
     advance, Reload, PlannerNext, controlVars

LEMMA PlanIsExact == PlanInv => PlanExact
<1> SUFFICES ASSUME PlanInv
             PROVE  PlanExact
  OBVIOUS
<1>1. ASSUME NEW j \in planner.jobs
      PROVE  /\ j.gap \in GapIndexes /\ j.first \in Int /\ j.last \in Int /\ JobFits(j)
             /\ request.gaps[j.gap].first \in Int /\ request.gaps[j.gap].last \in Int
             /\ j.first..j.last \subseteq request.gaps[j.gap].first..request.gaps[j.gap].last
             /\ Cardinality(j.first..j.last) \in 1..MaximumRange
  <2>1. /\ j.gap \in GapIndexes /\ j.first \in Int /\ j.last \in Int /\ JobFits(j)
    BY DEF PlanInv, PlannerTypes, PlanOrdered, Jobs
  <2>2. request.gaps[j.gap].first \in Int /\ request.gaps[j.gap].last \in Int
    BY <2>1, GapsTyped DEF PlanInv, PlannerTypes
  <2>3. j.first..j.last \subseteq request.gaps[j.gap].first..request.gaps[j.gap].last
    BY <2>1, <2>2 DEF JobFits
  <2>4. Cardinality(j.first..j.last) = j.last - j.first + 1
    BY <2>1, FS_Interval DEF JobFits
  <2>5. j.last - j.first + 1 \in 1..MaximumRange
    BY <2>1, ControlNumbers DEF JobFits
  <2> QED
    BY <2>1, <2>2, <2>3, <2>4, <2>5
<1>2. ASSUME NEW j \in planner.jobs, NEW k \in planner.jobs, j # k, j.gap = k.gap
      PROVE  (j.first..j.last) \cap (k.first..k.last) = {}
  BY <1>1, <1>2 DEF PlanInv, PlanOrdered
<1>3. ASSUME planner.state = "done", Cardinality(planner.jobs) < request.limit,
             NEW i \in GapIndexes
      PROVE  GapPlanned(i)
  <2>0. /\ Cardinality(planner.jobs) \in Nat /\ request.limit \in Nat
        /\ planner.gap \in GapIndexes /\ planner.next \in Int
        /\ i \in Nat /\ planner.gap \in Nat /\ Len(request.gaps) \in Nat /\ i <= Len(request.gaps)
        /\ request.gaps[planner.gap].last \in Int /\ request.gaps[planner.gap].first \in Int
    BY FS_CardinalityType, GapsTyped DEF PlanInv, PlannerTypes, GapIndexes
  <2>1. planner.gap = Len(request.gaps) /\ planner.next > request.gaps[planner.gap].last
    BY <1>3, <2>0 DEF PlanInv, PlanCovers
  <2>2. CASE i < planner.gap
    BY <1>3, <2>2 DEF PlanInv, PlanCovers
  <2>3. CASE ~(i < planner.gap)
    BY <1>3, <2>0, <2>1, <2>3 DEF PlanInv, PlanCovers, GapPlanned
  <2> QED
    BY <2>2, <2>3
<1>4. DOMAIN request.gaps = GapIndexes
  BY GapsTyped DEF PlanInv, PlannerTypes
<1>5. ASSUME NEW j \in planner.jobs, NEW i \in 1..j.gap,
             NEW x \in request.gaps[i].first..request.gaps[i].last, i < j.gap \/ x < j.first
      PROVE  Planned(i, x)
  <2>1. i \in GapIndexes /\ j.gap \in GapIndexes /\ (i < j.gap \/ i = j.gap)
    BY <1>1, GapsTyped DEF GapIndexes, PlanInv, PlannerTypes
  <2>2. CASE i < j.gap
    BY <2>1, <2>2 DEF PlanInv, PlanBounded, FrontPlanned, GapPlanned
  <2>3. CASE i = j.gap /\ x < j.first
    BY <2>3 DEF PlanInv, PlanBounded, FrontPlanned
  <2> QED
    BY <1>1, <1>5, <2>1, <2>2, <2>3 DEF GapIndexes
<1>6. Cardinality(planner.jobs) <= request.limit
  BY DEF PlanInv, PlanBounded
<1> QED
  BY <1>1, <1>2, <1>3, <1>4, <1>5, <1>6 DEF PlanExact, GapPlanned, Planned

(* The stored watermark never passes a hole, whatever position a restarted   *)
(* or deposed controller folds from and whatever evidence it passes, and a   *)
(* backfill plan consists of disjoint pieces of its gaps, none wider than    *)
(* the range, that leave nothing out below the job bound: for every list of  *)
(* gaps, range and bound, every admission verdict and any number of          *)
(* positions and controllers.                                                *)
THEOREM CoverageIsExact == ControlSpec => []CoverageExact
<1>1. SteerInv /\ PlanInv => CoverageExact
  BY PlanIsExact DEF SteerInv, CoverageExact
<1> QED
  BY <1>1, SteerInit, SteerStep, PlanInit, PlanStep, PTL DEF ControlSpec

(* The rows of the partition, the governor, the watermark and the planner    *)
(* keep their types, and the audited counts their bound.                     *)
THEOREM ControlTyped == ControlSpec => []ControlTypeOK
<1>1. SteerInv /\ PlanInv => ControlTypeOK
  BY DEF SteerInv, ControlTypes, Capacities, PlanInv, PlannerTypes, ControlTypeOK
<1> QED
  BY <1>1, SteerInit, SteerStep, PlanInit, PlanStep, PTL DEF ControlSpec

=============================================================================
