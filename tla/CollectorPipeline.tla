------------------------- MODULE CollectorPipeline -------------------------
(* The collector's shard pipeline: the leader lease, the loop of             *)
(* CollectorApplication.run over one scope (recover, then per message        *)
(* append, attribute, emit, checkpoint), the fenced checkpoint table, the    *)
(* gap table and the canonical event keys.  The ports of the loop are bound  *)
(* to the classes the repository offers for them: recover to                 *)
(* CollectorCheckpointStore.reconnect, appendImmutable to the duplicate      *)
(* guard, checkpoint to CollectorLeaderLease.commit.  A message is the slot  *)
(* it belongs to: a slot may have several events, each with a key of its own *)
(* and a commit at the same cursor, and a slot counts as recorded, as        *)
(* attributed and as emitted from its first event on.  The cursor says no    *)
(* more than that: a run that stops inside a slot and a next one that starts *)
(* behind it leave the slot's other events out.                              *)
(* Every await is a place where another collector, a gap resolver, the       *)
(* expiry of the lease, an error or a crash may come between.                *)
EXTENDS Integers, FiniteSets

CONSTANTS
    Collectors,   \* collector processes, each with its own holder id
    Resolvers,    \* callers of resolveGapStatus
    GapIds,       \* bound on registered gaps
    MaxSlot,      \* bound on the slots of the shard
    MaxToken      \* bound on lease acquisitions

ASSUME PipelineAssumption == {MaxSlot, MaxToken} \subseteq Nat

VARIABLES
    leaderLease,   \* core_single_flight_leases row: holder, unexpired, last token
    checkpoint,    \* collector_checkpoints row; token 0 stands for no row
    collectorGaps, \* collector_gaps: id -> interval and recovery_status
    eventKeys,     \* canonical_event_keys, by slot
    attributed,    \* slots with a first-seen attribution
    featured,      \* slots whose feature update was emitted
    app,           \* per collector: where its run stands and what it remembers
    resolver       \* per resolver: the write it decided on, not yet made

pipelineVars == <<leaderLease, checkpoint, collectorGaps, eventKeys, attributed,
                  featured, app, resolver>>

Slots == 1..MaxSlot
Resolved == {"RECOVERED", "DECLARED_UNRECOVERABLE"}
NoGap == [first |-> 1, last |-> 0, status |-> "ABSENT"]
NoDecision == [gap |-> 0, to |-> "NONE"]
Stopped == [pc |-> "down", token |-> 0, slot |-> 1, seen |-> 0, returned |-> FALSE]

(* What the durable tables say of a slot. *)
Processed == eventKeys \cap attributed \cap featured
Covered(statuses) == {s \in Slots : \E g \in GapIds :
    /\ collectorGaps[g].status \in statuses
    /\ s \in collectorGaps[g].first..collectorGaps[g].last}

PipelineTypeOK ==
    /\ leaderLease \in [holder : Collectors \union {"nobody"}, live : BOOLEAN, token : 0..MaxToken]
    /\ checkpoint \in [token : 0..MaxToken, cursor : 0..MaxSlot]
    /\ \A g \in GapIds : collectorGaps[g] = NoGap
           \/ /\ collectorGaps[g].status \in {"UNRECOVERED", "RECOVERING"} \union Resolved
              /\ collectorGaps[g].first <= collectorGaps[g].last
    /\ eventKeys \subseteq Slots /\ attributed \subseteq eventKeys /\ featured \subseteq attributed
    /\ \A c \in Collectors :
           /\ app[c].pc \in {"down", "load", "register", "stream", "append", "attribute",
                             "feature", "guard", "write"}
           /\ app[c].token <= leaderLease.token
           /\ app[c].slot \in Slots \union {1}

PipelineInit ==
    /\ leaderLease = [holder |-> "nobody", live |-> FALSE, token |-> 0]
    /\ checkpoint = [token |-> 0, cursor |-> 0]
    /\ collectorGaps = [g \in GapIds |-> NoGap]
    /\ eventKeys = {} /\ attributed = {} /\ featured = {}
    /\ app = [c \in Collectors |-> Stopped]
    /\ resolver = [r \in Resolvers |-> NoDecision]

-----------------------------------------------------------------------------
(* The lease.  The row is locked, so acquire is one step; the holder of an   *)
(* unexpired lease may take it again, and every grant draws a new token.     *)
(* Nothing releases it: a lease ends by its TTL.                             *)
acquire(c) ==
    /\ app[c].pc = "down"
    /\ leaderLease.token < MaxToken
    /\ ~(leaderLease.live /\ leaderLease.holder # c)
    /\ leaderLease' = [holder |-> c, live |-> TRUE, token |-> leaderLease.token + 1]
    /\ app' = [app EXCEPT ![c] = [Stopped EXCEPT
           !.pc = "load", !.token = leaderLease.token + 1]]
    /\ UNCHANGED <<checkpoint, collectorGaps, eventKeys, attributed, featured, resolver>>

LeaseExpires ==
    /\ leaderLease.live
    /\ leaderLease' = [leaderLease EXCEPT !.live = FALSE]
    /\ UNCHANGED <<checkpoint, collectorGaps, eventKeys, attributed, featured, app, resolver>>

-----------------------------------------------------------------------------
(* One run over the scope. *)
Step(c, from, to) == app[c].pc = from /\ app' = [app EXCEPT ![c].pc = to]
TablesUnchanged == UNCHANGED <<leaderLease, checkpoint, collectorGaps, eventKeys, attributed,
                               featured, resolver>>

(* reconnect: read the checkpoint, then register what lies between it and    *)
(* the first slot the stream offers, which may also be an old one.           *)
load(c, observedStart) ==
    /\ app[c].pc = "load"
    /\ app' = [app EXCEPT ![c].pc = "register", ![c].slot = observedStart,
                          ![c].seen = checkpoint.cursor]
    /\ TablesUnchanged

(* Mutant: a stream that begins past the checkpoint is taken as it comes. *)
reconnectSilently(c) == Step(c, "register", "stream") /\ TablesUnchanged

reconnect(c) ==
    /\ app[c].pc = "register"
    /\ app' = [app EXCEPT ![c].pc = "stream", ![c].seen = 0]
    /\ \/ /\ app[c].slot > app[c].seen + 1
          /\ \E g \in {h \in GapIds : collectorGaps[h] = NoGap} :
                 collectorGaps' = [collectorGaps EXCEPT ![g] =
                     [first |-> app[c].seen + 1, last |-> app[c].slot - 1,
                      status |-> "UNRECOVERED"]]
       \/ app[c].slot <= app[c].seen + 1 /\ UNCHANGED collectorGaps
    /\ UNCHANGED <<leaderLease, checkpoint, eventKeys, attributed, featured, resolver>>

(* The first message is at the observed start, as reconnect was told; after  *)
(* it comes another event of the same slot, the next slot, or a later one    *)
(* when messages are lost (an earlier one is refused at the checkpoint).     *)
receive(c, slot) ==
    /\ app[c].pc = "stream"
    /\ slot = app[c].slot \/ (app[c].returned /\ slot > app[c].slot)
    /\ app' = [app EXCEPT ![c].pc = "append", ![c].slot = slot]
    /\ TablesUnchanged

(* absorb: a key that is there already is a duplicate, and the pipeline goes *)
(* on in both cases.                                                         *)
appendImmutable(c) ==
    /\ Step(c, "append", "attribute")
    /\ eventKeys' = eventKeys \union {app[c].slot}
    /\ UNCHANGED <<leaderLease, checkpoint, collectorGaps, attributed, featured, resolver>>

attributeFirstSeen(c) ==
    /\ Step(c, "attribute", "feature")
    /\ attributed' = attributed \union {app[c].slot}
    /\ UNCHANGED <<leaderLease, checkpoint, collectorGaps, eventKeys, featured, resolver>>

emitFeatureUpdate(c) ==
    /\ Step(c, "feature", "guard")
    /\ featured' = featured \union {app[c].slot}
    /\ UNCHANGED <<leaderLease, checkpoint, collectorGaps, eventKeys, attributed, resolver>>

(* commitCheckpoint, first half: the guards against the row as it is read.   *)
CheckpointAdmits(token, slot) ==
    /\ token >= checkpoint.token
    /\ token = checkpoint.token =>
           /\ slot >= checkpoint.cursor
           /\ checkpoint.cursor + 1..slot - 1 \subseteq Covered(Resolved)

commitGuard(c) ==
    /\ CheckpointAdmits(app[c].token, app[c].slot)
    /\ Step(c, "guard", "write")
    /\ TablesUnchanged

(* Mutant: the upsert trusts the guard and overwrites whatever is stored. *)
UpsertUnconditional(token, slot) == TRUE

(* Second half: the upsert carries the order again, against the row as it is *)
(* now.                                                                      *)
UpsertApplies(token, slot) ==
    \/ token > checkpoint.token
    \/ token = checkpoint.token /\ slot >= checkpoint.cursor

commitWrite(c) ==
    /\ app[c].pc = "write"
    /\ UpsertApplies(app[c].token, app[c].slot)
    /\ checkpoint' = [token |-> app[c].token, cursor |-> app[c].slot]
    /\ app' = [app EXCEPT ![c].pc = "stream", ![c].returned = TRUE]
    /\ UNCHANGED <<leaderLease, collectorGaps, eventKeys, attributed, featured, resolver>>

(* A run ends anywhere: the stream is exhausted, stop() was called, a commit *)
(* was refused, a port threw and the loop caught it, or the process died.    *)
(* What it left in the tables stays; the outcome written to the acquisition  *)
(* record is not modelled.                                                   *)
runEnds(c) ==
    /\ app[c].pc # "down"
    /\ app' = [app EXCEPT ![c] = Stopped]
    /\ TablesUnchanged

-----------------------------------------------------------------------------
(* resolveGapStatus reads without a lock and writes in a second statement.   *)
resolveRead(r, g, to) ==
    /\ resolver[r] = NoDecision
    /\ collectorGaps[g].status \in {"UNRECOVERED", "RECOVERING"}
    /\ resolver' = [resolver EXCEPT ![r] = [gap |-> g, to |-> to]]
    /\ UNCHANGED <<leaderLease, checkpoint, collectorGaps, eventKeys, attributed, featured, app>>

resolveWrite(r) ==
    /\ resolver[r] # NoDecision
    /\ collectorGaps' = [collectorGaps EXCEPT ![resolver[r].gap].status = resolver[r].to]
    /\ resolver' = [resolver EXCEPT ![r] = NoDecision]
    /\ UNCHANGED <<leaderLease, checkpoint, eventKeys, attributed, featured, app>>

PipelineNext ==
    \/ LeaseExpires
    \/ \E c \in Collectors :
           \/ acquire(c) \/ reconnect(c) \/ appendImmutable(c) \/ attributeFirstSeen(c)
           \/ emitFeatureUpdate(c) \/ commitGuard(c) \/ commitWrite(c) \/ runEnds(c)
           \/ \E s \in Slots : load(c, s) \/ receive(c, s)
    \/ \E r \in Resolvers :
           \/ resolveWrite(r)
           \/ \E g \in GapIds, to \in {"RECOVERING"} \union Resolved : resolveRead(r, g, to)

PipelineSpec == PipelineInit /\ [][PipelineNext]_pipelineVars

-----------------------------------------------------------------------------
(* Properties. *)

(* No slot is lost in silence: every slot up to the committed cursor has an  *)
(* event recorded, attributed and emitted, or lies in a registered gap,      *)
(* across crashes between the port calls, changes of leader, replays from an *)
(* old start and streams that begin past the checkpoint, repeat or skip.     *)
NoSilentLoss == 1..checkpoint.cursor \subseteq
    Processed \union Covered({"UNRECOVERED", "RECOVERING"} \union Resolved)

(* The stored checkpoint moves forward, in the order of fencing token, then  *)
(* cursor, and within one epoch crosses only slots of resolved gaps, whatever *)
(* collectors race between the guard of commitCheckpoint and its upsert and   *)
(* however long a deposed leader keeps working on its old token; and a gap    *)
(* that was resolved stays as it was resolved, although resolveGapStatus      *)
(* reads and writes in two statements (one resolver at a time: two of them    *)
(* overwrite each other's verdict).                                           *)
CheckpointHonest == [][
    /\ \/ checkpoint'.token > checkpoint.token
       \/ checkpoint'.token = checkpoint.token /\ checkpoint'.cursor >= checkpoint.cursor
    /\ checkpoint'.token = checkpoint.token
           => checkpoint.cursor + 1..checkpoint'.cursor - 1 \subseteq Covered(Resolved)
    /\ \A g \in GapIds :
           collectorGaps[g].status \in Resolved => collectorGaps'[g] = collectorGaps[g]
    ]_pipelineVars

=============================================================================
