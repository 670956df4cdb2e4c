------------------------------- MODULE MCSupply -------------------------------
(* The supply side: the collector's pipeline and its controllers, the       *)
(* provider lifecycle and the activation of modules.  They share no state,  *)
(* so a behaviour exercises one of them, chosen initially, and the state    *)
(* spaces add up instead of multiplying.                                    *)
EXTENDS CollectorPipeline, CollectorControl, ProviderLifecycle, ModuleActivation, TLC

VARIABLE focus

DeposedAndCurrent == [c \in Controllers |-> IF c = CHOOSE d \in Controllers : TRUE THEN 1 ELSE 2]
TwoGaps == <<[first |-> 2, last |-> 6], [first |-> 9, last |-> 9]>>
BadGap == <<[first |-> 2, last |-> 3], [first |-> 9, last |-> 8]>>
TwoLists == {TwoGaps, BadGap}
ThreeKinds == <<"ENDPOINT", "QUOTA", "SCHEMA">>
PairsAndFailure ==
    [kind : {"ENDPOINT", "SCHEMA"}, source : Sources, outcome : {"PASSED"}]
        \cup {[kind |-> "QUOTA", source |-> "LIVE_CONTRACT", outcome |-> "FAILED"]}
LaterWindow == {[at |-> 1, until |-> 2]}
SomeHistories == {<<"IMPLEMENTED">>, <<"IMPLEMENTED", "AVAILABLE", "SHADOW">>}

SupplyInit ==
    /\ focus \in {"handover", "recovery", "partition", "capacity", "watermark", "planner",
                  "verification", "containment", "modules"}
    /\ PipelineInit /\ ControlInit /\ LifecycleInit /\ ActivationInit
    /\ focus # "modules" => Len(stateRows) = 1
    /\ focus # "planner" => request = [gaps |-> TwoGaps, limit |-> 3]

(* Two parts of the pipeline: collectors that take the shard from each other *)
(* again and again, and gaps that are resolved while it changes hands once.  *)
HandoverNext == PipelineNext /\ UNCHANGED resolver
RecoveryNext == PipelineNext /\ leaderLease'.token < MaxToken

(* Two parts of the provider lifecycle: records that lapse and are renewed   *)
(* while operators activate and sweeps take out, and operators who block the *)
(* operation while it is activated and swept.                                *)
VerificationNext ==
    /\ LifecycleNext
    /\ \A c \in Callers : call'[c].event.to # "BLOCKED"
    /\ Cardinality(records') <= 4 /\ \A r \in records' : r.outcome = "PASSED"
ContainmentNext == LifecycleNext /\ now' = 0 /\ \A r \in records' : r.at = 0

SupplyNext ==
    /\ UNCHANGED focus
    /\ \/ /\ \/ focus = "handover" /\ HandoverNext
             \/ focus = "recovery" /\ RecoveryNext
          /\ UNCHANGED <<controlVars, lifecycleVars, activationVars>>
       \/ /\ \/ focus = "partition" /\ PartitionNext
             \/ focus = "capacity" /\ CapacityNext
             \/ focus = "watermark" /\ WatermarkNext
             \/ focus = "planner" /\ PlannerNext
          /\ UNCHANGED <<request, pipelineVars, lifecycleVars, activationVars>>
       \/ /\ \/ focus = "verification" /\ VerificationNext
             \/ focus = "containment" /\ ContainmentNext
          /\ UNCHANGED <<pipelineVars, controlVars, activationVars>>
       \/ /\ focus = "modules" /\ ActivationNext
          /\ UNCHANGED <<pipelineVars, controlVars, lifecycleVars>>

SupplySpec ==
    SupplyInit
        /\ [][SupplyNext]_<<pipelineVars, controlVars, lifecycleVars, activationVars, focus>>

(* Every component's variables stay in their types and its counters and     *)
(* cursors within their limits.                                             *)
SupplyTypeOK == PipelineTypeOK /\ ControlTypeOK /\ LifecycleTypeOK /\ ActivationTypeOK

(* The configuration names the interchangeable values of the parts alike:   *)
(* a behaviour exercises one part, so one permutation serves for all.       *)
Symmetry == Permutations(Collectors \union Callers \union Sessions \union ActivationEvents)

===============================================================================
