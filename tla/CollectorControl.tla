-------------------------- MODULE CollectorControl --------------------------
(* What steers a collector partition from outside its pipeline: the          *)
(* partition state machine, the capacity governor, the contiguous watermark  *)
(* and the bounded backfill planner.  The state machine and the watermark    *)
(* are fenced by tokens that controllers obtained at different times; the    *)
(* governor and the planner await between their writes.                      *)
EXTENDS Integers, Sequences, FiniteSets

CONSTANTS
    Controllers,   \* processes that drive the partition
    ControlToken,  \* the fencing token each controller holds
    Positions,     \* 1..n, the positions of the partition
    GapLists,      \* the lists of gaps a plan may be asked for: <<[first, last], ...>>
    JobLimits,     \* the values of declaration.maximumJobs
    MaximumRange,  \* declaration.maximumRange
    MaxAudits      \* bound on audited resumes

ASSUME ControlAssumption ==
    /\ ControlToken \in [Controllers -> Nat]
    /\ IsFiniteSet(Positions) /\ Positions = 1..Cardinality(Positions)
    /\ \A gaps \in GapLists : gaps \in Seq([first : Int, last : Int]) /\ Len(gaps) > 0
    /\ JobLimits \subseteq Nat \ {0} /\ MaximumRange \in Nat \ {0} /\ MaxAudits \in Nat

VARIABLES
    partition,   \* collector_partitions row: state and fencing_token
    capacity,    \* paused flag, open incidents, audited resumes, governor steps under way
    proven,      \* positions with an observed event or an empty-range proof
    watermark,   \* collector_watermarks row: through and fencing_token
    current,     \* per controller: the position it believes contiguous
    request,     \* what the planner was asked for: the gaps and its job limit
    planner      \* the plan under way: gap index, next start, jobs, state

controlVars == <<partition, capacity, proven, watermark, current, request, planner>>

LegalPartitionTransitions == [
    DISABLED     |-> {"STARTING"},
    STARTING     |-> {"SYNCING", "PAUSED", "FAILED"},
    SYNCING      |-> {"LIVE", "DEGRADED", "GAP_DETECTED", "PAUSED", "FAILED"},
    LIVE         |-> {"DEGRADED", "GAP_DETECTED", "PAUSED", "FAILED"},
    DEGRADED     |-> {"SYNCING", "GAP_DETECTED", "PAUSED", "FAILED"},
    GAP_DETECTED |-> {"BACKFILLING", "PAUSED", "FAILED"},
    BACKFILLING  |-> {"SYNCING", "DEGRADED", "PAUSED", "FAILED"},
    PAUSED       |-> {"STARTING", "FAILED", "DISABLED"},
    FAILED       |-> {"STARTING", "DISABLED"}]

PartitionStates == DOMAIN LegalPartitionTransitions

ControlTypeOK ==
    /\ partition.state \in PartitionStates
    /\ capacity \in [paused : BOOLEAN, pausing : BOOLEAN, resuming : BOOLEAN,
                     incidents : 0..MaxAudits, audits : 0..MaxAudits, resumes : 0..MaxAudits]
    /\ proven \subseteq Positions
    /\ watermark.through \in Positions \union {0}
    /\ \A c \in Controllers : current[c] \in Positions \union {0}
    /\ planner.state \in {"running", "done", "blocked", "refused"}

ControlInit ==
    /\ partition = [state |-> "DISABLED", token |-> 0]
    /\ capacity = [paused |-> FALSE, pausing |-> FALSE, resuming |-> FALSE, incidents |-> 0,
                   audits |-> 0, resumes |-> 0]
    /\ proven = {}
    /\ watermark = [through |-> 0, token |-> 0]
    /\ current = [c \in Controllers |-> 0]
    /\ request \in [gaps : GapLists, limit : JobLimits]
    /\ planner = [gap |-> 1, next |-> request.gaps[1].first, jobs |-> {}, state |-> "running"]

-----------------------------------------------------------------------------
(* Mutant: the fencing token is stored but not compared. *)
transitionUnfenced(c, to, ready) ==
    /\ to \in LegalPartitionTransitions[partition.state]
    /\ to = "LIVE" => ready
    /\ partition' = [state |-> to, token |-> ControlToken[c]]
    /\ UNCHANGED <<capacity, proven, watermark, current, planner>>

(* PartitionStateMachine.transition, one locked transaction.  LIVE takes the *)
(* six readiness checks, here one verdict of the caller.                     *)
transition(c, to, ready) ==
    /\ ControlToken[c] >= partition.token
    /\ to \in LegalPartitionTransitions[partition.state]
    /\ to = "LIVE" => ready
    /\ partition' = [state |-> to, token |-> ControlToken[c]]
    /\ UNCHANGED <<capacity, proven, watermark, current, planner>>

(* CapacityGovernor.admit over a ceiling: pause, then open the incident,     *)
(* then refuse.  resume: audit, then lift the pause.  The two may overlap,   *)
(* and the process may die between the two writes of either.                 *)
admitOverCeiling ==
    /\ ~capacity.pausing
    /\ capacity' = [capacity EXCEPT !.paused = TRUE, !.pausing = TRUE]
    /\ UNCHANGED <<partition, proven, watermark, current, planner>>

createIncident ==
    /\ capacity.pausing /\ capacity.incidents < MaxAudits
    /\ capacity' = [capacity EXCEPT !.incidents = @ + 1, !.pausing = FALSE]
    /\ UNCHANGED <<partition, proven, watermark, current, planner>>

auditResume ==
    /\ ~capacity.resuming /\ capacity.audits < MaxAudits
    /\ capacity' = [capacity EXCEPT !.audits = @ + 1, !.resuming = TRUE]
    /\ UNCHANGED <<partition, proven, watermark, current, planner>>

resumePartition ==
    /\ capacity.resuming
    /\ capacity' = [capacity EXCEPT !.paused = FALSE, !.resumes = @ + 1, !.resuming = FALSE]
    /\ UNCHANGED <<partition, proven, watermark, current, planner>>

GovernorCrash ==
    /\ capacity.pausing \/ capacity.resuming
    /\ \/ capacity' = [capacity EXCEPT !.pausing = FALSE]
       \/ capacity' = [capacity EXCEPT !.resuming = FALSE]
    /\ UNCHANGED <<partition, proven, watermark, current, planner>>

-----------------------------------------------------------------------------
(* WatermarkCoordinator.advance: fold the evidence over the caller's own     *)
(* position as far as it is contiguous, then one conditional upsert.         *)
ObservePosition(p) ==
    /\ p \notin proven
    /\ proven' = proven \union {p}
    /\ UNCHANGED <<partition, capacity, watermark, current, planner>>

(* Mutant: the highest position with evidence, holes or not. *)
HighestObserved(from, evidence) ==
    CHOOSE n \in {from} \union evidence : \A p \in {from} \union evidence : n >= p

Contiguous(from, evidence) ==
    CHOOSE n \in {from} \union Positions :
        /\ n >= from /\ from + 1..n \subseteq evidence
        /\ n + 1 \notin evidence

WatermarkUpsertApplies(token, through) ==
    token > watermark.token \/ (token = watermark.token /\ through >= watermark.through)

(* Mutant: the watermark is written as an exclusive end. *)
advanceExclusive(c, evidence) ==
    LET next == Contiguous(current[c], evidence) + 1 IN
    /\ WatermarkUpsertApplies(ControlToken[c], next)
    /\ watermark' = [through |-> next, token |-> ControlToken[c]]
    /\ current' = [current EXCEPT ![c] = next]
    /\ UNCHANGED <<partition, capacity, proven, planner>>

advance(c, evidence) ==
    LET next == Contiguous(current[c], evidence) IN
    /\ ~(next = current[c] /\ \E p \in evidence : p > current[c] + 1)
    /\ WatermarkUpsertApplies(ControlToken[c], next)
    /\ watermark' = [through |-> next, token |-> ControlToken[c]]
    /\ current' = [current EXCEPT ![c] = next]
    /\ UNCHANGED <<partition, capacity, proven, planner>>

(* A controller restarts: it begins at zero or at what it reads back. *)
Reload(c, position) ==
    /\ position \in {0, watermark.through}
    /\ current' = [current EXCEPT ![c] = position]
    /\ UNCHANGED <<partition, capacity, proven, watermark, planner>>

-----------------------------------------------------------------------------
(* The last position of the chunk that starts at first. *)
ChunkEnd(first, last) ==
    IF first + MaximumRange - 1 < last THEN first + MaximumRange - 1 ELSE last

(* Mutant: the bound is compared one job late. *)
JobsOverLimit == Cardinality(planner.jobs) > request.limit

JobsAtLimit == Cardinality(planner.jobs) >= request.limit

ValidBounds(gap) == 0 <= gap.first /\ gap.first <= gap.last

(* BackfillPlanner.plan: the bounds of each gap in its turn, chunks of at    *)
(* most maximumRange, one awaited cost admission per job, at most            *)
(* maximumJobs over all gaps, and no error when the bound cuts the list.  A  *)
(* plan that throws returns no job.                                          *)
planStep(admitted) ==
    /\ planner.state = "running"
    /\ LET gap == request.gaps[planner.gap]
           more == planner.gap < Len(request.gaps)
       IN \/ /\ ~ValidBounds(gap)
             /\ planner' = [planner EXCEPT !.state = "refused", !.jobs = {}]
          \/ /\ ValidBounds(gap) /\ planner.next <= gap.last /\ ~JobsAtLimit
             /\ planner' = IF admitted
                    THEN [planner EXCEPT !.next = @ + MaximumRange, !.jobs = @ \union
                             {[gap |-> planner.gap, first |-> planner.next,
                               last |-> ChunkEnd(planner.next, gap.last)]}]
                    ELSE [planner EXCEPT !.state = "blocked", !.jobs = {}]
          \/ /\ ValidBounds(gap) /\ (planner.next > gap.last \/ JobsAtLimit)
             /\ planner' = IF more
                    THEN [planner EXCEPT !.gap = @ + 1, !.next = request.gaps[planner.gap + 1].first]
                    ELSE [planner EXCEPT !.state = "done"]
    /\ UNCHANGED <<partition, capacity, proven, watermark, current>>

PartitionNext ==
    \E c \in Controllers, to \in PartitionStates, ready \in BOOLEAN : transition(c, to, ready)
CapacityNext ==
    admitOverCeiling \/ createIncident \/ auditResume \/ resumePartition \/ GovernorCrash
WatermarkNext ==
    \/ \E p \in Positions : ObservePosition(p)
    \/ \E c \in Controllers :
           \/ \E evidence \in SUBSET proven : advance(c, evidence)
           \/ \E p \in Positions \union {0} : Reload(c, p)
PlannerNext == \E admitted \in BOOLEAN : planStep(admitted)

ControlNext ==
    /\ PartitionNext \/ CapacityNext \/ WatermarkNext \/ PlannerNext
    /\ UNCHANGED request

ControlSpec == ControlInit /\ [][ControlNext]_controlVars

-----------------------------------------------------------------------------
(* Properties. *)

(* A controller that lost the partition to a newer token can never move it   *)
(* again, and a partition goes live only from SYNCING, whatever transitions  *)
(* the two send in whatever order.                                           *)
PartitionFenced ==
    partition' # partition =>
        /\ partition'.token >= partition.token
        /\ partition'.state = "LIVE" => partition.state = "SYNCING"

(* A capacity pause is lifted only by a resume with an audit entry of its    *)
(* own, also when the governor dies between audit and resume or between      *)
(* pause and incident, and when a new ceiling is hit in the middle.          *)
PauseLiftedOnlyAudited ==
    capacity.paused /\ ~capacity'.paused => capacity.resumes < capacity'.audits

(* Both hold of every step of the transition(), admit() and resume() calls.  *)
ControlStepsLegal == [][PartitionFenced /\ PauseLiftedOnlyAudited]_controlVars

(* The watermark never runs past a hole: every position up to it has its own *)
(* evidence, whatever position a restarted or deposed controller starts its  *)
(* fold from and whatever part of the evidence it passes.                    *)
WatermarkBacked == 1..watermark.through \subseteq proven

(* A plan has at most the declared number of jobs.  They are pieces of the   *)
(* gaps, no wider than the declared range and disjoint, and everything in    *)
(* front of a job is in another one: a plan that the bound cut leaves out    *)
(* only what lies behind its last job, and one that ends below the bound     *)
(* leaves out nothing.                                                       *)
PlanExact ==
    LET Piece(j) == j.first..j.last
        Gap(i) == request.gaps[i].first..request.gaps[i].last
        Planned(i, x) == \E j \in planner.jobs : j.gap = i /\ x \in Piece(j)
    IN /\ Cardinality(planner.jobs) <= request.limit
       /\ \A j \in planner.jobs : /\ Piece(j) \subseteq Gap(j.gap)
                                  /\ Cardinality(Piece(j)) \in 1..MaximumRange
       /\ \A j, k \in planner.jobs :
              j # k /\ j.gap = k.gap => Piece(j) \cap Piece(k) = {}
       /\ \A j \in planner.jobs : \A i \in 1..j.gap : \A x \in Gap(i) :
              i < j.gap \/ x < j.first => Planned(i, x)
       /\ planner.state = "done" /\ Cardinality(planner.jobs) < request.limit
              => \A i \in DOMAIN request.gaps : \A x \in Gap(i) : Planned(i, x)

(* What advance() and plan() leave behind is exact. *)
CoverageExact == WatermarkBacked /\ PlanExact

=============================================================================
