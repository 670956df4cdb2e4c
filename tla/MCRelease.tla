------------------------------ MODULE MCRelease ------------------------------
(* What is let out: alerts, and package state landing on main.  They share  *)
(* no state, so a behaviour exercises one of them, chosen initially, and    *)
(* the state spaces add up instead of multiplying.                          *)
EXTENDS AlertLifecycle, StateLanding, TLC

VARIABLE focus

AllRequests ==
    [decision : {"ALERT", "IGNORE"}, risk : {"LOW", "HIGH", "CRITICAL"},
     lifecycle : {"ACTIVE", "DECAYING", "REJECTED"}, prior : BOOLEAN,
     actionability : {"unknown", "EXPIRING", "EXPIRED"},
     recommended : {"none", "CONFIRMED_OPPORTUNITY", "EARLY_WATCH", "THESIS_WEAKENING"},
     refused : {{}, {"FRESHNESS"}, {"FRESHNESS", "NO_CRITICAL_RISK"}, {"absent"}},
     supplied : {"none", "match", "differ"}, organicUnbacked : BOOLEAN]

(* A reassessment that speaks for an update of every kind, a deterioration   *)
(* only where the class of the prior changes.                                *)
SomeViews == {[severity |-> "higher", evidence |-> "new", risk |-> TRUE, cancelled |-> TRUE,
               expired |-> FALSE]}

(* The policies' 300, 600 and 3600 seconds, in their order. *)
PolicyCooldowns == [class \in UpdateClasses |->
    CASE class = "RISK_ALERT" -> 1 [] class = "THESIS_WEAKENING" -> 2 [] OTHER -> 3]

ReleaseInit == focus \in {"alerts", "serial", "landing"} /\ AlertInit /\ LandingInit

ReleaseNext ==
    /\ UNCHANGED focus
    /\ \/ focus = "alerts" /\ AlertNext /\ UNCHANGED landingVars
       \/ focus = "serial" /\ SerialNext /\ UNCHANGED landingVars
       \/ focus = "landing" /\ LandingNext /\ UNCHANGED alertVars

ReleaseSpec == ReleaseInit /\ [][ReleaseNext]_<<alertVars, landingVars, focus>>

(* Every component's variables stay in their types and its counters within  *)
(* their limits.                                                            *)
ReleaseTypeOK == AlertTypeOK /\ LandingTypeOK

(* Two updates to one prior inside one cooldown window collapse to one where *)
(* sweeps do not overlap, whichever of them fail and start again: each class *)
(* of update is held to the window of the update before it                   *)
(* (commitAlertUpdate, cooldownUntilFrom).                                   *)
SerialCooldown == focus = "serial" => CooldownCollapses

(* The configuration names the interchangeable values of both parts alike:  *)
(* a behaviour exercises one part, so one permutation serves for both.      *)
Symmetry == Permutations(Sweepers \union Packages)

=============================================================================
