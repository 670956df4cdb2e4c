-------------------------- MODULE MCScheduledRuns --------------------------
(* Instances of ScheduledRuns for TLC. *)
EXTENDS ScheduledRuns, TLC

SkipConfig   == [policy |-> "SKIP_IF_RUNNING", shadow |-> FALSE]
CancelConfig == [policy |-> "CANCEL_PREVIOUS", shadow |-> TRUE]

SkipOnly      == {SkipConfig}
SkipAndCancel == {SkipConfig, CancelConfig}

PartySymmetry ==
    Permutations(Schedules) \union Permutations(Servers) \union Permutations(Admins)
        \union Permutations(Messages)
=============================================================================
