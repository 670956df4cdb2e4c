---------------------------- MODULE MCDeadLetters ----------------------------
(* Instances of DeadLetters for TLC. *)
EXTENDS DeadLetters

(* No reference, or the last original step: mostly a reference the retry    *)
(* refuses, and a usable one when the driver completed the step meanwhile.  *)
(* With two steps a reference to the first plans what no reference plans.   *)
LastRefs == {NoRef, <<Original, N>>}
=============================================================================
