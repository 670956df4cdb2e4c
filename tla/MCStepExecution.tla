-------------------------- MODULE MCStepExecution --------------------------
(* Instances of StepExecution for TLC. *)
EXTENDS StepExecution, TLC

(* Every step type has its own lease: key and lease key correspond. *)
OneLease == [k \in Keys |-> CHOOSE lk \in LeaseKeys : TRUE]

(* No clock runs ahead; one worker's clock runs ahead by one tick. *)
NoSkew == [w \in Workers |-> 0]
OneAhead == [w \in Workers |-> IF w = CHOOSE v \in Workers : TRUE THEN 1 ELSE 0]

Symmetry == Permutations(Workers) \union Permutations(Hashes)

=============================================================================
