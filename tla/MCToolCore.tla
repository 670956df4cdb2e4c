----------------------------- MODULE MCToolCore -----------------------------
(* Instances of the tool core for TLC. *)
EXTENDS ToolCore

OneEach == [b \in {"general", "reserve"} |-> 1]

=============================================================================
