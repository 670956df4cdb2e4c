---------------------------- MODULE SingleFlight ----------------------------
(* The distributed single-flight lease of one resource: an upsert that takes *)
(* only a released or expired row, under a fresh fencing token, and a        *)
(* release that needs the token.  An expired lease is still releasable by    *)
(* its holder until somebody takes it over.                                  *)
EXTENDS Integers

VARIABLE
    flight     \* the lease row: fencing_token and whether it is free, held or expired

FlightInit == flight = [token |-> 0, status |-> "free"]

LeaseTakable == flight.status # "held"

takeover ==
    /\ LeaseTakable
    /\ flight' = [token |-> flight.token + 1, status |-> "held"]

(* Mutant: the release does not compare the fencing token. *)
ReleaseMatchesAnyToken(token) == flight.status # "free"

(* A release under a token that is no longer current updates zero rows. *)
ReleaseMatches(token) == flight.token = token /\ flight.status # "free"

releaseLease(token) ==
    flight' = IF ReleaseMatches(token) THEN [flight EXCEPT !.status = "free"] ELSE flight

FlightExpires ==
    /\ flight.status = "held"
    /\ flight' = [flight EXCEPT !.status = "expired"]

=============================================================================
