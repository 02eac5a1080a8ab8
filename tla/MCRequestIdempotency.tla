----------------------- MODULE MCRequestIdempotency -----------------------
(* Instances of RequestIdempotency for TLC. *)
EXTENDS RequestIdempotency

CONSTANTS r1, r2, r3

\* A request, its repetition, and another body under the same key.
TwoAlike == [r \in Requests |-> IF r = r3 THEN "other" ELSE "body"]

AllAlike == [r \in Requests |-> "body"]
===========================================================================
