--------------------------- MODULE MCIdempotency ---------------------------
(* Instances of Idempotency for TLC. *)
EXTENDS Idempotency

CONSTANTS r1, r2, r3, r4

\* One request and its retries, or one of them under somebody else's key.
MCSame == [r \in Requests |-> "payload"]
MCReused == [r \in Requests |-> IF r = r1 THEN "other" ELSE "payload"]

=============================================================================
