------------------------- MODULE MCGatewayAdmission -------------------------
(* An instance of GatewayAdmission for TLC. *)
EXTENDS GatewayAdmission, TLC

CONSTANTS r1, r2, r3, r4, a, b

\* The first process serves all requests but r4, which is left for the second.
MCHome == [r \in Requests |-> IF r = r4 THEN b ELSE a]
\* A failing call or an outlived counter, not both, and two clients at most that
\* disconnect: the instance stays small.
FewMishaps == faults + lapsed <= 1 /\ Cardinality(cancelled) <= 2
RequestSymmetry == Permutations({r2, r3})
=============================================================================
