--------------------------- MODULE MCUsageBilling ---------------------------
(* An instance of UsageBilling for TLC. *)
EXTENDS UsageBilling, TLC

CONSTANTS r1, r2, r3, i1, i2, cheap, dear, recharge, refund, adjustment

\* r1 and r2 have one id, and may bill the same or not.
MCId == [r \in Requests |-> IF r = r3 THEN i2 ELSE i1]
MCBills == [r \in Requests |-> IF r = r3 THEN {cheap} ELSE {cheap, dear}]
MCCost == [p \in Prints |-> IF p = dear THEN 2 ELSE 1]
MCAmount == [e \in Changes |-> IF e = recharge THEN 1 ELSE -1]
\* Any two of the changes of the balance and the failure, not more of them; and
\* the claim of r3, whose id nobody repeats, stays in its table.
TwoDisturbances ==
  /\ faults + Cardinality({e \in Changes : change[e] # "idle"}) <= 2
  /\ archive[i2] = None
RequestSymmetry == Permutations({r1, r2})
=============================================================================
