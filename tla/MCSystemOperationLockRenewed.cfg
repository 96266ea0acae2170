\* Three retries of one operation that outlive their first lease; one call fails.
CONSTANTS
  o1 = o1  o2 = o2  o3 = o3
  Ops = {o1, o2, o3}
  OperationId <- MCOneId
  Lease = 3
  TTL = 4
  MaxLag = 0
  MaxRun = 6
  MaxClock = 8
  MaxFaults = 1
SPECIFICATION Spec
INVARIANTS
  TypeOK
  LeaseIsRenewed
  MutualExclusion
\* Every call ends and the clock stops at its bound.
CHECK_DEADLOCK FALSE
