\* Two operations, the second takes over the lock of the first and runs longer than its lease.
CONSTANTS
  o1 = o1  o2 = o2  o3 = o3
  Ops = {o1, o2}
  OperationId <- MCOwnIds
  Lease = 3
  TTL = 4
  MaxLag = 1
  MaxRun = 6
  MaxClock = 8
  MaxFaults = 0
SPECIFICATION Spec
INVARIANTS
  LeaseIsRenewed
\* Every call ends and the clock stops at its bound.
CHECK_DEADLOCK FALSE
