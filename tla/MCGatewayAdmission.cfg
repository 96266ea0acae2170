\* Three requests of one process, one of them slow, a restart and a fourth
\* request of the next process, one failing call or one
\* outlived counter, two disconnections.
CONSTANTS
  r1 = r1  r2 = r2  r3 = r3  r4 = r4  a = a  b = b
  Free = Free  Orphan = Orphan
  Requests = {r1, r2, r3, r4}
  Lives = {a, b}
  Home <- MCHome
  Slow = {r1}
  UserLimit = 2
  AccountLimit = 1
  UserQueue = 1
  AccountQueue = 1
  Overlap = FALSE
  MaxFaults = 1
  MaxLapsed = 1
SPECIFICATION Spec
CONSTRAINT FewMishaps
SYMMETRY RequestSymmetry
INVARIANTS
  TypeOK
  WithinLimit
  WaitersWithinBound
  CountersAreExact
  MessagesSerialized
  SlotsAreOwned
\* Every request ends and every process dies.
CHECK_DEADLOCK FALSE
