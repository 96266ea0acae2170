\* Two balance orders of one user, two handlers, no failed call.
CONSTANTS
  t1 = t1  t2 = t2  t3 = t3  o1 = o1  o2 = o2  alice = alice
  NoOrder = NoOrder
  Orders = {o1, o2}
  BalanceOrders = {o1, o2}
  Users = {alice}
  Owner <- MCOneOwner
  Reporting = {}
  Threads = {t1, t2}
  MaxFaults = 0
  MaxAborts = 0
SPECIFICATION Spec
SYMMETRY OrderThreadSymmetry
INVARIANTS
  OneBonusPerUser
  AckedIsRecorded
\* Once every order is closed nothing more need happen.
CHECK_DEADLOCK FALSE
