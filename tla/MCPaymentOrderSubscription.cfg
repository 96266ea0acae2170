\* One subscription order and two handlers without failures.
CONSTANTS
  t1 = t1  t2 = t2  t3 = t3  o1 = o1  o2 = o2  alice = alice
  NoOrder = NoOrder
  Orders = {o1}
  BalanceOrders = {}
  Users = {alice}
  Owner <- MCOneOwner
  Reporting = {o1}
  Threads = {t1, t2}
  MaxFaults = 0
  MaxAborts = 0
SPECIFICATION FairSpec
INVARIANTS
  ExtendedAtMostOnce
  CompletedIsDelivered
PROPERTIES
  PaidIsDelivered
\* Once every order is closed nothing more need happen.
CHECK_DEADLOCK FALSE
