\* One subscription order, one handler, one failed call: the extension is repeated.
CONSTANTS
  t1 = t1  t2 = t2  t3 = t3  o1 = o1  o2 = o2  alice = alice
  NoOrder = NoOrder
  Orders = {o1}
  BalanceOrders = {}
  Users = {alice}
  Owner <- MCOneOwner
  Reporting = {o1}
  Threads = {t1}
  MaxFaults = 1
  MaxAborts = 0
SPECIFICATION Spec
INVARIANTS
  ExtendedAtMostOnce
\* Once every order is closed nothing more need happen.
CHECK_DEADLOCK FALSE
