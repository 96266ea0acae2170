\* One balance order, two handlers, two failed calls, one handler cut short.
CONSTANTS
  t1 = t1  t2 = t2  t3 = t3  o1 = o1  o2 = o2  alice = alice
  NoOrder = NoOrder
  Orders = {o1}
  BalanceOrders = {o1}
  Users = {alice}
  Owner <- MCOneOwner
  Reporting = {o1}
  Threads = {t1, t2}
  MaxFaults = 2
  MaxAborts = 1
SPECIFICATION Spec
SYMMETRY ThreadSymmetry
INVARIANTS
  TypeOK
  DeliveredIsPaid
  OneFulfiller
  CreditedAtMostOnce
PROPERTIES
  ImplementsSettlement
  PaidIsNeverDropped
  CompletedIsFinal
\* Once every order is closed nothing more need happen.
CHECK_DEADLOCK FALSE
