\* Two requests with one id, which bill the same or not, and one with another id;
\* one recharge, one refund, one administrator's edit of the balance, one fault.
CONSTANTS
  r1 = r1  r2 = r2  r3 = r3  i1 = i1  i2 = i2  cheap = cheap  dear = dear
  recharge = recharge  refund = refund  adjustment = adjustment
  None = None
  Requests = {r1, r2, r3}
  Ids = {i1, i2}
  Id <- MCId
  Bills <- MCBills
  Cost <- MCCost
  Recharges = {recharge, refund}
  Silent = {refund}
  Edits = {adjustment}
  Amount <- MCAmount
  Initial = 1
  Room = 1
  MaxFaults = 1
SPECIFICATION Spec
CONSTRAINT TwoDisturbances
SYMMETRY RequestSymmetry
INVARIANTS
  TypeOK
  BilledOnce
  LoggedIsBilled
  BalanceIsLedger
  CacheFollowsBalance
PROPERTIES
  ImplementsMetering
\* Every request, recharge and edit ends.
CHECK_DEADLOCK FALSE
