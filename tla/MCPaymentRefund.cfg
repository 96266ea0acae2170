\* Two handlers, two failing statements, one lost answer, one handler cut short.
CONSTANTS
  h1 = h1  h2 = h2
  Handlers = {h1, h2}
  Amount = 2
  PayAmount = 3
  SubDays = 2
  MaxHolding = 3
  MaxFaults = 2
  MaxLost = 1
  MaxAborts = 1
SPECIFICATION Spec
SYMMETRY HandlerSymmetry
INVARIANTS
  TypeOK
  OneRefunder
  MoneyOutIsRecorded
  RefusedCostsNothing
  TakenAtMostOnce
PROPERTIES
  RefundIsFinal
\* A refunded order and an empty balance: nothing more need happen.
CHECK_DEADLOCK FALSE
