------------------------- MODULE PaymentOrderProofs -------------------------
(***************************************************************************)
(* Proofs about PaymentOrder, for any orders, users, handlers and number   *)
(* of failures.  TypeOK is inductive by itself.  IInv adds what the code   *)
(* relies on without saying: which orders may be paid, who holds an order  *)
(* in RECHARGING, and what a handler has achieved when it reaches a label. *)
(* Two theorems have a hypothesis on the steps of a behaviour: which calls *)
(* get their answer.  Without it TLC finds counterexamples.                *)
(***************************************************************************)
EXTENDS PaymentOrder, TLAPS

-----------------------------------------------------------------------------
\* Type correctness.

ThreadsOK ==
  /\ thread \in [Threads -> Handlers]
  /\ \A t \in Threads : thread[t].pc # "idle" => thread[t].order \in Orders

\* Setting the label of a running handler keeps the handlers well typed.
LEMMA GotoType ==
  ASSUME ThreadsOK, NEW t \in Threads, thread[t].pc # "idle",
         NEW l \in Labels, Goto(t, l)
  PROVE  ThreadsOK'
BY DEF ThreadsOK, Handlers, Goto

\* So does setting the label together with the bonus flag (ClaimBonus).
LEMMA GotoBonusType ==
  ASSUME ThreadsOK, NEW t \in Threads, thread[t].pc # "idle",
         NEW l \in Labels, NEW b \in BOOLEAN,
         thread' = [thread EXCEPT ![t] = [@ EXCEPT !.pc = l, !.bonus = b]]
  PROVE  ThreadsOK'
BY DEF ThreadsOK, Handlers

\* So does the end of a handler.
LEMMA StopType ==
  ASSUME ThreadsOK, NEW t \in Threads, thread' = [thread EXCEPT ![t] = Idle]
  PROVE  ThreadsOK'
BY DEF ThreadsOK, Handlers, Idle, Labels, Kinds

\* So does the start of one.
LEMMA BeginType ==
  ASSUME ThreadsOK, NEW t \in Threads, NEW o \in Orders, NEW k \in Kinds,
         NEW l \in Labels, Begin(t, k, o, l)
  PROVE  ThreadsOK'
BY DEF ThreadsOK, Handlers, Begin

\* The failures of database calls stay within their bound.
LEMMA SpendType ==
  ASSUME faults \in 0 .. MaxFaults, NEW r \in Outcomes, Spend(r)
  PROVE  faults' \in 0 .. MaxFaults
BY ConstantsAssumption DEF ConstantsAssumption, Outcomes, Spend

LEMMA ReadType ==
  ASSUME faults \in 0 .. MaxFaults, ReadFails
  PROVE  faults' \in 0 .. MaxFaults
BY ConstantsAssumption DEF ConstantsAssumption, ReadFails

LEMMA TypeStep ==
  ASSUME TypeOK, NEW t \in Threads, Step(t)
  PROVE  TypeOK'
<1>th. ThreadsOK
  BY DEF TypeOK, ThreadsOK
<1>la. Labels = {"find", "claim", "create", "redeem", "use", "group",
                "assign", "complete", "fail", "idle", "invoke", "unwind",
                "query", "close", "cancel", "confirm", "pay", "already",
                "guard", "lock", "audit", "reset"}
  BY DEF Labels, Fulfilling
<1>jo. ~At(t, "idle") => Job(t) \in Orders
  BY DEF TypeOK, At, Job
<1>fa. faults \in 0 .. MaxFaults
  BY DEF TypeOK
<1>1. CASE InvokeProvider(t)
  <2>1. ThreadsOK'
    BY <1>th, <1>la, <1>jo, <1>1, GotoType, StopType DEF InvokeProvider, At
  <2>2. faults' \in 0 .. MaxFaults
    BY <1>fa, <1>1, SpendType DEF InvokeProvider
  <2>. QED
    BY <2>1, <2>2, <1>jo, <1>1 DEF ThreadsOK, TypeOK, InvokeProvider, At,
        codeVars, effectVars
<1>2. CASE InvokeFailed(t)
  <2>1. ThreadsOK'
    BY <1>th, <1>la, <1>jo, <1>2, StopType DEF InvokeFailed, At
  <2>2. faults' \in 0 .. MaxFaults
    BY <1>fa, <1>2, SpendType DEF InvokeFailed
  <2>. QED
    BY <2>1, <2>2, <1>jo, <1>2 DEF ThreadsOK, TypeOK, InvokeFailed,
        OrderStatus, At, SetStatus, codeVars, effectVars, gatewayVars
<1>3. CASE QueryUpstream(t)
  <2>1. ThreadsOK'
    BY <1>th, <1>la, <1>jo, <1>3, GotoType, StopType DEF QueryUpstream, At
  <2>2. faults' \in 0 .. MaxFaults
    BY <1>fa, <1>3 DEF QueryUpstream, bounds
  <2>. QED
    BY <2>1, <2>2, <1>jo, <1>3 DEF ThreadsOK, TypeOK, QueryUpstream, At,
        orderVars, codeVars, effectVars, gatewayVars, bounds
<1>4. CASE CloseUpstream(t)
  <2>1. ThreadsOK'
    BY <1>th, <1>la, <1>jo, <1>4, GotoType DEF CloseUpstream, At
  <2>2. faults' \in 0 .. MaxFaults
    BY <1>fa, <1>4 DEF CloseUpstream, bounds
  <2>. QED
    BY <2>1, <2>2, <1>jo, <1>4 DEF ThreadsOK, TypeOK, CloseUpstream, At,
        orderVars, codeVars, effectVars, bounds
<1>5. CASE CancelCore(t)
  <2>1. ThreadsOK'
    BY <1>th, <1>la, <1>jo, <1>5, StopType DEF CancelCore, At
  <2>2. faults' \in 0 .. MaxFaults
    BY <1>fa, <1>5, SpendType DEF CancelCore
  <2>. QED
    BY <2>1, <2>2, <1>jo, <1>5 DEF ThreadsOK, TypeOK, CancelCore, OrderStatus,
        At, SetStatus, CancelTo, codeVars, effectVars, gatewayVars
<1>6. CASE ConfirmPayment(t)
  <2>1. ThreadsOK'
    BY <1>th, <1>la, <1>jo, <1>6, GotoType, StopType DEF ConfirmPayment, At,
        Return
  <2>2. faults' \in 0 .. MaxFaults
    BY <1>fa, <1>6, ReadType DEF ConfirmPayment
  <2>. QED
    BY <2>1, <2>2, <1>jo, <1>6 DEF ThreadsOK, TypeOK, ConfirmPayment, At,
        Return, orderVars, codeVars, effectVars, gatewayVars
<1>7. CASE ToPaid(t)
  <2>1. ThreadsOK'
    BY <1>th, <1>la, <1>jo, <1>7, GotoType, StopType DEF ToPaid, At, Return
  <2>2. faults' \in 0 .. MaxFaults
    BY <1>fa, <1>7, SpendType DEF ToPaid
  <2>. QED
    BY <2>1, <2>2, <1>jo, <1>7 DEF ThreadsOK, TypeOK, ToPaid, OrderStatus, At,
        Return, SetStatus, orderVars, codeVars, effectVars, gatewayVars
<1>8. CASE AlreadyProcessed(t)
  <2>1. ThreadsOK'
    BY <1>th, <1>la, <1>jo, <1>8, GotoType, StopType DEF AlreadyProcessed, At,
        Return
  <2>2. faults' \in 0 .. MaxFaults
    BY <1>fa, <1>8, ReadType DEF AlreadyProcessed
  <2>. QED
    BY <2>1, <2>2, <1>jo, <1>8 DEF ThreadsOK, TypeOK, AlreadyProcessed, At,
        Return, orderVars, codeVars, effectVars, gatewayVars
<1>9. CASE ResetForRetry(t)
  <2>1. ThreadsOK'
    BY <1>th, <1>la, <1>jo, <1>9, GotoType, StopType DEF ResetForRetry, At,
        Return
  <2>2. faults' \in 0 .. MaxFaults
    BY <1>fa, <1>9, SpendType DEF ResetForRetry
  <2>. QED
    BY <2>1, <2>2, <1>jo, <1>9 DEF ThreadsOK, TypeOK, ResetForRetry,
        OrderStatus, At, Return, SetStatus, codeVars, effectVars, gatewayVars
<1>10. CASE CheckStatus(t)
  <2>1. ThreadsOK'
    BY <1>th, <1>la, <1>jo, <1>10, GotoType, StopType DEF CheckStatus, At,
        Return
  <2>2. faults' \in 0 .. MaxFaults
    BY <1>fa, <1>10, ReadType DEF CheckStatus
  <2>. QED
    BY <2>1, <2>2, <1>jo, <1>10 DEF ThreadsOK, TypeOK, CheckStatus, At,
        Return, orderVars, codeVars, effectVars, gatewayVars
<1>11. CASE LockOrder(t)
  <2>1. ThreadsOK'
    BY <1>th, <1>la, <1>jo, <1>11, GotoType, StopType DEF LockOrder, At,
        Return
  <2>2. faults' \in 0 .. MaxFaults
    BY <1>fa, <1>11, SpendType DEF LockOrder
  <2>. QED
    BY <2>1, <2>2, <1>jo, <1>11 DEF ThreadsOK, TypeOK, LockOrder, OrderStatus,
        At, Return, SetStatus, codeVars, effectVars, gatewayVars
<1>12. CASE FindCode(t)
  <2>0. RedeemAction(code[Job(t)]) \in {"claim", "redeem", "complete"}
    BY <1>jo, <1>12 DEF FindCode, At, TypeOK, RedeemAction
  <2>1. ThreadsOK'
    BY <1>th, <1>la, <1>jo, <2>0, <1>12, GotoType DEF FindCode, At
  <2>2. faults' \in 0 .. MaxFaults
    BY <1>fa, <1>12, ReadType DEF FindCode
  <2>. QED
    BY <2>1, <2>2, <1>jo, <1>12 DEF ThreadsOK, TypeOK, FindCode, At,
        orderVars, codeVars, effectVars, gatewayVars
<1>13. CASE ClaimBonus(t)
  <2>0. PICK r \in Outcomes, b \in BOOLEAN :
          thread' = [thread EXCEPT ![t] = [@ EXCEPT !.pc = "create",
                                                    !.bonus = b]]
    BY <1>13 DEF ClaimBonus, Applied, BonusEligible
  <2>1. ThreadsOK'
    BY <1>th, <1>la, <2>0, <1>13, GotoBonusType DEF ClaimBonus, At
  <2>2. faults' \in 0 .. MaxFaults
    BY <1>fa, <1>13, SpendType DEF ClaimBonus
  <2>. QED
    BY <2>1, <2>2, <1>jo, <1>13, ConstantsAssumption DEF ThreadsOK, TypeOK,
        ClaimBonus, At, orderVars, effectVars, gatewayVars,
        ConstantsAssumption
<1>14. CASE CreateCode(t)
  <2>1. ThreadsOK'
    BY <1>th, <1>la, <1>jo, <1>14, GotoType DEF CreateCode, At
  <2>2. faults' \in 0 .. MaxFaults
    BY <1>fa, <1>14, SpendType DEF CreateCode
  <2>. QED
    BY <2>1, <2>2, <1>jo, <1>14 DEF ThreadsOK, TypeOK, CreateCode, At,
        orderVars, effectVars, gatewayVars
<1>15. CASE RedeemChecks(t)
  <2>1. ThreadsOK'
    BY <1>th, <1>la, <1>jo, <1>15, GotoType DEF RedeemChecks, At
  <2>2. faults' \in 0 .. MaxFaults
    BY <1>fa, <1>15, ReadType DEF RedeemChecks
  <2>. QED
    BY <2>1, <2>2, <1>jo, <1>15 DEF ThreadsOK, TypeOK, RedeemChecks, At,
        orderVars, codeVars, effectVars, gatewayVars
<1>16. CASE RedeemTx(t)
  <2>1. ThreadsOK'
    BY <1>th, <1>la, <1>jo, <1>16, GotoType DEF RedeemTx, At
  <2>2. faults' \in 0 .. MaxFaults
    BY <1>fa, <1>16, SpendType DEF RedeemTx
  <2>. QED
    BY <2>1, <2>2, <1>jo, <1>16 DEF ThreadsOK, TypeOK, RedeemTx, At,
        orderVars, gatewayVars
<1>17. CASE CheckGroup(t)
  <2>1. ThreadsOK'
    BY <1>th, <1>la, <1>jo, <1>17, GotoType DEF CheckGroup, At
  <2>2. faults' \in 0 .. MaxFaults
    BY <1>fa, <1>17, ReadType DEF CheckGroup
  <2>. QED
    BY <2>1, <2>2, <1>jo, <1>17 DEF ThreadsOK, TypeOK, CheckGroup, At,
        orderVars, codeVars, effectVars, gatewayVars
<1>18. CASE AssignSubscription(t)
  <2>1. ThreadsOK'
    BY <1>th, <1>la, <1>jo, <1>18, GotoType DEF AssignSubscription, At
  <2>2. faults' \in 0 .. MaxFaults
    BY <1>fa, <1>18, SpendType DEF AssignSubscription
  <2>. QED
    BY <2>1, <2>2, <1>jo, <1>18 DEF ThreadsOK, TypeOK, AssignSubscription, At,
        orderVars, codeVars, gatewayVars
<1>19. CASE MarkCompleted(t)
  <2>1. ThreadsOK'
    BY <1>th, <1>la, <1>jo, <1>19, GotoType DEF MarkCompleted, At
  <2>2. faults' \in 0 .. MaxFaults
    BY <1>fa, <1>19, SpendType DEF MarkCompleted
  <2>. QED
    BY <2>1, <2>2, <1>jo, <1>19 DEF ThreadsOK, TypeOK, MarkCompleted,
        OrderStatus, At, SetStatus, codeVars, effectVars, gatewayVars
<1>20. CASE AuditAndReturn(t)
  <2>1. ThreadsOK'
    BY <1>th, <1>la, <1>jo, <1>20, StopType DEF AuditAndReturn, At, Return
  <2>2. faults' \in 0 .. MaxFaults
    BY <1>fa, <1>20, SpendType DEF AuditAndReturn
  <2>. QED
    BY <2>1, <2>2, <1>jo, <1>20 DEF ThreadsOK, TypeOK, AuditAndReturn, At,
        Return, orderVars, codeVars, gatewayVars
<1>21. CASE MarkFailed(t)
  <2>1. ThreadsOK'
    BY <1>th, <1>la, <1>jo, <1>21, StopType DEF MarkFailed, At, Return
  <2>2. faults' \in 0 .. MaxFaults
    BY <1>fa, <1>21, SpendType DEF MarkFailed
  <2>. QED
    BY <2>1, <2>2, <1>jo, <1>21 DEF ThreadsOK, TypeOK, MarkFailed,
        OrderStatus, At, Return, SetStatus, codeVars, effectVars, gatewayVars
<1>. QED
  BY <1>1, <1>2, <1>3, <1>4, <1>5, <1>6, <1>7, <1>8, <1>9, <1>10, <1>11,
      <1>12, <1>13, <1>14, <1>15, <1>16, <1>17, <1>18, <1>19, <1>20, <1>21 DEF
      Step

LEMMA TypeRequest ==
  ASSUME TypeOK, NEW t \in Threads, NEW o \in Orders, Request(t, o)
  PROVE  TypeOK'
<1>1. ThreadsOK
  BY DEF TypeOK, ThreadsOK
<1>2. ThreadsOK'
  BY <1>1, BeginType DEF Request, CreateOrder, PaymentSucceeded, CancelOrder,
      ExpireTimedOut, VerifyOrder, RetryFulfillment, Kinds, Labels
<1>. QED
  BY <1>2 DEF ThreadsOK, TypeOK, Request, CreateOrder, PaymentSucceeded,
      CancelOrder, ExpireTimedOut, VerifyOrder, RetryFulfillment, SetStatus,
      OrderStatus, orderVars, codeVars, effectVars, gatewayVars, handlerVars,
      bounds

LEMMA TypeOutside ==
  ASSUME TypeOK, NEW o \in Orders, Outside(o)
  PROVE  TypeOK'
BY DEF TypeOK, Outside, PayerPays, AttemptDeclined, HandlePaymentFailure,
    RedeemByHand, SetStatus, OrderStatus, orderVars, codeVars, effectVars,
    gatewayVars, handlerVars, bounds

LEMMA TypeAbort ==
  ASSUME TypeOK, NEW t \in Threads, Abort(t)
  PROVE  TypeOK'
<1>1. ThreadsOK
  BY DEF TypeOK, ThreadsOK
<1>2. ThreadsOK'
  BY <1>1, StopType DEF Abort
<1>. QED
  BY <1>2, ConstantsAssumption DEF ConstantsAssumption, ThreadsOK, TypeOK,
      Abort, orderVars, codeVars, effectVars, gatewayVars, handlerVars, bounds

LEMMA TypeNext == TypeOK /\ [Next]_vars => TypeOK'
<1>. SUFFICES ASSUME TypeOK, [Next]_vars
              PROVE  TypeOK'
  OBVIOUS
<1>1. CASE UNCHANGED vars
  BY <1>1 DEF TypeOK, vars, orderVars, codeVars, effectVars, gatewayVars,
      handlerVars, bounds
<1>. QED
  BY <1>1, TypeStep, TypeRequest, TypeOutside, TypeAbort DEF Next

\* Every reachable state is well typed (the columns hold what the code may
\* write, and every running handler has an order).
THEOREM TypeCorrect == Spec => []TypeOK
<1>1. Init => TypeOK
  BY ConstantsAssumption DEF ConstantsAssumption, Init, TypeOK, Handlers,
      Idle, OrderStatus, Kinds, Labels
<1>. QED
  BY <1>1, TypeNext, PTL DEF Spec

-----------------------------------------------------------------------------
\* The inductive invariant.

Creating == {"invoke", "unwind"}
\* Labels a handler reaches only with an order whose payment is recorded.
Holding == Fulfilling \cup {"already", "guard", "lock", "audit", "reset"}

\* One handler creates an order.  Until it has called the provider nobody can
\* pay, and until it gives up it has reopened nothing.
CreatorsInv ==
  /\ \A o \in Orders :
       status[o] = "NONE" => gateway[o] = "none" /\ o \notin unwound
  /\ \A t \in Threads :
       /\ thread[t].pc = "invoke" => gateway[Job(t)] = "none"
       /\ thread[t].pc \in Creating =>
            status[Job(t)] # "NONE" /\ Job(t) \notin unwound
  /\ \A t, u \in Threads :
       /\ thread[t].pc \in Creating
       /\ thread[u].pc \in Creating
       /\ Job(t) = Job(u)
       => t = u

\* What is recorded as paid was paid, and a paid order never leaves the four
\* statuses that follow a payment.
PaidInv ==
  /\ \A o \in paidAt : Charged(o)
  /\ \A o \in paidAt :
       status[o] \in {"PAID", "RECHARGING", "COMPLETED", "FAILED"}
  /\ \A o \in Orders :
       status[o] \in {"PAID", "RECHARGING", "COMPLETED"} => o \in paidAt
  /\ \A t \in Threads :
       /\ thread[t].pc = "confirm" => gateway[Job(t)] \in {"paid", "short"}
       /\ thread[t].pc = "pay" => Charged(Job(t))
       /\ thread[t].pc \in Holding => Job(t) \in paidAt

\* Who fulfils an order holds it in RECHARGING, or has completed it with an
\* update whose reply was lost, or has lost it to the order's creation.
LockInv ==
  /\ \A t \in Threads :
       thread[t].pc \in Fulfilling =>
         \/ status[Job(t)] = "RECHARGING"
         \/ thread[t].pc = "fail" /\ status[Job(t)] = "COMPLETED"
         \/ Job(t) \in unwound
  /\ OneFulfiller

CodeInv ==
  \A o \in Orders : code[o] # "none" => o \in BalanceOrders /\ o \in paidAt

\* The redemption of its code is the only credit of a balance order.
CreditInv ==
  \A o \in BalanceOrders : delivered[o] = IF code[o] = "used" THEN 1 ELSE 0

DeliveredInv ==
  /\ \A o \in Orders : delivered[o] > 0 => o \in paidAt
  /\ \A o \in subAudit : delivered[o] >= 1
  /\ \A o \in Orders : status[o] = "COMPLETED" => delivered[o] >= 1

\* What a fulfilling handler works on and what it has achieved.
StageInv ==
  \A t \in Threads :
    /\ thread[t].pc \in {"find", "claim", "create", "redeem", "use"}
         => Job(t) \in BalanceOrders
    /\ thread[t].pc \in {"group", "assign"} => Job(t) \notin BalanceOrders
    /\ thread[t].pc \in {"complete", "audit"} => delivered[Job(t)] >= 1

Control == CreatorsInv /\ PaidInv /\ LockInv
Value == CodeInv /\ CreditInv /\ DeliveredInv /\ StageInv
IInv == TypeOK /\ Control /\ Value

\* What a step does, in the form the proofs use.
Moves(t, l) ==
  /\ thread'[t].pc = l
  /\ l # "idle" => thread'[t].order = thread[t].order
  /\ \A u \in Threads : u # t => thread'[u] = thread[u]
Writes(t, from, to) ==
  \/ status' = status
  \/ status[Job(t)] \in from /\ status' = [status EXCEPT ![Job(t)] = to]
Types ==
  /\ status \in [Orders -> OrderStatus]
  /\ paidAt \subseteq Orders
  /\ code \in [Orders -> {"none", "unused", "used"}]
  /\ delivered \in [Orders -> Nat]
  /\ subAudit \subseteq Orders
  /\ unwound \subseteq Orders
  /\ gateway \in [Orders -> {"none", "open", "paid", "short", "closed"}]
  /\ \A t \in Threads : thread[t].pc # "idle" => thread[t].order \in Orders

\* Goto and the end of a handler change the thread's label and nothing else.
LEMMA Moving ==
  ASSUME TypeOK, NEW t \in Threads, NEW l
  PROVE  /\ Goto(t, l) => Moves(t, l)
         /\ thread' = [thread EXCEPT ![t] = Idle] => Moves(t, "idle")
BY DEF TypeOK, Handlers, Goto, Moves, Idle

LEMMA MovingBonus ==
  ASSUME TypeOK, NEW t \in Threads, NEW l, NEW b,
         thread' = [thread EXCEPT ![t] = [@ EXCEPT !.pc = l, !.bonus = b]]
  PROVE  Moves(t, l)
BY DEF TypeOK, Handlers, Moves

LEMMA InvStep ==
  ASSUME IInv, NEW t \in Threads, Step(t)
  PROVE  Control' /\ Value'
<1>. DEFINE o == Job(t)
<1>. HIDE DEF o
<1>ty. TypeOK /\ Types
  BY DEF IInv, TypeOK, Types
<1>go. \A l : Goto(t, l) => Moves(t, l)
  BY <1>ty, Moving
<1>st. thread' = [thread EXCEPT ![t] = Idle] => Moves(t, "idle")
  BY <1>ty, Moving
<1>jo. thread[t].pc # "idle" => o \in Orders
  BY <1>ty DEF Types, o, Job
<1>1. CASE InvokeProvider(t)
  <2>1. /\ At(t, "invoke")
        /\ UNCHANGED <<status, paidAt, code, delivered, subAudit, unwound>>
        /\ \/ Moves(t, "idle") /\ gateway' = [gateway EXCEPT ![o] = "open"]
           \/ /\ Moves(t, "unwind")
              /\ gateway' \in {gateway, [gateway EXCEPT ![o] = "open"]}
    <3>1. /\ At(t, "invoke")
          /\ UNCHANGED <<status, paidAt, codeVars, effectVars>>
          /\ \/ Goto(t, "unwind") /\ UNCHANGED gateway
             \/ \E r \in Outcomes :
                  /\ gateway' \in {gateway, [gateway EXCEPT ![o] = "open"]}
                  /\ r = "ok" => gateway' = [gateway EXCEPT ![o] = "open"]
                  /\ IF r = "ok" THEN thread' = [thread EXCEPT ![t] = Idle]
                                 ELSE Goto(t, "unwind")
      BY <1>1 DEF InvokeProvider, Applied, o
    <3>. QED
      BY <3>1, <1>go, <1>st DEF codeVars, effectVars
  <2>2. Control'
    BY <2>1, <1>ty, <1>jo DEF Types, o, Job, Moves, At, IInv, Control, Value,
        CreatorsInv, Creating, PaidInv, Charged, Holding, Fulfilling,
        Recoverable, LockFrom, OrderStatus, LockInv, OneFulfiller, Fulfils
  <2>3. Value'
    BY <2>1, <1>ty, <1>jo, ConstantsAssumption DEF Types, o, Job, Moves, At,
        IInv, Control, Value, CodeInv, PaidInv, Fulfilling, Holding, StageInv,
        CreditInv, ConstantsAssumption, DeliveredInv
  <2>. QED
    BY <2>2, <2>3 DEF Control, Value
<1>2. CASE InvokeFailed(t)
  <2>1. /\ At(t, "unwind")
        /\ Moves(t, "idle")
        /\ \/ UNCHANGED <<status, unwound>>
           \/ /\ status' = [status EXCEPT ![o] = "FAILED"]
              /\ status[o] \in {"RECHARGING", "COMPLETED"} =>
                   unwound' = unwound \cup {o}
              /\ status[o] \notin {"RECHARGING", "COMPLETED"} =>
                   unwound' = unwound
        /\ UNCHANGED <<paidAt, code, delivered, subAudit, gateway>>
    BY <1>2, <1>go, <1>st, <1>jo, <1>ty DEF Types, InvokeFailed, At, o,
        Return, SetStatus, CanCAS, Writes, Applied, codeVars, effectVars,
        gatewayVars
  <2>2. Control'
    BY <2>1, <1>ty, <1>jo DEF Types, o, Job, Moves, At, IInv, Control, Value,
        CreatorsInv, Creating, PaidInv, Charged, Holding, Fulfilling,
        Recoverable, LockFrom, OrderStatus, LockInv, OneFulfiller, Fulfils
  <2>3. Value'
    BY <2>1, <1>ty, <1>jo, ConstantsAssumption DEF Types, o, Job, Moves, At,
        IInv, Control, Value, CodeInv, PaidInv, Fulfilling, Holding, StageInv,
        CreditInv, ConstantsAssumption, DeliveredInv
  <2>. QED
    BY <2>2, <2>3 DEF Control, Value
<1>3. CASE QueryUpstream(t)
  <2>1. /\ At(t, "query")
        /\ \/ Moves(t, "idle")
           \/ Moves(t, "cancel")
           \/ Moves(t, "close")
           \/ gateway[o] \in {"paid", "short"} /\ Moves(t, "confirm")
        /\ UNCHANGED <<status, paidAt, code, delivered, subAudit, unwound,
                       gateway>>
    BY <1>3, <1>go, <1>st, <1>jo, <1>ty DEF Types, QueryUpstream, At, o,
        orderVars, codeVars, effectVars, gatewayVars, bounds
  <2>2. Control'
    BY <2>1, <1>ty, <1>jo DEF Types, o, Job, Moves, At, IInv, Control, Value,
        CreatorsInv, Creating, PaidInv, Charged, Holding, Fulfilling,
        Recoverable, LockFrom, OrderStatus, LockInv, OneFulfiller, Fulfils
  <2>3. Value'
    BY <2>1, <1>ty, <1>jo, ConstantsAssumption DEF Types, o, Job, Moves, At,
        IInv, Control, Value, CodeInv, PaidInv, Fulfilling, Holding, StageInv,
        CreditInv, ConstantsAssumption, DeliveredInv
  <2>. QED
    BY <2>2, <2>3 DEF Control, Value
<1>4. CASE CloseUpstream(t)
  <2>1. /\ At(t, "close")
        /\ Moves(t, "cancel")
        /\ \/ UNCHANGED gateway
           \/ gateway[o] = "open" /\ gateway' = [gateway EXCEPT ![o] = "closed"]
        /\ UNCHANGED <<status, paidAt, code, delivered, subAudit, unwound>>
    BY <1>4, <1>go, <1>st, <1>jo, <1>ty DEF Types, CloseUpstream, At, o,
        orderVars, codeVars, effectVars, bounds
  <2>2. Control'
    BY <2>1, <1>ty, <1>jo DEF Types, o, Job, Moves, At, IInv, Control, Value,
        CreatorsInv, Creating, PaidInv, Charged, Holding, Fulfilling,
        Recoverable, LockFrom, OrderStatus, LockInv, OneFulfiller, Fulfils
  <2>3. Value'
    BY <2>1, <1>ty, <1>jo, ConstantsAssumption DEF Types, o, Job, Moves, At,
        IInv, Control, Value, CodeInv, PaidInv, Fulfilling, Holding, StageInv,
        CreditInv, ConstantsAssumption, DeliveredInv
  <2>. QED
    BY <2>2, <2>3 DEF Control, Value
<1>5. CASE CancelCore(t)
  <2>1. /\ At(t, "cancel")
        /\ Moves(t, "idle")
        /\ \/ Writes(t, {"PENDING"}, "EXPIRED")
           \/ Writes(t, {"PENDING"}, "CANCELLED")
        /\ UNCHANGED <<paidAt, code, delivered, subAudit, unwound, gateway>>
    BY <1>5, <1>go, <1>st, <1>jo, <1>ty DEF Types, CancelCore, At, o, Return,
        SetStatus, CanCAS, Writes, Applied, CancelFrom, CancelTo, codeVars,
        effectVars, gatewayVars
  <2>2. Control'
    BY <2>1, <1>ty, <1>jo DEF Types, o, Job, Moves, Writes, At, IInv, Control,
        Value, CreatorsInv, Creating, PaidInv, Charged, Holding, Fulfilling,
        Recoverable, LockFrom, OrderStatus, LockInv, OneFulfiller, Fulfils
  <2>3. Value'
    BY <2>1, <1>ty, <1>jo, ConstantsAssumption DEF Types, o, Job, Moves,
        Writes, At, IInv, Control, Value, CodeInv, PaidInv, Fulfilling,
        Holding, StageInv, CreditInv, ConstantsAssumption, DeliveredInv
  <2>. QED
    BY <2>2, <2>3 DEF Control, Value
<1>6. CASE ConfirmPayment(t)
  <2>1. /\ At(t, "confirm")
        /\ \/ Moves(t, "idle")
           \/ Moves(t, "pay") /\ (o \in Reporting => gateway[o] # "short")
        /\ UNCHANGED <<status, paidAt, code, delivered, subAudit, unwound,
                       gateway>>
    BY <1>6, <1>go, <1>st, <1>jo, <1>ty DEF Types, ConfirmPayment, At, o,
        Return, AmountMatches, orderVars, codeVars, effectVars, gatewayVars
  <2>2. Control'
    BY <2>1, <1>ty, <1>jo DEF Types, o, Job, Moves, At, IInv, Control, Value,
        CreatorsInv, Creating, PaidInv, Charged, Holding, Fulfilling,
        Recoverable, LockFrom, OrderStatus, LockInv, OneFulfiller, Fulfils
  <2>3. Value'
    BY <2>1, <1>ty, <1>jo, ConstantsAssumption DEF Types, o, Job, Moves, At,
        IInv, Control, Value, CodeInv, PaidInv, Fulfilling, Holding, StageInv,
        CreditInv, ConstantsAssumption, DeliveredInv
  <2>. QED
    BY <2>2, <2>3 DEF Control, Value
<1>7. CASE ToPaid(t)
  <2>1. /\ At(t, "pay")
        /\ UNCHANGED <<code, delivered, subAudit, unwound, gateway>>
        /\ \/ /\ status[o] \in Recoverable
              /\ status' = [status EXCEPT ![o] = "PAID"]
              /\ paidAt' = paidAt \cup {o}
              /\ Moves(t, "guard") \/ Moves(t, "idle")
           \/ /\ status[o] \notin Recoverable
              /\ UNCHANGED <<status, paidAt>>
              /\ Moves(t, "already")
           \/ UNCHANGED <<status, paidAt>> /\ Moves(t, "idle")
    BY <1>7, <1>go, <1>st, <1>jo, <1>ty DEF Types, ToPaid, At, o, Return,
        SetStatus, CanCAS, Applied, orderVars, codeVars, effectVars,
        gatewayVars
  <2>2. Control'
    BY <2>1, <1>ty, <1>jo DEF Types, o, Job, Moves, At, IInv, Control, Value,
        CreatorsInv, Creating, PaidInv, Charged, Holding, Fulfilling,
        Recoverable, LockFrom, OrderStatus, LockInv, OneFulfiller, Fulfils
  <2>3. Value'
    BY <2>1, <1>ty, <1>jo, ConstantsAssumption DEF Types, o, Job, Moves, At,
        IInv, Control, Value, CodeInv, PaidInv, Fulfilling, Holding, StageInv,
        CreditInv, ConstantsAssumption, DeliveredInv
  <2>. QED
    BY <2>2, <2>3 DEF Control, Value
<1>8. CASE AlreadyProcessed(t)
  <2>1. /\ At(t, "already")
        /\ Moves(t, "idle") \/ Moves(t, "guard")
        /\ UNCHANGED <<status, paidAt, code, delivered, subAudit, unwound,
                       gateway>>
    BY <1>8, <1>go, <1>st, <1>jo, <1>ty DEF Types, AlreadyProcessed, At, o,
        Return, orderVars, codeVars, effectVars, gatewayVars
  <2>2. Control'
    BY <2>1, <1>ty, <1>jo DEF Types, o, Job, Moves, At, IInv, Control, Value,
        CreatorsInv, Creating, PaidInv, Charged, Holding, Fulfilling,
        Recoverable, LockFrom, OrderStatus, LockInv, OneFulfiller, Fulfils
  <2>3. Value'
    BY <2>1, <1>ty, <1>jo, ConstantsAssumption DEF Types, o, Job, Moves, At,
        IInv, Control, Value, CodeInv, PaidInv, Fulfilling, Holding, StageInv,
        CreditInv, ConstantsAssumption, DeliveredInv
  <2>. QED
    BY <2>2, <2>3 DEF Control, Value
<1>9. CASE ResetForRetry(t)
  <2>1. /\ At(t, "reset")
        /\ Moves(t, "idle") \/ Moves(t, "guard")
        /\ Writes(t, {"FAILED", "PAID"}, "PAID")
        /\ UNCHANGED <<paidAt, code, delivered, subAudit, unwound, gateway>>
    BY <1>9, <1>go, <1>st, <1>jo, <1>ty DEF Types, ResetForRetry, At, o,
        Return, SetStatus, CanCAS, Writes, Applied, codeVars, effectVars,
        gatewayVars
  <2>2. Control'
    BY <2>1, <1>ty, <1>jo DEF Types, o, Job, Moves, Writes, At, IInv, Control,
        Value, CreatorsInv, Creating, PaidInv, Charged, Holding, Fulfilling,
        Recoverable, LockFrom, OrderStatus, LockInv, OneFulfiller, Fulfils
  <2>3. Value'
    BY <2>1, <1>ty, <1>jo, ConstantsAssumption DEF Types, o, Job, Moves,
        Writes, At, IInv, Control, Value, CodeInv, PaidInv, Fulfilling,
        Holding, StageInv, CreditInv, ConstantsAssumption, DeliveredInv
  <2>. QED
    BY <2>2, <2>3 DEF Control, Value
<1>10. CASE CheckStatus(t)
  <2>1. /\ At(t, "guard")
        /\ Moves(t, "idle") \/ Moves(t, "lock")
        /\ UNCHANGED <<status, paidAt, code, delivered, subAudit, unwound,
                       gateway>>
    BY <1>10, <1>go, <1>st, <1>jo, <1>ty DEF Types, CheckStatus, At, o,
        Return, orderVars, codeVars, effectVars, gatewayVars
  <2>2. Control'
    BY <2>1, <1>ty, <1>jo DEF Types, o, Job, Moves, At, IInv, Control, Value,
        CreatorsInv, Creating, PaidInv, Charged, Holding, Fulfilling,
        Recoverable, LockFrom, OrderStatus, LockInv, OneFulfiller, Fulfils
  <2>3. Value'
    BY <2>1, <1>ty, <1>jo, ConstantsAssumption DEF Types, o, Job, Moves, At,
        IInv, Control, Value, CodeInv, PaidInv, Fulfilling, Holding, StageInv,
        CreditInv, ConstantsAssumption, DeliveredInv
  <2>. QED
    BY <2>2, <2>3 DEF Control, Value
<1>11. CASE LockOrder(t)
  <2>1. /\ At(t, "lock")
        /\ UNCHANGED <<paidAt, code, delivered, subAudit, unwound, gateway>>
        /\ \/ /\ status[o] \in LockFrom
              /\ status' = [status EXCEPT ![o] = "RECHARGING"]
              /\ \/ Moves(t, "idle")
                 \/ o \in BalanceOrders /\ Moves(t, "find")
                 \/ o \notin BalanceOrders /\ Moves(t, "group")
           \/ UNCHANGED status /\ Moves(t, "idle")
    BY <1>11, <1>go, <1>st, <1>jo, <1>ty DEF Types, LockOrder, At, o, Return,
        SetStatus, CanCAS, Applied, codeVars, effectVars, gatewayVars
  <2>2. Control'
    BY <2>1, <1>ty, <1>jo DEF Types, o, Job, Moves, At, IInv, Control, Value,
        CreatorsInv, Creating, PaidInv, Charged, Holding, Fulfilling,
        Recoverable, LockFrom, OrderStatus, LockInv, OneFulfiller, Fulfils
  <2>3. Value'
    BY <2>1, <1>ty, <1>jo, ConstantsAssumption DEF Types, o, Job, Moves, At,
        IInv, Control, Value, CodeInv, PaidInv, Fulfilling, Holding, StageInv,
        CreditInv, ConstantsAssumption, DeliveredInv
  <2>. QED
    BY <2>2, <2>3 DEF Control, Value
<1>12. CASE FindCode(t)
  <2>1. /\ At(t, "find")
        /\ \/ Moves(t, "claim")
           \/ code[o] = "unused" /\ Moves(t, "redeem")
           \/ code[o] = "used" /\ Moves(t, "complete")
        /\ UNCHANGED <<status, paidAt, code, delivered, subAudit, unwound,
                       gateway>>
    BY <1>12, <1>go, <1>st, <1>jo, <1>ty DEF Types, FindCode, At, o,
        RedeemAction, orderVars, codeVars, effectVars, gatewayVars
  <2>2. Control'
    BY <2>1, <1>ty, <1>jo DEF Types, o, Job, Moves, At, IInv, Control, Value,
        CreatorsInv, Creating, PaidInv, Charged, Holding, Fulfilling,
        Recoverable, LockFrom, OrderStatus, LockInv, OneFulfiller, Fulfils
  <2>3. Value'
    BY <2>1, <1>ty, <1>jo, ConstantsAssumption DEF Types, o, Job, Moves, At,
        IInv, Control, Value, CodeInv, PaidInv, Fulfilling, Holding, StageInv,
        CreditInv, ConstantsAssumption, DeliveredInv
  <2>. QED
    BY <2>2, <2>3 DEF Control, Value
<1>13. CASE ClaimBonus(t)
  <2>1. /\ At(t, "claim")
        /\ Moves(t, "create")
        /\ UNCHANGED <<status, paidAt, code, delivered, subAudit, unwound,
                       gateway>>
    BY <1>13, MovingBonus, <1>ty, <1>jo, <1>ty DEF Types, ClaimBonus, At, o,
        orderVars, effectVars, gatewayVars
  <2>2. Control'
    BY <2>1, <1>ty, <1>jo DEF Types, o, Job, Moves, At, IInv, Control, Value,
        CreatorsInv, Creating, PaidInv, Charged, Holding, Fulfilling,
        Recoverable, LockFrom, OrderStatus, LockInv, OneFulfiller, Fulfils
  <2>3. Value'
    BY <2>1, <1>ty, <1>jo, ConstantsAssumption DEF Types, o, Job, Moves, At,
        IInv, Control, Value, CodeInv, PaidInv, Fulfilling, Holding, StageInv,
        CreditInv, ConstantsAssumption, DeliveredInv
  <2>. QED
    BY <2>2, <2>3 DEF Control, Value
<1>14. CASE CreateCode(t)
  <2>1. /\ At(t, "create")
        /\ Moves(t, "redeem") \/ Moves(t, "fail")
        /\ \/ UNCHANGED code
           \/ code[o] = "none" /\ code' = [code EXCEPT ![o] = "unused"]
        /\ UNCHANGED <<status, paidAt, delivered, subAudit, unwound, gateway>>
    BY <1>14, <1>go, <1>st, <1>jo, <1>ty DEF Types, CreateCode, At, o,
        orderVars, effectVars, gatewayVars
  <2>2. Control'
    BY <2>1, <1>ty, <1>jo DEF Types, o, Job, Moves, At, IInv, Control, Value,
        CreatorsInv, Creating, PaidInv, Charged, Holding, Fulfilling,
        Recoverable, LockFrom, OrderStatus, LockInv, OneFulfiller, Fulfils
  <2>3. Value'
    BY <2>1, <1>ty, <1>jo, ConstantsAssumption DEF Types, o, Job, Moves, At,
        IInv, Control, Value, CodeInv, PaidInv, Fulfilling, Holding, StageInv,
        CreditInv, ConstantsAssumption, DeliveredInv
  <2>. QED
    BY <2>2, <2>3 DEF Control, Value
<1>15. CASE RedeemChecks(t)
  <2>1. /\ At(t, "redeem")
        /\ Moves(t, "use") \/ Moves(t, "fail")
        /\ UNCHANGED <<status, paidAt, code, delivered, subAudit, unwound,
                       gateway>>
    BY <1>15, <1>go, <1>st, <1>jo, <1>ty DEF Types, RedeemChecks, At, o,
        orderVars, codeVars, effectVars, gatewayVars
  <2>2. Control'
    BY <2>1, <1>ty, <1>jo DEF Types, o, Job, Moves, At, IInv, Control, Value,
        CreatorsInv, Creating, PaidInv, Charged, Holding, Fulfilling,
        Recoverable, LockFrom, OrderStatus, LockInv, OneFulfiller, Fulfils
  <2>3. Value'
    BY <2>1, <1>ty, <1>jo, ConstantsAssumption DEF Types, o, Job, Moves, At,
        IInv, Control, Value, CodeInv, PaidInv, Fulfilling, Holding, StageInv,
        CreditInv, ConstantsAssumption, DeliveredInv
  <2>. QED
    BY <2>2, <2>3 DEF Control, Value
<1>16. CASE RedeemTx(t)
  <2>1. /\ At(t, "use")
        /\ UNCHANGED <<status, paidAt, subAudit, unwound, gateway>>
        /\ \/ Moves(t, "fail") /\ UNCHANGED <<code, delivered>>
           \/ /\ code[o] = "unused"
              /\ code' = [code EXCEPT ![o] = "used"]
              /\ delivered' = [delivered EXCEPT ![o] = @ + 1]
              /\ Moves(t, "complete") \/ Moves(t, "fail")
    BY <1>16, <1>go, <1>st, <1>jo, <1>ty DEF Types, RedeemTx, At, o,
        CodeUnused, Applied, orderVars, gatewayVars
  <2>2. Control'
    BY <2>1, <1>ty, <1>jo DEF Types, o, Job, Moves, At, IInv, Control, Value,
        CreatorsInv, Creating, PaidInv, Charged, Holding, Fulfilling,
        Recoverable, LockFrom, OrderStatus, LockInv, OneFulfiller, Fulfils
  <2>3. Value'
    BY <2>1, <1>ty, <1>jo, ConstantsAssumption DEF Types, o, Job, Moves, At,
        IInv, Control, Value, CodeInv, PaidInv, Fulfilling, Holding, StageInv,
        CreditInv, ConstantsAssumption, DeliveredInv
  <2>. QED
    BY <2>2, <2>3 DEF Control, Value
<1>17. CASE CheckGroup(t)
  <2>1. /\ At(t, "group")
        /\ \/ Moves(t, "assign")
           \/ Moves(t, "fail")
           \/ o \in subAudit /\ Moves(t, "complete")
        /\ UNCHANGED <<status, paidAt, code, delivered, subAudit, unwound,
                       gateway>>
    BY <1>17, <1>go, <1>st, <1>jo, <1>ty DEF Types, CheckGroup, At, o,
        ExtendedInAudit, orderVars, codeVars, effectVars, gatewayVars
  <2>2. Control'
    BY <2>1, <1>ty, <1>jo DEF Types, o, Job, Moves, At, IInv, Control, Value,
        CreatorsInv, Creating, PaidInv, Charged, Holding, Fulfilling,
        Recoverable, LockFrom, OrderStatus, LockInv, OneFulfiller, Fulfils
  <2>3. Value'
    BY <2>1, <1>ty, <1>jo, ConstantsAssumption DEF Types, o, Job, Moves, At,
        IInv, Control, Value, CodeInv, PaidInv, Fulfilling, Holding, StageInv,
        CreditInv, ConstantsAssumption, DeliveredInv
  <2>. QED
    BY <2>2, <2>3 DEF Control, Value
<1>18. CASE AssignSubscription(t)
  <2>1. /\ At(t, "assign")
        /\ UNCHANGED <<status, paidAt, code, subAudit, unwound, gateway>>
        /\ \/ Moves(t, "fail") /\ UNCHANGED delivered
           \/ /\ delivered' = [delivered EXCEPT ![o] = @ + 1]
              /\ Moves(t, "complete") \/ Moves(t, "fail")
    BY <1>18, <1>go, <1>st, <1>jo, <1>ty DEF Types, AssignSubscription, At, o,
        Applied, orderVars, codeVars, gatewayVars
  <2>2. Control'
    BY <2>1, <1>ty, <1>jo DEF Types, o, Job, Moves, At, IInv, Control, Value,
        CreatorsInv, Creating, PaidInv, Charged, Holding, Fulfilling,
        Recoverable, LockFrom, OrderStatus, LockInv, OneFulfiller, Fulfils
  <2>3. Value'
    BY <2>1, <1>ty, <1>jo, ConstantsAssumption DEF Types, o, Job, Moves, At,
        IInv, Control, Value, CodeInv, PaidInv, Fulfilling, Holding, StageInv,
        CreditInv, ConstantsAssumption, DeliveredInv
  <2>. QED
    BY <2>2, <2>3 DEF Control, Value
<1>19. CASE MarkCompleted(t)
  <2>1. /\ At(t, "complete")
        /\ Moves(t, "audit") \/ Moves(t, "fail")
        /\ Writes(t, {"RECHARGING"}, "COMPLETED")
        /\ UNCHANGED <<paidAt, code, delivered, subAudit, unwound, gateway>>
    BY <1>19, <1>go, <1>st, <1>jo, <1>ty DEF Types, MarkCompleted, At, o,
        Return, SetStatus, CanCAS, Writes, Applied, codeVars, effectVars,
        gatewayVars
  <2>2. Control'
    BY <2>1, <1>ty, <1>jo DEF Types, o, Job, Moves, Writes, At, IInv, Control,
        Value, CreatorsInv, Creating, PaidInv, Charged, Holding, Fulfilling,
        Recoverable, LockFrom, OrderStatus, LockInv, OneFulfiller, Fulfils
  <2>3. Value'
    BY <2>1, <1>ty, <1>jo, ConstantsAssumption DEF Types, o, Job, Moves,
        Writes, At, IInv, Control, Value, CodeInv, PaidInv, Fulfilling,
        Holding, StageInv, CreditInv, ConstantsAssumption, DeliveredInv
  <2>. QED
    BY <2>2, <2>3 DEF Control, Value
<1>20. CASE AuditAndReturn(t)
  <2>1. /\ At(t, "audit")
        /\ Moves(t, "idle")
        /\ subAudit' \in {subAudit, subAudit \cup {o}}
        /\ UNCHANGED <<status, paidAt, code, delivered, unwound, gateway>>
    BY <1>20, <1>go, <1>st, <1>jo, <1>ty DEF Types, AuditAndReturn, At, o,
        Return, orderVars, codeVars, gatewayVars
  <2>2. Control'
    BY <2>1, <1>ty, <1>jo DEF Types, o, Job, Moves, At, IInv, Control, Value,
        CreatorsInv, Creating, PaidInv, Charged, Holding, Fulfilling,
        Recoverable, LockFrom, OrderStatus, LockInv, OneFulfiller, Fulfils
  <2>3. Value'
    BY <2>1, <1>ty, <1>jo, ConstantsAssumption DEF Types, o, Job, Moves, At,
        IInv, Control, Value, CodeInv, PaidInv, Fulfilling, Holding, StageInv,
        CreditInv, ConstantsAssumption, DeliveredInv
  <2>. QED
    BY <2>2, <2>3 DEF Control, Value
<1>21. CASE MarkFailed(t)
  <2>1. /\ At(t, "fail")
        /\ Moves(t, "idle")
        /\ Writes(t, {"RECHARGING"}, "FAILED")
        /\ UNCHANGED <<paidAt, code, delivered, subAudit, unwound, gateway>>
    BY <1>21, <1>go, <1>st, <1>jo, <1>ty DEF Types, MarkFailed, At, o, Return,
        SetStatus, CanCAS, Writes, Applied, FailFrom, codeVars, effectVars,
        gatewayVars
  <2>2. Control'
    BY <2>1, <1>ty, <1>jo DEF Types, o, Job, Moves, Writes, At, IInv, Control,
        Value, CreatorsInv, Creating, PaidInv, Charged, Holding, Fulfilling,
        Recoverable, LockFrom, OrderStatus, LockInv, OneFulfiller, Fulfils
  <2>3. Value'
    BY <2>1, <1>ty, <1>jo, ConstantsAssumption DEF Types, o, Job, Moves,
        Writes, At, IInv, Control, Value, CodeInv, PaidInv, Fulfilling,
        Holding, StageInv, CreditInv, ConstantsAssumption, DeliveredInv
  <2>. QED
    BY <2>2, <2>3 DEF Control, Value
<1>. QED
  BY <1>1, <1>2, <1>3, <1>4, <1>5, <1>6, <1>7, <1>8, <1>9, <1>10, <1>11,
      <1>12, <1>13, <1>14, <1>15, <1>16, <1>17, <1>18, <1>19, <1>20, <1>21 DEF
      Step

\* A request only starts a handler; CreateOrder also inserts the row.
LEMMA InvRequest ==
  ASSUME IInv, NEW t \in Threads, NEW o \in Orders, Request(t, o)
  PROVE  Control' /\ Value'
<1>ty. TypeOK /\ Types
  BY DEF IInv, TypeOK, Types
<1>be. \A k, l : Begin(t, k, o, l) =>
          /\ thread[t].pc = "idle"
          /\ thread'[t].pc = l /\ thread'[t].order = o
          /\ \A u \in Threads : u # t => thread'[u] = thread[u]
  BY <1>ty DEF Begin, At, TypeOK, Handlers
<1>1. /\ UNCHANGED <<paidAt, code, delivered, subAudit, unwound, gateway>>
      /\ thread[t].pc = "idle" /\ thread'[t].order = o
      /\ \A u \in Threads : u # t => thread'[u] = thread[u]
      /\ \/ /\ status[o] = "NONE" /\ status' = [status EXCEPT ![o] = "PENDING"]
            /\ thread'[t].pc = "invoke"
         \/ /\ UNCHANGED status
            /\ \/ thread'[t].pc = "query"
               \/ gateway[o] \in {"paid", "short"} /\ thread'[t].pc = "confirm"
               \/ o \in paidAt /\ thread'[t].pc = "reset"
  BY <1>be DEF Request, CreateOrder, PaymentSucceeded, CancelOrder,
      ExpireTimedOut, VerifyOrder, RetryFulfillment, SetStatus, orderVars,
      codeVars, effectVars, gatewayVars
<1>2. CreatorsInv'
  BY <1>1, <1>ty DEF Types, Job, IInv, Control, CreatorsInv, Creating
<1>3. PaidInv'
  BY <1>1, <1>ty DEF Types, Job, IInv, Control, PaidInv, Charged,
      CreatorsInv, Creating, Holding, Fulfilling
<1>4. LockInv'
  BY <1>1, <1>ty DEF Types, Job, IInv, Control, LockInv, OneFulfiller,
      Fulfils, Fulfilling, PaidInv, Holding
<1>5. Value'
  BY <1>1, <1>ty, ConstantsAssumption DEF Types, Job, IInv, Value, CodeInv,
      CreditInv, DeliveredInv, StageInv, ConstantsAssumption
<1>. QED
  BY <1>2, <1>3, <1>4, <1>5 DEF Control

\* The payer, the provider and the owner of the code.
LEMMA InvOutside ==
  ASSUME IInv, NEW o \in Orders, Outside(o)
  PROVE  Control' /\ Value'
<1>ty. TypeOK /\ Types
  BY DEF IInv, TypeOK, Types
<1>1. /\ UNCHANGED <<paidAt, subAudit, unwound, thread>>
      /\ \/ /\ gateway[o] = "open"
            /\ gateway' \in {[gateway EXCEPT ![o] = "paid"],
                             [gateway EXCEPT ![o] = "short"]}
            /\ UNCHANGED <<status, code, delivered>>
         \/ UNCHANGED <<status, code, delivered, gateway>>
         \/ /\ status[o] = "PENDING"
            /\ status' = [status EXCEPT ![o] = "FAILED"]
            /\ UNCHANGED <<code, delivered, gateway>>
         \/ /\ code[o] = "unused"
            /\ code' = [code EXCEPT ![o] = "used"]
            /\ delivered' = [delivered EXCEPT ![o] = @ + 1]
            /\ UNCHANGED <<status, gateway>>
  BY DEF Outside, PayerPays, AttemptDeclined, HandlePaymentFailure,
      RedeemByHand, SetStatus, CanCAS, orderVars, codeVars, effectVars,
      gatewayVars, handlerVars
<1>2. Control'
  BY <1>1, <1>ty DEF Types, Job, IInv, Control, CreatorsInv, Creating, PaidInv,
      Charged,
      Holding, Fulfilling, LockInv, OneFulfiller, Fulfils
<1>3. Value'
  BY <1>1, <1>ty, ConstantsAssumption DEF Types, Job, IInv, Value, CodeInv,
      CreditInv, DeliveredInv, StageInv, ConstantsAssumption
<1>. QED
  BY <1>2, <1>3

\* A handler that dies gives up its labels and leaves the data as it is.
LEMMA InvAbort ==
  ASSUME IInv, NEW t \in Threads, Abort(t)
  PROVE  Control' /\ Value'
<1>ty. TypeOK /\ Types
  BY DEF IInv, TypeOK, Types
<1>1. /\ Moves(t, "idle")
      /\ UNCHANGED <<status, paidAt, code, delivered, subAudit, unwound,
                     gateway>>
  BY <1>ty, Moving DEF Abort, orderVars, codeVars, effectVars, gatewayVars
<1>2. Control'
  BY <1>1, <1>ty DEF Types, Moves, Job, IInv, Control, CreatorsInv, Creating,
      PaidInv, Charged, Holding, Fulfilling, LockInv, OneFulfiller, Fulfils
<1>3. Value'
  BY <1>1, <1>ty DEF Types, Moves, Job, IInv, Value, CodeInv, CreditInv,
      DeliveredInv, StageInv
<1>. QED
  BY <1>2, <1>3

LEMMA InvNext == IInv /\ [Next]_vars => IInv'
<1>. SUFFICES ASSUME IInv, [Next]_vars
              PROVE  IInv'
  OBVIOUS
<1>1. TypeOK'
  BY TypeNext DEF IInv
<1>2. CASE UNCHANGED vars
  <2>1. Control'
    BY <1>2 DEF IInv, Control, CreatorsInv, PaidInv, Charged, LockInv,
        OneFulfiller, Fulfils, Job, vars, orderVars, codeVars, effectVars,
        gatewayVars, handlerVars
  <2>2. Value'
    BY <1>2 DEF IInv, Value, CodeInv, CreditInv, DeliveredInv, StageInv, Job,
        vars, orderVars, codeVars, effectVars, gatewayVars, handlerVars
  <2>. QED
    BY <1>1, <2>1, <2>2 DEF IInv
<1>. QED
  BY <1>1, <1>2, InvStep, InvRequest, InvOutside, InvAbort DEF Next, IInv

LEMMA InvInit == Init => IInv
<1>1. Init => TypeOK
  BY ConstantsAssumption DEF ConstantsAssumption, Init, TypeOK, Handlers, Idle,
      OrderStatus, Kinds, Labels
<1>2. Init => Control
  BY DEF Init, Idle, Control, CreatorsInv, Creating, PaidInv, Holding,
      Fulfilling, LockInv, OneFulfiller, Fulfils
<1>3. Init => Value
  BY ConstantsAssumption DEF ConstantsAssumption, Init, Idle, Value, CodeInv,
      CreditInv, DeliveredInv, StageInv
<1>. QED
  BY <1>1, <1>2, <1>3 DEF IInv

\* Every reachable state satisfies the inductive invariant.
THEOREM Invariance == Spec => []IInv
  BY InvInit, InvNext, PTL DEF Spec

-----------------------------------------------------------------------------
\* What follows from the invariant.

\* However many handlers, orders, failures and deaths there are, the update
\* to RECHARGING lets one handler at a time fulfil an order, until the order's
\* own creation writes FAILED over that update.
THEOREM FulfilmentIsExclusive == Spec => []OneFulfiller
<1>1. IInv => OneFulfiller
  BY DEF IInv, Control, LockInv
<1>. QED
  BY <1>1, Invariance, PTL

\* No balance order is credited twice, whatever fails or is repeated.
THEOREM CreditIsUnique == Spec => []CreditedAtMostOnce
<1>1. IInv => CreditedAtMostOnce
  BY ConstantsAssumption DEF IInv, Value, CreditInv, CreditedAtMostOnce
<1>. QED
  BY <1>1, Invariance, PTL

\* COMPLETED means delivered, for balance and subscription orders.
THEOREM CompletionFollowsDelivery == Spec => []CompletedIsDelivered
<1>1. IInv => CompletedIsDelivered
  BY DEF IInv, Value, DeliveredInv, CompletedIsDelivered
<1>. QED
  BY <1>1, Invariance, PTL

\* Nothing is delivered that the provider was not paid for, nor paid for in
\* part if it says how much.
THEOREM DeliveryFollowsPayment == Spec => []DeliveredIsPaid
<1>1. IInv => DeliveredIsPaid
  BY DEF IInv, Control, PaidInv, Value, DeliveredInv, DeliveredIsPaid
<1>. QED
  BY <1>1, Invariance, PTL

-----------------------------------------------------------------------------
\* What a step may do to the payment record: the action properties and the
\* refinement of Settlement.

\* The six things that happen to an order's row, its payment and its value.
Quiet == UNCHANGED <<status, paidAt, delivered, unwound>>
Restatus(o) ==
  /\ status[o] # "COMPLETED"
  /\ \E s \in OrderStatus \ {"COMPLETED"} : status' = [status EXCEPT ![o] = s]
  /\ UNCHANGED <<paidAt, delivered, unwound>>
Pay(o) ==
  /\ status[o] # "COMPLETED"
  /\ status' = [status EXCEPT ![o] = "PAID"]
  /\ paidAt' = paidAt \cup {o}
  /\ UNCHANGED <<delivered, unwound>>
Complete(o) ==
  /\ delivered[o] >= 1
  /\ status' = [status EXCEPT ![o] = "COMPLETED"]
  /\ UNCHANGED <<paidAt, delivered, unwound>>
Deliver(o) ==
  /\ o \in BalanceOrders => delivered[o] = 0 /\ o \in paidAt
  /\ delivered' = [delivered EXCEPT ![o] = @ + 1]
  /\ UNCHANGED <<status, paidAt, unwound>>
Unwind(o) ==
  /\ o \in paidAt \ unwound
  /\ unwound' = unwound \cup {o}
  /\ status' = [status EXCEPT ![o] = "FAILED"]
  /\ UNCHANGED <<paidAt, delivered>>
Effect(o) ==
  \/ Quiet \/ Restatus(o) \/ Pay(o) \/ Complete(o) \/ Deliver(o)
  \/ Unwind(o)

LEMMA StepEffect ==
  ASSUME IInv, NEW t \in Threads, Step(t)
  PROVE  \E o \in Orders : Effect(o)
<1>. DEFINE o == Job(t)
<1>. HIDE DEF o
<1>in. ~At(t, "idle") => o \in Orders
  BY DEF IInv, TypeOK, At, o, Job
<1>. SUFFICES ~At(t, "idle") /\ Effect(o)
  BY <1>in
<1>1. CASE \/ InvokeProvider(t) \/ QueryUpstream(t) \/ CloseUpstream(t)
           \/ ConfirmPayment(t) \/ AlreadyProcessed(t) \/ CheckStatus(t)
           \/ FindCode(t) \/ ClaimBonus(t) \/ CreateCode(t)
           \/ RedeemChecks(t) \/ CheckGroup(t) \/ AuditAndReturn(t)
  BY <1>1 DEF InvokeProvider, QueryUpstream, CloseUpstream, ConfirmPayment,
      AlreadyProcessed, CheckStatus, FindCode, ClaimBonus, CreateCode,
      RedeemChecks, CheckGroup, AuditAndReturn, At, Effect, Quiet, orderVars,
      effectVars
<1>2. CASE InvokeFailed(t)
  <2>1. o \notin unwound
    BY <1>2 DEF InvokeFailed, At, o, IInv, Control, CreatorsInv, Creating
  <2>2. status[o] \in {"RECHARGING", "COMPLETED"} => o \in paidAt
    BY <1>2, <1>in DEF InvokeFailed, At, IInv, Control, PaidInv
  <2>. QED
    BY <1>2, <2>1, <2>2 DEF InvokeFailed, At, o, SetStatus, Effect, Quiet,
        Restatus, Unwind, OrderStatus
<1>3. CASE CancelCore(t)
  BY <1>3 DEF CancelCore, CancelFrom, CancelTo, CanCAS, SetStatus, At, o,
      Effect, Quiet, Restatus, OrderStatus, effectVars
<1>4. CASE ToPaid(t)
  BY <1>4 DEF ToPaid, Recoverable, CanCAS, SetStatus, At, o, Effect, Quiet,
      Pay, orderVars, effectVars
<1>5. CASE ResetForRetry(t)
  BY <1>5 DEF ResetForRetry, CanCAS, SetStatus, At, o, Effect, Quiet, Restatus,
      OrderStatus, effectVars
<1>6. CASE LockOrder(t)
  BY <1>6 DEF LockOrder, LockFrom, CanCAS, SetStatus, At, o, Effect, Quiet,
      Restatus, OrderStatus, effectVars
<1>7. CASE RedeemTx(t)
  <2>1. o \in paidAt
    BY <1>7 DEF RedeemTx, At, o, IInv, Control, PaidInv, Holding, Fulfilling
  <2>2. o \in BalanceOrders /\ code[o] = "unused" => delivered[o] = 0
    BY DEF IInv, Value, CreditInv
  <2>. QED
    BY <1>7, <2>1, <2>2 DEF RedeemTx, CodeUnused, At, o, Effect, Quiet, Deliver,
        orderVars
<1>8. CASE AssignSubscription(t)
  <2>1. o \notin BalanceOrders
    BY <1>8 DEF AssignSubscription, At, o, IInv, Value, StageInv
  <2>. QED
    BY <1>8, <2>1 DEF AssignSubscription, At, o, Effect, Quiet, Deliver,
        orderVars
<1>9. CASE MarkCompleted(t)
  <2>1. delivered[o] >= 1
    BY <1>9 DEF MarkCompleted, At, o, IInv, Value, StageInv
  <2>. QED
    BY <1>9, <2>1 DEF MarkCompleted, CanCAS, SetStatus, At, o, Effect, Quiet,
        Complete, effectVars
<1>10. CASE MarkFailed(t)
  BY <1>10 DEF MarkFailed, FailFrom, CanCAS, SetStatus, At, o, Effect, Quiet,
      Restatus, OrderStatus, effectVars
<1>. QED
  BY <1>1, <1>2, <1>3, <1>4, <1>5, <1>6, <1>7, <1>8, <1>9, <1>10 DEF Step

LEMMA OutsideEffect ==
  ASSUME IInv, NEW o \in Orders, Outside(o)
  PROVE  Effect(o)
<1>1. code[o] = "unused" =>
        (o \in BalanceOrders => delivered[o] = 0 /\ o \in paidAt)
  BY DEF IInv, Value, CodeInv, CreditInv
<1>. QED
  BY <1>1 DEF Outside, PayerPays, AttemptDeclined, HandlePaymentFailure,
      RedeemByHand, CanCAS, SetStatus, OrderStatus, Effect, Quiet, Restatus,
      Deliver, orderVars, effectVars

LEMMA RequestEffect ==
  ASSUME NEW t \in Threads, NEW o \in Orders, Request(t, o)
  PROVE  Effect(o)
BY DEF Request, CreateOrder, PaymentSucceeded, CancelOrder, ExpireTimedOut,
    VerifyOrder, RetryFulfillment, SetStatus, OrderStatus, Effect, Quiet,
    Restatus, orderVars, effectVars

LEMMA NextEffect ==
  ASSUME IInv, [Next]_vars
  PROVE  Quiet \/ \E o \in Orders : Effect(o)
<1>1. CASE UNCHANGED vars
  BY <1>1 DEF vars, orderVars, effectVars, Quiet
<1>2. ASSUME NEW t \in Threads, Abort(t) PROVE Quiet
  BY <1>2 DEF Abort, orderVars, effectVars, Quiet
<1>. QED
  BY <1>1, <1>2, StepEffect, OutsideEffect, RequestEffect DEF Next

\* A completed order stays completed: no late failure, cancellation, expiry,
\* notification or retry of any handler reopens it, and its creation does so
\* at most once.
THEOREM CompletionIsFinal == Spec => CompletedIsFinal
<1>1. ASSUME IInv, [Next]_vars, NEW o \in Orders, status[o] = "COMPLETED"
      PROVE  \/ status'[o] = "COMPLETED"
             \/ o \in unwound' \ unwound /\ status'[o] = "FAILED"
  <2>1. status \in [Orders -> OrderStatus] /\ delivered \in [Orders -> Nat]
    BY <1>1 DEF IInv, TypeOK
  <2>2. ASSUME NEW p \in Orders, Effect(p)
        PROVE  \/ status'[o] = "COMPLETED"
               \/ o \in unwound' \ unwound /\ status'[o] = "FAILED"
    BY <1>1, <2>1, <2>2 DEF Effect, Quiet, Restatus, Pay, Complete, Deliver,
        Unwind
  <2>. QED
    BY <1>1, <2>2, NextEffect DEF Quiet
<1>2. IInv /\ [Next]_vars =>
        [\A o \in Orders :
           status[o] = "COMPLETED" =>
             \/ status'[o] = "COMPLETED"
             \/ o \in unwound' \ unwound /\ status'[o] = "FAILED"]_vars
  BY <1>1
<1>. QED
  BY <1>2, Invariance, PTL DEF Spec, CompletedIsFinal

\* A recorded payment is never lost, nor its order cancelled or expired.
THEOREM PaymentIsKept == Spec => PaidIsNeverDropped
<1>1. ASSUME IInv, IInv', [Next]_vars, NEW o \in paidAt
      PROVE  /\ o \in paidAt'
             /\ status'[o] \notin {"PENDING", "CANCELLED", "EXPIRED"}
  <2>1. o \in paidAt'
    BY <1>1, NextEffect DEF Effect, Quiet, Restatus, Pay, Complete, Deliver,
        Unwind
  <2>. QED
    BY <1>1, <2>1 DEF IInv, Control, PaidInv
<1>2. IInv /\ IInv' /\ [Next]_vars =>
        [\A o \in paidAt :
           /\ o \in paidAt'
           /\ status'[o] \notin {"PENDING", "CANCELLED", "EXPIRED"}]_vars
  BY <1>1
<1>. QED
  BY <1>2, Invariance, PTL DEF Spec, PaidIsNeverDropped

\* The initial state of the orders is that of the ledger.
LEMMA LedgerInit == Init => Ledger!Init
BY ConstantsAssumption DEF ConstantsAssumption, Init, Ledger!Init

\* Every step of the orders is a step of the ledger or leaves it alone.
LEMMA LedgerNext ==
  ASSUME IInv, [Next]_vars
  PROVE  [Ledger!Next]_(Ledger!ledger)
<1>1. CASE Quiet
  BY <1>1 DEF Quiet, Ledger!ledger
<1>2. ASSUME NEW o \in Orders, Restatus(o)
      PROVE  UNCHANGED Ledger!ledger
  <2>1. \A p \in Orders : status'[p] = "COMPLETED" <=> status[p] = "COMPLETED"
    BY <1>2 DEF IInv, TypeOK, Restatus
  <2>. QED
    BY <1>2, <2>1, ConstantsAssumption DEF ConstantsAssumption, Restatus,
        Ledger!ledger
<1>3. ASSUME NEW o \in Orders, Pay(o)
      PROVE  [Ledger!Next]_(Ledger!ledger)
  <2>1. \A p \in Orders : status'[p] = "COMPLETED" <=> status[p] = "COMPLETED"
    BY <1>3 DEF IInv, TypeOK, Pay
  <2>2. CASE o \in BalanceOrders
    <3>1. Ledger!Record(o)
      BY <1>3, <2>1, <2>2, ConstantsAssumption DEF ConstantsAssumption, Pay,
          Ledger!Record
    <3>. QED
      BY <3>1, <2>2 DEF Ledger!Next
  <2>3. CASE o \notin BalanceOrders
    BY <1>3, <2>1, <2>3, ConstantsAssumption DEF ConstantsAssumption, Pay,
        Ledger!ledger
  <2>. QED
    BY <2>2, <2>3
<1>4. ASSUME NEW o \in Orders, Complete(o)
      PROVE  [Ledger!Next]_(Ledger!ledger)
  <2>1. \A p \in Orders :
          status'[p] = "COMPLETED" <=> status[p] = "COMPLETED" \/ p = o
    BY <1>4 DEF IInv, TypeOK, Complete
  <2>2. CASE o \in BalanceOrders
    <3>1. delivered[o] = 1
      BY <1>4, <2>2, ConstantsAssumption DEF Complete, IInv, Value, CreditInv
    <3>2. Ledger!Settle(o)
      BY <1>4, <2>1, <2>2, <3>1, ConstantsAssumption DEF ConstantsAssumption,
          Complete, Ledger!Settle
    <3>. QED
      BY <3>2, <2>2 DEF Ledger!Next
  <2>3. CASE o \notin BalanceOrders
    BY <1>4, <2>1, <2>3, ConstantsAssumption DEF ConstantsAssumption, Complete,
        Ledger!ledger
  <2>. QED
    BY <2>2, <2>3
<1>5. ASSUME NEW o \in Orders, Deliver(o)
      PROVE  [Ledger!Next]_(Ledger!ledger)
  <2>1. delivered \in [Orders -> Nat] /\ BalanceOrders \subseteq Orders
    BY ConstantsAssumption DEF ConstantsAssumption, IInv, TypeOK
  <2>2. CASE o \in BalanceOrders
    <3>1. delivered'[o] = 1
      BY <1>5, <2>1, <2>2 DEF Deliver
    <3>2. \A p \in BalanceOrders : p # o => delivered'[p] = delivered[p]
      BY <1>5, <2>1 DEF Deliver
    <3>3. [p \in BalanceOrders |-> delivered'[p]] =
            [[p \in BalanceOrders |-> delivered[p]] EXCEPT ![o] = 1]
      BY <2>2, <3>1, <3>2
    <3>4. Ledger!Credit(o)
      BY <1>5, <2>1, <2>2, <3>3 DEF Deliver, Ledger!Credit
    <3>. QED
      BY <3>4, <2>2 DEF Ledger!Next
  <2>3. CASE o \notin BalanceOrders
    BY <1>5, <2>1, <2>3 DEF Deliver, Ledger!ledger
  <2>. QED
    BY <2>2, <2>3
<1>6. ASSUME NEW o \in Orders, Unwind(o)
      PROVE  [Ledger!Next]_(Ledger!ledger)
  <2>1. \A p \in Orders :
          status'[p] = "COMPLETED" <=> status[p] = "COMPLETED" /\ p # o
    BY <1>6 DEF IInv, TypeOK, Unwind
  <2>2. CASE o \in BalanceOrders
    <3>1. Ledger!Reopen(o)
      BY <1>6, <2>1, <2>2, ConstantsAssumption DEF ConstantsAssumption, Unwind,
          Ledger!Reopen
    <3>. QED
      BY <3>1, <2>2 DEF Ledger!Next
  <2>3. CASE o \notin BalanceOrders
    BY <1>6, <2>1, <2>3, ConstantsAssumption DEF ConstantsAssumption, Unwind,
        Ledger!ledger
  <2>. QED
    BY <2>2, <2>3
<1>. QED
  BY <1>1, <1>2, <1>3, <1>4, <1>5, <1>6, NextEffect DEF Effect

\* The handlers, the gateway and the database together implement Settlement
\* for the balance orders: recorded, credited once, settled, and not credited
\* again when one is reopened.
THEOREM Refinement == Spec => ImplementsSettlement
  BY LedgerInit, LedgerNext, Invariance, PTL
     DEF Spec, ImplementsSettlement, Ledger!Spec

-----------------------------------------------------------------------------
\* The first-recharge bonus.

\* A handler that won the claim and has not yet put it into a code.
Ticket(t) == thread[t].pc = "create" /\ thread[t].bonus

\* Claims, tickets and codes: one chain per user.
BonusInv ==
  /\ \A o \in bonusCodes : Owner[o] \in bonusTaken
  /\ \A t \in Threads : Ticket(t) =>
       /\ Owner[Job(t)] \in bonusTaken
       /\ \A o \in bonusCodes : Owner[o] # Owner[Job(t)]
  /\ \A t, u \in Threads :
       Ticket(t) /\ Ticket(u) /\ Owner[Job(t)] = Owner[Job(u)] => t = u
  /\ OneBonusPerUser

NoNewTicket ==
  /\ UNCHANGED <<bonusCodes, bonusTaken>>
  /\ \A u \in Threads : Ticket(u)' => Ticket(u) /\ Job(u)' = Job(u)

\* A step that leads to another label than "create" gives nobody a ticket.
LEMMA MovingOn ==
  ASSUME NEW t \in Threads, NEW l, l # "create", Moves(t, l),
         UNCHANGED <<bonusCodes, bonusTaken>>
  PROVE  NoNewTicket
BY DEF Moves, NoNewTicket, Ticket, Job

LEMMA NoTicketInv ==
  ASSUME BonusInv, NoNewTicket
  PROVE  BonusInv'
BY DEF BonusInv, NoNewTicket, OneBonusPerUser

LEMMA BonusStep ==
  ASSUME TypeOK, BonusInv, NEW t \in Threads, Step(t)
  PROVE  BonusInv'
<1>go. \A l : Goto(t, l) => Moves(t, l)
  BY Moving
<1>st. thread' = [thread EXCEPT ![t] = Idle] => Moves(t, "idle")
  BY Moving
<1>on. \A l : /\ l # "create" /\ Moves(t, l)
              /\ UNCHANGED <<bonusCodes, bonusTaken>>
              => NoNewTicket
  BY MovingOn
<1>1. CASE ClaimBonus(t)
  <2>1. PICK r \in Outcomes :
          LET u == Owner[Job(t)]
              won == Applied(r) /\ BonusEligible(u)
          IN  /\ bonusTaken' = IF won THEN bonusTaken \cup {u} ELSE bonusTaken
              /\ thread' = [thread EXCEPT ![t] = [@ EXCEPT !.pc = "create",
                                                     !.bonus = won /\ r = "ok"]]
    BY <1>1 DEF ClaimBonus
  <2>2. bonusCodes' = bonusCodes
    BY <1>1 DEF ClaimBonus
  <2>3. /\ Job(t)' = Job(t)
        /\ Ticket(t)' => Owner[Job(t)] \notin bonusTaken
                           /\ bonusTaken' = bonusTaken \cup {Owner[Job(t)]}
        /\ bonusTaken \subseteq bonusTaken'
        /\ \A u \in Threads : u # t => thread'[u] = thread[u]
    BY <2>1 DEF Ticket, Job, BonusEligible, TypeOK, Handlers
  <2>. QED
    BY <2>2, <2>3 DEF BonusInv, OneBonusPerUser, Ticket, Job
<1>2. CASE CreateCode(t)
  <2>1. \/ bonusCodes' = bonusCodes
        \/ Ticket(t) /\ bonusCodes' = bonusCodes \cup {Job(t)}
    BY <1>2 DEF CreateCode, At, Ticket
  <2>2. /\ bonusTaken' = bonusTaken
        /\ Moves(t, "redeem") \/ Moves(t, "fail")
    BY <1>2, <1>go DEF CreateCode
  <2>. QED
    BY <2>1, <2>2 DEF BonusInv, OneBonusPerUser, Ticket, Job, Moves
<1>3. CASE \/ InvokeProvider(t) \/ InvokeFailed(t) \/ QueryUpstream(t)
           \/ CloseUpstream(t) \/ CancelCore(t) \/ ConfirmPayment(t)
           \/ ToPaid(t) \/ AlreadyProcessed(t) \/ ResetForRetry(t)
           \/ CheckStatus(t) \/ LockOrder(t)
  <2>1. NoNewTicket
    BY <1>3, <1>go, <1>st, <1>on DEF InvokeProvider, InvokeFailed,
        QueryUpstream, CloseUpstream, CancelCore, ConfirmPayment, ToPaid,
        AlreadyProcessed, ResetForRetry, CheckStatus, LockOrder, Return,
        codeVars
  <2>. QED
    BY <2>1, NoTicketInv
<1>4. CASE FindCode(t)
  <2>1. Moves(t, "claim") \/ Moves(t, "redeem") \/ Moves(t, "complete")
    BY <1>4, <1>go DEF FindCode, RedeemAction, At, Job, TypeOK
  <2>2. NoNewTicket
    BY <1>4, <1>on, <2>1 DEF FindCode, codeVars
  <2>. QED
    BY <2>2, NoTicketInv
<1>5. CASE \/ RedeemChecks(t) \/ RedeemTx(t) \/ CheckGroup(t)
           \/ AssignSubscription(t) \/ MarkCompleted(t) \/ AuditAndReturn(t)
           \/ MarkFailed(t)
  <2>1. NoNewTicket
    BY <1>5, <1>go, <1>st, <1>on DEF RedeemChecks, RedeemTx, CheckGroup,
        AssignSubscription, MarkCompleted, AuditAndReturn, MarkFailed, Return,
        codeVars
  <2>. QED
    BY <2>1, NoTicketInv
<1>. QED
  BY <1>1, <1>2, <1>3, <1>4, <1>5 DEF Step

\* Two orders of one user never both carry the bonus, however many of the
\* user's orders are fulfilled side by side.
THEOREM BonusIsUnique == Spec => []OneBonusPerUser
<1>1. Init => BonusInv
  BY DEF Init, Idle, BonusInv, Ticket, OneBonusPerUser
<1>2. ASSUME TypeOK, BonusInv, [Next]_vars
      PROVE  BonusInv'
  <2>1. CASE UNCHANGED vars
    BY <1>2, <2>1, NoTicketInv DEF NoNewTicket, Ticket, Job, vars, codeVars,
        handlerVars
  <2>2. ASSUME NEW t \in Threads, NEW o \in Orders, Request(t, o)
        PROVE  BonusInv'
    <3>1. \A k, l : Begin(t, k, o, l) =>
            /\ thread'[t].pc = l
            /\ \A u \in Threads : u # t => thread'[u] = thread[u]
      BY <1>2 DEF Begin, TypeOK, Handlers
    <3>2. NoNewTicket
      BY <2>2, <3>1 DEF NoNewTicket, Ticket, Job, Request, CreateOrder,
          PaymentSucceeded, CancelOrder, ExpireTimedOut, VerifyOrder,
          RetryFulfillment, codeVars
    <3>. QED
      BY <1>2, <3>2, NoTicketInv
  <2>3. ASSUME NEW o \in Orders, Outside(o)
        PROVE  BonusInv'
    BY <1>2, <2>3, NoTicketInv DEF NoNewTicket, Ticket, Job, Outside, PayerPays,
        AttemptDeclined, HandlePaymentFailure, RedeemByHand, codeVars,
        handlerVars
  <2>4. ASSUME NEW t \in Threads, Abort(t)
        PROVE  BonusInv'
    BY <1>2, <2>4, Moving, MovingOn, NoTicketInv DEF Abort, codeVars
  <2>. QED
    BY <1>2, <2>1, <2>2, <2>3, <2>4, BonusStep DEF Next
<1>3. BonusInv => OneBonusPerUser
  BY DEF BonusInv
<1>. QED
  BY <1>1, <1>2, <1>3, TypeCorrect, PTL DEF Spec

-----------------------------------------------------------------------------
\* Acknowledged notifications.

\* The lookup of the order in confirmPayment gets an answer.  It is the one
\* place where an error is answered with nil: every other failure, and every
\* handler cut short, is left to happen.
LookupAnswers == \A t \in Threads : ConfirmPayment(t) => UNCHANGED faults
LookupsWork == [][LookupAnswers]_vars

\* A handler that returns nil to a webhook found the payment recorded.
LEMMA AckStep ==
  ASSUME IInv, NEW t \in Threads, Step(t),
         ConfirmPayment(t) => UNCHANGED faults
  PROVE  acked' \subseteq acked \cup paidAt
<1>1. thread[t].pc \in Holding => Job(t) \in paidAt
  BY DEF IInv, Control, PaidInv
<1>2. faults \in Nat
  BY ConstantsAssumption DEF ConstantsAssumption, IInv, TypeOK
<1>3. CASE \/ InvokeProvider(t) \/ InvokeFailed(t) \/ QueryUpstream(t)
           \/ CloseUpstream(t) \/ CancelCore(t) \/ FindCode(t)
           \/ ClaimBonus(t) \/ CreateCode(t) \/ RedeemChecks(t)
           \/ RedeemTx(t) \/ CheckGroup(t) \/ AssignSubscription(t)
           \/ MarkCompleted(t)
  BY <1>3 DEF InvokeProvider, InvokeFailed, QueryUpstream, CloseUpstream,
      CancelCore, FindCode, ClaimBonus, CreateCode, RedeemChecks, RedeemTx,
      CheckGroup, AssignSubscription, MarkCompleted
<1>4. CASE ConfirmPayment(t)
  <2>1. ~ReadFails
    BY <1>2, <1>4 DEF ReadFails
  <2>2. PICK reported :
          IF AmountMatches(Job(t), reported)
            THEN Goto(t, "pay") /\ UNCHANGED acked ELSE Return(t, FALSE)
    BY <1>4, <2>1 DEF ConfirmPayment
  <2>. QED
    BY <2>2 DEF Return
<1>5. CASE ToPaid(t)
  BY <1>5 DEF ToPaid, Return
<1>6. CASE \/ AlreadyProcessed(t) \/ ResetForRetry(t) \/ CheckStatus(t)
           \/ LockOrder(t) \/ AuditAndReturn(t) \/ MarkFailed(t)
  BY <1>1, <1>6 DEF AlreadyProcessed, ResetForRetry, CheckStatus, LockOrder,
      AuditAndReturn, MarkFailed, Return, At, Holding, Fulfilling
<1>. QED
  BY <1>3, <1>4, <1>5, <1>6 DEF Step

\* A notification is answered with 2xx only for an order that is recorded as
\* paid, whatever writes fail, replies are lost and handlers are cut short, as
\* long as the order itself can be looked up.
THEOREM AckFollowsRecord == Spec /\ LookupsWork => []AckedIsRecorded
<1>. DEFINE AckInv == acked \subseteq paidAt
<1>1. Init => AckInv
  BY DEF Init
<1>2. ASSUME IInv, AckInv, [Next]_vars, [LookupAnswers]_vars
      PROVE  AckInv'
  <2>1. paidAt \subseteq paidAt'
    BY <1>2, NextEffect DEF Effect, Quiet, Restatus, Pay, Complete, Deliver,
        Unwind
  <2>2. acked' \subseteq acked \cup paidAt
    <3>1. CASE UNCHANGED vars
      BY <3>1 DEF vars, handlerVars
    <3>2. ASSUME NEW t \in Threads, Step(t), ~UNCHANGED vars
          PROVE  acked' \subseteq acked \cup paidAt
      BY <1>2, <3>2, AckStep DEF LookupAnswers
    <3>3. ASSUME NEW t \in Threads, NEW o \in Orders, Request(t, o)
          PROVE  acked' = acked
      BY <3>3 DEF Request, CreateOrder, PaymentSucceeded, CancelOrder,
          ExpireTimedOut, VerifyOrder, RetryFulfillment
    <3>4. ASSUME NEW o \in Orders, Outside(o)
          PROVE  acked' = acked
      BY <3>4 DEF Outside, PayerPays, AttemptDeclined, HandlePaymentFailure,
          RedeemByHand, handlerVars
    <3>5. ASSUME NEW t \in Threads, Abort(t)
          PROVE  acked' = acked
      BY <3>5 DEF Abort
    <3>. QED
      BY <1>2, <3>1, <3>2, <3>3, <3>4, <3>5 DEF Next
  <2>. QED
    BY <1>2, <2>1, <2>2
<1>3. IInv /\ AckInv => AckedIsRecorded
  BY DEF IInv, Control, PaidInv, AckedIsRecorded
<1>. HIDE DEF AckInv
<1>. QED
  BY <1>1, <1>2, <1>3, Invariance, PTL DEF Spec, LookupsWork

-----------------------------------------------------------------------------
\* Subscription extensions.

\* The extension and the completion of a subscription order get their answer,
\* and so does the save of its payment link.  Everything else may fail, and
\* handlers may be cut short anywhere, between any two of the three as well.
ExtensionAnswers ==
  \A t \in Threads :
    InvokeProvider(t) \/ AssignSubscription(t) \/ MarkCompleted(t)
      => UNCHANGED faults
ExtensionsWork == [][ExtensionAnswers]_vars

\* A creation that gives up has left nothing to pay, so that nobody fulfils
\* its order and the FAILED it writes hits no fulfilment.
CreationInv ==
  /\ unwound = {}
  /\ \A t \in Threads : thread[t].pc = "unwind" => gateway[Job(t)] = "none"

LEMMA CreationStep ==
  ASSUME IInv, CreationInv, NEW t \in Threads, Step(t),
         InvokeProvider(t) => UNCHANGED faults
  PROVE  CreationInv'
<1>. DEFINE o == Job(t)
<1>. HIDE DEF o
<1>ty. /\ gateway \in [Orders -> {"none", "open", "paid", "short", "closed"}]
       /\ thread[t].pc # "idle" => o \in Orders
       /\ faults \in Nat
  BY ConstantsAssumption DEF ConstantsAssumption, IInv, TypeOK, o, Job
<1>go. \A l : Goto(t, l) => Moves(t, l)
  BY Moving DEF IInv
<1>st. thread' = [thread EXCEPT ![t] = Idle] => Moves(t, "idle")
  BY Moving DEF IInv
<1>on. ASSUME NEW l, Moves(t, l), l # "unwind",
              UNCHANGED <<gateway, unwound>>
       PROVE  CreationInv'
  BY <1>on DEF CreationInv, Moves, Job
<1>1. CASE InvokeProvider(t)
  <2>1. /\ thread[t].pc = "invoke"
        /\ unwound' = unwound
        /\ \/ gateway' = gateway /\ Moves(t, "unwind")
           \/ gateway' = [gateway EXCEPT ![o] = "open"] /\ Moves(t, "idle")
    <3>1. ASSUME NEW r \in Outcomes, Spend(r)
          PROVE  r = "ok"
      BY <1>1, <1>ty, <3>1 DEF Spend
    <3>2. /\ thread[t].pc = "invoke"
          /\ unwound' = unwound
          /\ \/ Goto(t, "unwind") /\ gateway' = gateway
             \/ \E r \in Outcomes :
                  /\ Spend(r)
                  /\ r = "ok" => gateway' = [gateway EXCEPT ![o] = "open"]
                  /\ r = "ok" => thread' = [thread EXCEPT ![t] = Idle]
      BY <1>1 DEF InvokeProvider, At, Applied, o, effectVars
    <3>. QED
      BY <3>1, <3>2, <1>go, <1>st
  <2>2. \A u \in Threads : thread[u].pc = "unwind" => Job(u) # o
    BY <2>1 DEF IInv, Control, CreatorsInv, Creating, o
  <2>3. gateway[o] = "none"
    BY <2>1 DEF IInv, Control, CreatorsInv, o
  <2>4. CASE gateway' = gateway /\ Moves(t, "unwind")
    BY <2>1, <2>3, <2>4 DEF CreationInv, Moves, Job, o
  <2>5. CASE gateway' = [gateway EXCEPT ![o] = "open"] /\ Moves(t, "idle")
    BY <1>ty, <2>1, <2>2, <2>5 DEF CreationInv, Moves, Job
  <2>. QED
    BY <2>1, <2>4, <2>5
<1>2. CASE InvokeFailed(t)
  <2>1. status[o] \notin {"RECHARGING", "COMPLETED"}
    BY <1>2, <1>ty DEF InvokeFailed, At, o, CreationInv, IInv, Control,
        PaidInv, Charged
  <2>2. Moves(t, "idle") /\ UNCHANGED <<gateway, unwound>>
    BY <1>2, <1>st, <2>1 DEF InvokeFailed, o, gatewayVars
  <2>. QED
    BY <1>on, <2>2
<1>3. CASE CloseUpstream(t)
  <2>1. /\ Moves(t, "cancel")
        /\ unwound' = unwound
        /\ \/ gateway' = gateway
           \/ gateway[o] = "open" /\ gateway' = [gateway EXCEPT ![o] = "closed"]
    BY <1>3, <1>go DEF CloseUpstream, o, effectVars
  <2>2. \A u \in Threads : thread[u].pc # "idle" => Job(u) \in Orders
    BY DEF IInv, TypeOK, Job
  <2>3. \A u \in Threads : thread'[u].pc = "unwind" => thread'[u] = thread[u]
    BY <2>1 DEF Moves
  <2>4. \A u \in Threads :
          thread[u].pc = "unwind" => gateway'[Job(u)] = gateway[Job(u)]
    BY <1>ty, <2>1, <2>2 DEF CreationInv
  <2>. QED
    BY <2>1, <2>3, <2>4 DEF CreationInv, Job
<1>4. CASE \/ QueryUpstream(t) \/ CancelCore(t) \/ ConfirmPayment(t)
           \/ ToPaid(t) \/ AlreadyProcessed(t) \/ ResetForRetry(t)
           \/ CheckStatus(t) \/ LockOrder(t) \/ CreateCode(t)
  BY <1>4, <1>go, <1>st, <1>on DEF QueryUpstream, CancelCore, ConfirmPayment,
      ToPaid, AlreadyProcessed, ResetForRetry, CheckStatus, LockOrder,
      CreateCode, Return, effectVars, gatewayVars
<1>5. CASE FindCode(t)
  <2>1. RedeemAction(code[o]) \in {"claim", "redeem", "complete"}
    BY <1>5, <1>ty DEF FindCode, At, IInv, TypeOK, RedeemAction
  <2>2. \E l : l # "unwind" /\ Moves(t, l)
    BY <1>5, <2>1, <1>go DEF FindCode, o
  <2>. QED
    BY <1>5, <2>2, <1>on DEF FindCode, effectVars, gatewayVars
<1>6. CASE ClaimBonus(t)
  <2>1. Moves(t, "create")
    BY <1>6, MovingBonus DEF ClaimBonus, IInv
  <2>. QED
    BY <1>6, <2>1, <1>on DEF ClaimBonus, effectVars, gatewayVars
<1>7. CASE \/ RedeemChecks(t) \/ RedeemTx(t) \/ CheckGroup(t)
           \/ AssignSubscription(t) \/ MarkCompleted(t) \/ AuditAndReturn(t)
           \/ MarkFailed(t)
  BY <1>7, <1>go, <1>st, <1>on DEF RedeemChecks, RedeemTx, CheckGroup,
      AssignSubscription, MarkCompleted, AuditAndReturn, MarkFailed, Return,
      effectVars, gatewayVars
<1>. QED
  BY <1>1, <1>2, <1>3, <1>4, <1>5, <1>6, <1>7 DEF Step

LEMMA CreationNext ==
  ASSUME IInv, CreationInv, [Next]_vars, [ExtensionAnswers]_vars
  PROVE  CreationInv'
<1>ty. TypeOK
  BY DEF IInv
<1>1. CASE UNCHANGED vars
  BY <1>1 DEF CreationInv, Job, vars, effectVars, gatewayVars, handlerVars
<1>2. ASSUME NEW t \in Threads, Step(t), ~UNCHANGED vars
      PROVE  CreationInv'
  BY <1>2, CreationStep DEF ExtensionAnswers
<1>3. ASSUME NEW t \in Threads, NEW o \in Orders, Request(t, o)
      PROVE  CreationInv'
  <2>1. \A k, l : Begin(t, k, o, l) =>
          /\ thread'[t].pc = l
          /\ \A u \in Threads : u # t => thread'[u] = thread[u]
    BY <1>ty DEF Begin, TypeOK, Handlers
  <2>. QED
    BY <1>3, <2>1 DEF CreationInv, Job, Request, CreateOrder,
        PaymentSucceeded, CancelOrder, ExpireTimedOut, VerifyOrder,
        RetryFulfillment, effectVars, gatewayVars
<1>4. ASSUME NEW o \in Orders, Outside(o)
      PROVE  CreationInv'
  BY <1>ty, <1>4 DEF CreationInv, Job, TypeOK, Outside, PayerPays,
      AttemptDeclined, HandlePaymentFailure, RedeemByHand, effectVars,
      gatewayVars, handlerVars
<1>5. ASSUME NEW t \in Threads, Abort(t)
      PROVE  CreationInv'
  <2>1. Moves(t, "idle") /\ UNCHANGED <<gateway, unwound>>
    BY <1>ty, <1>5, Moving DEF Abort, effectVars, gatewayVars
  <2>. QED
    BY <2>1 DEF CreationInv, Moves, Job
<1>. QED
  BY <1>1, <1>2, <1>3, <1>4, <1>5 DEF Next

\* Once extended, the order stays where nobody may lock it again.
ExtensionInv ==
  /\ \A o \in Orders \ BalanceOrders :
       \/ delivered[o] = 0
       \/ delivered[o] = 1 /\ status[o] \in {"RECHARGING", "COMPLETED"}
  /\ \A t \in Threads :
       /\ thread[t].pc \in {"group", "assign", "fail"}
       /\ Job(t) \notin BalanceOrders
       => delivered[Job(t)] = 0

\* The data of the orders is left alone and no handler comes to one of the
\* three labels from elsewhere.
NoNewStage ==
  /\ delivered' = delivered
  /\ \A o \in Orders \ BalanceOrders :
       status[o] \in {"RECHARGING", "COMPLETED"} =>
         status'[o] \in {"RECHARGING", "COMPLETED"}
  /\ \A t \in Threads :
       thread'[t].pc \in {"group", "assign", "fail"} =>
         /\ Job(t)' = Job(t)
         /\ \/ thread[t].pc \in {"group", "assign", "fail"}
            \/ Job(t) \in BalanceOrders

LEMMA NoStageInv ==
  ASSUME ExtensionInv, NoNewStage
  PROVE  ExtensionInv'
BY DEF ExtensionInv, NoNewStage

LEMMA ExtensionStep ==
  ASSUME IInv, CreationInv, ExtensionInv, NEW t \in Threads, Step(t),
         AssignSubscription(t) \/ MarkCompleted(t) => UNCHANGED faults
  PROVE  ExtensionInv'
<1>. DEFINE o == Job(t)
<1>. HIDE DEF o
<1>ty. /\ status \in [Orders -> OrderStatus]
       /\ delivered \in [Orders -> Nat]
       /\ thread[t].pc # "idle" => o \in Orders
       /\ faults \in Nat
  BY ConstantsAssumption DEF ConstantsAssumption, IInv, TypeOK, o, Job
<1>go. \A l : Goto(t, l) => Moves(t, l)
  BY Moving DEF IInv
<1>st. thread' = [thread EXCEPT ![t] = Idle] => Moves(t, "idle")
  BY Moving DEF IInv
<1>on. ASSUME NEW l, Moves(t, l), l \notin {"group", "assign", "fail"},
              UNCHANGED <<status, delivered>>
       PROVE  NoNewStage
  BY <1>on DEF NoNewStage, Moves, Job
<1>1. CASE \/ InvokeProvider(t) \/ QueryUpstream(t) \/ CloseUpstream(t)
           \/ ConfirmPayment(t) \/ AlreadyProcessed(t) \/ CheckStatus(t)
  <2>1. NoNewStage
    BY <1>1, <1>go, <1>st, <1>on DEF InvokeProvider, QueryUpstream,
        CloseUpstream, ConfirmPayment, AlreadyProcessed, CheckStatus, Return,
        orderVars, effectVars
  <2>. QED
    BY <2>1, NoStageInv
<1>2. CASE InvokeFailed(t)
  <2>1. status[o] \notin {"RECHARGING", "COMPLETED"}
    BY <1>2, <1>ty DEF InvokeFailed, At, o, CreationInv, IInv, Control,
        PaidInv, Charged
  <2>2. /\ status' = status \/ status' = [status EXCEPT ![o] = "FAILED"]
        /\ delivered' = delivered
        /\ Moves(t, "idle")
    BY <1>2, <1>st DEF InvokeFailed, SetStatus, o, effectVars
  <2>3. NoNewStage
    BY <1>ty, <2>1, <2>2 DEF NoNewStage, Moves, Job
  <2>. QED
    BY <2>3, NoStageInv
<1>3. CASE CancelCore(t) \/ ToPaid(t) \/ ResetForRetry(t)
  <2>1. /\ \/ status' = status
           \/ /\ status[o] \notin {"RECHARGING", "COMPLETED"}
              /\ \E s : status' = [status EXCEPT ![o] = s]
        /\ delivered' = delivered
        /\ Moves(t, "idle") \/ Moves(t, "guard") \/ Moves(t, "already")
    <3>1. CASE CancelCore(t)
      BY <3>1, <1>st DEF CancelCore, CancelFrom, CanCAS, SetStatus, o,
          effectVars
    <3>2. CASE ToPaid(t)
      BY <3>2, <1>go, <1>st DEF ToPaid, Recoverable, CanCAS, SetStatus, Return,
          o, orderVars, effectVars
    <3>3. CASE ResetForRetry(t)
      BY <3>3, <1>go, <1>st DEF ResetForRetry, CanCAS, SetStatus, Return, o,
          effectVars
    <3>. QED
      BY <1>3, <3>1, <3>2, <3>3
  <2>2. NoNewStage
    BY <1>ty, <2>1 DEF NoNewStage, Moves, Job
  <2>. QED
    BY <2>2, NoStageInv
<1>4. CASE LockOrder(t)
  <2>1. /\ o \in Orders
        /\ delivered' = delivered
        /\ \/ status' = status /\ Moves(t, "idle")
           \/ /\ status[o] \in {"PAID", "FAILED"}
              /\ status' = [status EXCEPT ![o] = "RECHARGING"]
              /\ \/ Moves(t, "idle") \/ Moves(t, "find")
                 \/ Moves(t, "group")
    BY <1>4, <1>ty, <1>go, <1>st DEF LockOrder, At, LockFrom, CanCAS,
        SetStatus, Return, o, effectVars
  <2>2. CASE status' = status /\ Moves(t, "idle")
    BY <1>on, <2>1, <2>2, NoStageInv
  <2>3. CASE /\ status[o] \in {"PAID", "FAILED"}
             /\ status' = [status EXCEPT ![o] = "RECHARGING"]
             /\ Moves(t, "idle") \/ Moves(t, "find") \/ Moves(t, "group")
    <3>1. o \notin BalanceOrders => delivered[o] = 0
      BY <2>1, <2>3 DEF ExtensionInv
    <3>. QED
      BY <1>ty, <2>1, <2>3, <3>1 DEF ExtensionInv, Moves, Job, o
  <2>. QED
    BY <2>1, <2>2, <2>3
<1>5. CASE \/ FindCode(t) \/ ClaimBonus(t) \/ CreateCode(t)
           \/ RedeemChecks(t)
  <2>1. o \in BalanceOrders
    BY <1>5 DEF FindCode, ClaimBonus, CreateCode, RedeemChecks, At, o, IInv,
        Value, StageInv
  <2>2. UNCHANGED <<status, delivered>>
    BY <1>5 DEF FindCode, ClaimBonus, CreateCode, RedeemChecks, orderVars,
        effectVars
  <2>3. \E l : l # "idle" /\ Moves(t, l)
    <3>1. CASE FindCode(t)
      <4>1. RedeemAction(code[o]) \in {"claim", "redeem", "complete"}
        BY <3>1, <1>ty DEF FindCode, At, IInv, TypeOK, RedeemAction
      <4>. QED
        BY <3>1, <4>1, <1>go DEF FindCode, o
    <3>2. CASE ClaimBonus(t)
      BY <3>2, MovingBonus DEF ClaimBonus, IInv
    <3>3. CASE CreateCode(t) \/ RedeemChecks(t)
      BY <3>3, <1>go DEF CreateCode, RedeemChecks
    <3>. QED
      BY <1>5, <3>1, <3>2, <3>3
  <2>4. NoNewStage
    BY <2>1, <2>2, <2>3 DEF NoNewStage, Moves, Job, o
  <2>. QED
    BY <2>4, NoStageInv
<1>6. CASE RedeemTx(t)
  <2>1. o \in BalanceOrders
    BY <1>6 DEF RedeemTx, At, o, IInv, Value, StageInv
  <2>2. /\ status' = status
        /\ \/ delivered' = delivered
           \/ delivered' = [delivered EXCEPT ![o] = @ + 1]
        /\ Moves(t, "complete") \/ Moves(t, "fail")
    BY <1>6, <1>go DEF RedeemTx, o, orderVars
  <2>3. \A p \in Orders : p # o => delivered'[p] = delivered[p]
    BY <1>ty, <2>2
  <2>4. \A u \in Threads :
          /\ thread'[u].pc \in {"group", "assign", "fail"}
          /\ Job(u)' \notin BalanceOrders
          => thread'[u] = thread[u]
    BY <2>1, <2>2 DEF Moves, Job, o
  <2>5. \A u \in Threads : thread[u].pc # "idle" => Job(u) \in Orders
    BY DEF IInv, TypeOK, Job
  <2>. QED
    BY <2>1, <2>2, <2>3, <2>4, <2>5 DEF ExtensionInv, Job
<1>7. CASE CheckGroup(t)
  <2>1. /\ thread[t].pc = "group"
        /\ UNCHANGED <<status, delivered>>
        /\ Moves(t, "fail") \/ Moves(t, "assign") \/ Moves(t, "complete")
    BY <1>7, <1>go DEF CheckGroup, At, orderVars, effectVars
  <2>2. NoNewStage
    BY <2>1 DEF NoNewStage, Moves, Job
  <2>. QED
    BY <2>2, NoStageInv
<1>8. CASE AssignSubscription(t)
  <2>1. /\ thread[t].pc = "assign"
        /\ status' = status
        /\ delivered' = [delivered EXCEPT ![o] = @ + 1]
        /\ Moves(t, "complete")
    BY <1>8, <1>ty, <1>go DEF AssignSubscription, At, Spend, Applied, o,
        orderVars
  <2>2. o \in Orders /\ o \notin BalanceOrders /\ delivered[o] = 0
    BY <2>1, <1>ty DEF o, IInv, Value, StageInv, ExtensionInv
  <2>3. status[o] = "RECHARGING"
    BY <2>1 DEF o, IInv, Control, LockInv, Fulfilling, CreationInv
  <2>4. \A u \in Threads : u # t /\ Job(u) = o => thread[u].pc \notin Fulfilling
    BY <2>1, <2>2 DEF o, IInv, Control, LockInv, OneFulfiller, Fulfils,
        Fulfilling, CreationInv
  <2>5. \A u \in Threads :
          thread'[u].pc \in {"group", "assign", "fail"} =>
            /\ Job(u)' = Job(u)
            /\ Job(u) # o
            /\ thread[u].pc \in {"group", "assign", "fail"}
    BY <2>1, <2>4 DEF Moves, Job, Fulfilling
  <2>. QED
    BY <1>ty, <2>1, <2>2, <2>3, <2>5 DEF ExtensionInv
<1>9. CASE MarkCompleted(t)
  <2>1. /\ \/ status' = status
           \/ status' = [status EXCEPT ![o] = "COMPLETED"]
        /\ delivered' = delivered
        /\ Moves(t, "audit")
    BY <1>9, <1>ty, <1>go DEF MarkCompleted, Spend, SetStatus, o, effectVars
  <2>2. NoNewStage
    BY <1>ty, <2>1 DEF NoNewStage, Moves, Job
  <2>. QED
    BY <2>2, NoStageInv
<1>10. CASE AuditAndReturn(t)
  BY <1>10, <1>st, <1>on, NoStageInv DEF AuditAndReturn, Return, orderVars
<1>11. CASE MarkFailed(t)
  <2>1. /\ thread[t].pc = "fail"
        /\ \/ status' = status
           \/ status' = [status EXCEPT ![o] = "FAILED"]
        /\ delivered' = delivered
        /\ Moves(t, "idle")
    BY <1>11, <1>st DEF MarkFailed, At, SetStatus, Return, o, effectVars
  <2>2. o \in Orders /\ (o \notin BalanceOrders => delivered[o] = 0)
    BY <2>1, <1>ty DEF ExtensionInv, o
  <2>3. \A p \in Orders : p # o => status'[p] = status[p]
    BY <1>ty, <2>1
  <2>4. \A u \in Threads :
          thread'[u].pc \in {"group", "assign", "fail"} =>
            thread'[u] = thread[u]
    BY <2>1 DEF Moves
  <2>. QED
    BY <2>1, <2>2, <2>3, <2>4 DEF ExtensionInv, Job
<1>. QED
  BY <1>1, <1>2, <1>3, <1>4, <1>5, <1>6, <1>7, <1>8, <1>9, <1>10, <1>11 DEF
      Step

\* A subscription order extends its subscription at most once, whatever else
\* fails and however often it is retried, as long as the extension and the
\* update to COMPLETED do not fail, which doSub's audit lookup is meant to
\* bridge and does not, nor the save of the payment link, after which the
\* creation puts the order back to FAILED for the next retry.
THEOREM ExtensionIsUnique == Spec /\ ExtensionsWork => []ExtendedAtMostOnce
<1>1. Init => CreationInv /\ ExtensionInv
  BY DEF Init, Idle, CreationInv, ExtensionInv
<1>2. ASSUME IInv, CreationInv, ExtensionInv, [Next]_vars, [ExtensionAnswers]_vars
      PROVE  ExtensionInv'
  <2>ty. TypeOK
    BY <1>2 DEF IInv
  <2>1. CASE UNCHANGED vars
    BY <2>1, <1>2, NoStageInv DEF NoNewStage, Job, vars, orderVars, effectVars,
        handlerVars
  <2>2. ASSUME NEW t \in Threads, Step(t), ~UNCHANGED vars
        PROVE  ExtensionInv'
    BY <1>2, <2>2, ExtensionStep DEF ExtensionAnswers
  <2>3. ASSUME NEW t \in Threads, NEW o \in Orders, Request(t, o)
        PROVE  ExtensionInv'
    <3>1. \A k, l : Begin(t, k, o, l) =>
            /\ thread'[t].pc = l
            /\ \A u \in Threads : u # t => thread'[u] = thread[u]
      BY <2>ty DEF Begin, TypeOK, Handlers
    <3>2. /\ delivered' = delivered
          /\ \/ status' = status
             \/ status[o] = "NONE" /\ status' = [status EXCEPT ![o] = "PENDING"]
          /\ thread'[t].pc \in {"invoke", "confirm", "query", "reset"}
          /\ \A u \in Threads : u # t => thread'[u] = thread[u]
      BY <2>3, <3>1 DEF Request, CreateOrder, PaymentSucceeded, CancelOrder,
          ExpireTimedOut, VerifyOrder, RetryFulfillment, SetStatus, orderVars,
          effectVars
    <3>3. NoNewStage
      BY <2>ty, <3>2 DEF NoNewStage, Job, TypeOK
    <3>. QED
      BY <1>2, <3>3, NoStageInv
  <2>4. ASSUME NEW o \in Orders, Outside(o)
        PROVE  ExtensionInv'
    <3>1. CASE \/ PayerPays(o) \/ AttemptDeclined(o)
               \/ HandlePaymentFailure(o)
      <4>1. NoNewStage
        BY <2>ty, <3>1 DEF PayerPays, AttemptDeclined, HandlePaymentFailure,
            CanCAS, SetStatus, NoNewStage, Job, TypeOK, orderVars, effectVars,
            handlerVars
      <4>. QED
        BY <1>2, <4>1, NoStageInv
    <3>2. CASE RedeemByHand(o)
      <4>1. o \in BalanceOrders
        BY <1>2, <3>2 DEF RedeemByHand, IInv, Value, CodeInv
      <4>2. /\ UNCHANGED <<status, thread>>
            /\ delivered' = [delivered EXCEPT ![o] = @ + 1]
        BY <3>2 DEF RedeemByHand, orderVars, handlerVars
      <4>3. \A p \in Orders : p # o => delivered'[p] = delivered[p]
        BY <2>ty, <4>2 DEF TypeOK
      <4>4. \A t \in Threads : thread[t].pc # "idle" => Job(t) \in Orders
        BY <2>ty DEF TypeOK, Job
      <4>. QED
        BY <1>2, <4>1, <4>2, <4>3, <4>4 DEF ExtensionInv, Job
    <3>. QED
      BY <2>4, <3>1, <3>2 DEF Outside
  <2>5. ASSUME NEW t \in Threads, Abort(t)
        PROVE  ExtensionInv'
    <3>1. Moves(t, "idle") /\ UNCHANGED <<status, delivered>>
      BY <2>ty, <2>5, Moving DEF Abort, orderVars, effectVars
    <3>2. NoNewStage
      BY <3>1 DEF NoNewStage, Moves, Job
    <3>. QED
      BY <1>2, <3>2, NoStageInv
  <2>. QED
    BY <1>2, <2>1, <2>2, <2>3, <2>4, <2>5 DEF Next
<1>3. ASSUME ExtensionInv
      PROVE  ExtendedAtMostOnce
  <2>1. ASSUME NEW o \in Orders \ BalanceOrders
        PROVE  delivered[o] <= 1
    <3>1. delivered[o] = 0 \/ delivered[o] = 1
      BY <1>3 DEF ExtensionInv
    <3>. QED
      BY <3>1
  <2>. QED
    BY <2>1 DEF ExtendedAtMostOnce
<1>. QED
  BY <1>1, <1>2, <1>3, CreationNext, Invariance, PTL DEF Spec, ExtensionsWork
=============================================================================
