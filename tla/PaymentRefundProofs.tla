------------------------- MODULE PaymentRefundProofs -------------------------
(***************************************************************************)
(* Proofs about PaymentRefund, for any handlers, amounts and failures.     *)
(***************************************************************************)
EXTENDS PaymentRefund, TLAPS

-----------------------------------------------------------------------------
\* Type correctness.

LEMMA AmountTypes ==
  ASSUME TypeOK
  PROVE  /\ \A amt \in 0 .. Amount : GatewayAmount(amt) \in 0 .. PayAmount
         /\ \A amt \in 0 .. Amount : ToDeduct(amt) \in Nat
BY RefundAssumption DEF RefundAssumption, TypeOK, GatewayAmount, ToDeduct

LEMMA PlanTypes ==
  ASSUME NEW plan \in Plans
  PROVE  /\ \A l \in Before \cup Locked : [plan EXCEPT !.pc = l] \in Plans
         /\ \A l \in Before \cup Locked, n \in Nat :
              [plan EXCEPT !.pc = l, !.take = n] \in Plans
         /\ plan.amt \in 0 .. Amount /\ plan.take \in Nat /\ ToGiveBack(plan) \in Nat
         /\ Restored(plan.read) \in Open
BY DEF Plans, Open, Restored, ToGiveBack

LEMMA IdleType == Idle \in Plans
BY RefundAssumption DEF RefundAssumption, Idle, Plans, Before, Open

\* The handler's part of the state, whatever the action.
LEMMA HandlerTypes ==
  ASSUME TypeOK, NEW h \in Handlers
  PROVE  /\ Return(h) => handler' \in [Handlers -> Plans]
         /\ \A l \in Before \cup Locked : Goto(h, l) => handler' \in [Handlers -> Plans]
<1>1. handler[h] \in Plans
  BY DEF TypeOK
<1>2. \A l \in Before \cup Locked : [handler[h] EXCEPT !.pc = l] \in Plans
  BY <1>1, PlanTypes
<1>. QED
  BY <1>2, IdleType DEF TypeOK, Return, Goto

\* The counters of what went wrong stay within their bounds.
LEMMA FailureTypes ==
  ASSUME TypeOK, Works \/ Fails \/ Loses
  PROVE  faults' \in 0 .. MaxFaults /\ lost' \in 0 .. MaxLost /\ aborts' \in 0 .. MaxAborts
BY RefundAssumption DEF RefundAssumption, TypeOK, Works, Fails, Loses, failures

LEMMA RefundTypeNext == TypeOK /\ [Next]_vars => TypeOK'
<1>. SUFFICES ASSUME TypeOK, [Next]_vars PROVE TypeOK'
  OBVIOUS
<1>a. \A h \in Handlers : handler[h] \in Plans
  BY DEF TypeOK
<1>l. /\ Before \subseteq Before \cup Locked /\ Locked \subseteq Before \cup Locked
      /\ {"idle", "balance", "request", "auto", "plan", "lock"} \subseteq Before
      /\ {"deduct", "revoke", "gateway", "record", "rollback", "note", "fail", "restore"}
           \subseteq Locked
  BY DEF Before, Locked
<1>1. ASSUME NEW h \in Handlers, RequestRefund(h) PROVE TypeOK'
  <2>1. handler' \in [Handlers -> Plans]
    BY <1>1, <1>l, HandlerTypes DEF RequestRefund
  <2>. QED
    BY <1>1, <2>1 DEF RequestRefund, TypeOK, order, user, failures
<1>2. ASSUME NEW h \in Handlers, CheckBalance(h) PROVE TypeOK'
  <2>1. handler' \in [Handlers -> Plans]
    BY <1>2, <1>l, HandlerTypes DEF CheckBalance
  <2>. QED
    BY <1>2, <2>1 DEF CheckBalance, TypeOK, order, user, failures
<1>3. ASSUME NEW h \in Handlers, MarkRequested(h) PROVE TypeOK'
  <2>1. handler' \in [Handlers -> Plans]
    BY <1>3, <1>l, HandlerTypes DEF MarkRequested
  <2>2. status' \in Statuses /\ refundAmount' \in 0 .. Amount
    BY <1>3, RefundAssumption DEF RefundAssumption, MarkRequested, TypeOK, Statuses, Open
  <2>3. Works \/ Fails \/ Loses
    BY <1>3 DEF MarkRequested
  <2>. QED
    BY <1>3, <2>1, <2>2, <2>3, FailureTypes DEF MarkRequested, TypeOK, order, user
<1>4. ASSUME NEW h \in Handlers, PrepareRefund(h) PROVE TypeOK'
  <2>1. handler' \in [Handlers -> Plans]
    <3>1. CASE Return(h)
      BY <3>1, HandlerTypes
    <3>2. ASSUME NEW amt \in 1 .. Amount, NEW force \in BOOLEAN, NEW deduct \in BOOLEAN,
                 status \in Open,
                 handler' = [handler EXCEPT ![h] =
                   [pc |-> IF deduct THEN "plan" ELSE "lock", read |-> status,
                    amt |-> amt, force |-> force, take |-> 0]]
          PROVE  handler' \in [Handlers -> Plans]
      <4>1. [pc |-> IF deduct THEN "plan" ELSE "lock", read |-> status,
             amt |-> amt, force |-> force, take |-> 0] \in Plans
        BY <3>2, RefundAssumption DEF RefundAssumption, Plans, Before
      <4>. QED
        BY <3>2, <4>1 DEF TypeOK
    <3>. QED
      BY <1>4, <3>1, <3>2 DEF PrepareRefund
  <2>. QED
    BY <1>4, <2>1 DEF PrepareRefund, TypeOK, order, user, failures
<1>5. ASSUME NEW h \in Handlers, PrepDeduct(h) PROVE TypeOK'
  <2>1. handler' \in [Handlers -> Plans]
    <3>1. CASE handler' = [handler EXCEPT ![h].pc = "lock",
                                          ![h].take = ToDeduct(handler[h].amt)]
      <4>1. ToDeduct(handler[h].amt) \in Nat
        BY <1>a, PlanTypes, AmountTypes
      <4>2. [handler[h] EXCEPT !.pc = "lock", !.take = ToDeduct(handler[h].amt)] \in Plans
        BY <4>1, <1>a, <1>l, PlanTypes
      <4>. QED
        BY <3>1, <4>2 DEF TypeOK
    <3>2. CASE Goto(h, "lock") \/ Return(h)
      BY <3>2, <1>l, HandlerTypes
    <3>. QED
      BY <1>5, <3>1, <3>2 DEF PrepDeduct
  <2>3. Works \/ Fails \/ Loses
    BY <1>5 DEF PrepDeduct
  <2>. QED
    BY <1>5, <2>1, <2>3, FailureTypes DEF PrepDeduct, TypeOK, order, user
<1>6. ASSUME NEW h \in Handlers, LockOrder(h) PROVE TypeOK'
  <2>1. handler' \in [Handlers -> Plans]
    BY <1>6, <1>l, HandlerTypes DEF LockOrder
  <2>2. status' \in Statuses
    BY <1>6 DEF LockOrder, TypeOK, Statuses
  <2>3. Works \/ Fails \/ Loses
    BY <1>6 DEF LockOrder
  <2>. QED
    BY <1>6, <2>1, <2>2, <2>3, FailureTypes DEF LockOrder, TypeOK, order, user
<1>7. ASSUME NEW h \in Handlers, Deduct(h) PROVE TypeOK'
  <2>1. handler' \in [Handlers -> Plans]
    <3>1. CASE handler' = [handler EXCEPT ![h].pc = "gateway", ![h].take = 0]
      <4>1. [handler[h] EXCEPT !.pc = "gateway", !.take = 0] \in Plans
        BY <1>a, <1>l, PlanTypes
      <4>. QED
        BY <3>1, <4>1 DEF TypeOK
    <3>2. CASE Goto(h, "gateway") \/ Goto(h, "restore") \/ Goto(h, "revoke")
      BY <3>2, <1>l, HandlerTypes
    <3>3. CASE Goto(h, IF kind = "balance" THEN "restore" ELSE "revoke")
      BY <3>2, <3>3
    <3>. QED
      BY <1>7, <3>1, <3>2, <3>3 DEF Deduct
  <2>2. holding' \in Int /\ taken' \in Int /\ subscribed' \in BOOLEAN
    <3>1. handler[h].take \in Nat
      BY <1>a, PlanTypes
    <3>2. CASE UNCHANGED user
      BY <3>2 DEF user, TypeOK
    <3>3. CASE Take(handler[h].take)
      BY <3>1, <3>3 DEF Take, TypeOK
    <3>. QED
      BY <1>7, <3>2, <3>3 DEF Deduct
  <2>3. Works \/ Fails \/ Loses
    BY <1>7 DEF Deduct
  <2>. QED
    BY <1>7, <2>1, <2>2, <2>3, FailureTypes DEF Deduct, TypeOK, order, user
<1>8. ASSUME NEW h \in Handlers, Revoke(h) PROVE TypeOK'
  <2>1. handler' \in [Handlers -> Plans]
    BY <1>8, <1>l, HandlerTypes DEF Revoke
  <2>2. holding' \in Int /\ taken' \in Int /\ subscribed' \in BOOLEAN
    <3>1. CASE UNCHANGED user
      BY <3>1 DEF user, TypeOK
    <3>2. CASE subscribed' = FALSE /\ holding' = 0 /\ taken' = taken + holding
      <4>1. holding' \in Int /\ taken' \in Int
        BY <3>2 DEF TypeOK
      <4>. QED
        BY <3>2, <4>1, Zenon
    <3>. QED
      BY <1>8, <3>1, <3>2 DEF Revoke
  <2>3. Works \/ Fails \/ Loses
    BY <1>8 DEF Revoke
  <2>. QED
    BY <1>8, <2>1, <2>2, <2>3, FailureTypes DEF Revoke, TypeOK, order, user
<1>9. ASSUME NEW h \in Handlers, GatewayRefund(h) PROVE TypeOK'
  <2>1. handler' \in [Handlers -> Plans]
    BY <1>9, <1>l, HandlerTypes DEF GatewayRefund
  <2>2. returned' \in 0 .. PayAmount
    <3>1. GatewayAmount(handler[h].amt) \in 0 .. PayAmount
      BY <1>a, PlanTypes, AmountTypes
    <3>2. CASE UNCHANGED returned
      BY <3>2 DEF TypeOK
    <3>3. CASE /\ returned + GatewayAmount(handler[h].amt) <= PayAmount
               /\ returned' = returned + GatewayAmount(handler[h].amt)
      BY <3>1, <3>3, RefundAssumption DEF RefundAssumption, TypeOK
    <3>. QED
      BY <1>9, <3>2, <3>3 DEF GatewayRefund
  <2>3. Works \/ Fails \/ Loses
    BY <1>9 DEF GatewayRefund
  <2>. QED
    BY <1>9, <2>1, <2>2, <2>3, FailureTypes DEF GatewayRefund, TypeOK, order, user
<1>10. ASSUME NEW h \in Handlers, MarkRefundOk(h) PROVE TypeOK'
  <2>1. handler' \in [Handlers -> Plans]
    BY <1>10, <1>l, HandlerTypes DEF MarkRefundOk
  <2>2. status' \in Statuses /\ refundAmount' \in 0 .. Amount
    <3>1. handler[h].amt \in 0 .. Amount
      BY <1>a, PlanTypes
    <3>. QED
      BY <1>10, <3>1 DEF MarkRefundOk, TypeOK, Statuses, Closed
  <2>3. Works \/ Fails \/ Loses
    BY <1>10 DEF MarkRefundOk
  <2>. QED
    BY <1>10, <2>1, <2>2, <2>3, FailureTypes DEF MarkRefundOk, TypeOK, order, user
<1>11. ASSUME NEW h \in Handlers, RollbackRefund(h) PROVE TypeOK'
  <2>1. handler' \in [Handlers -> Plans]
    BY <1>11, <1>l, HandlerTypes DEF RollbackRefund
  <2>2. holding' \in Int /\ taken' \in Int /\ subscribed' \in BOOLEAN
    <3>1. ToGiveBack(handler[h]) \in Nat
      BY <1>a, PlanTypes
    <3>2. CASE UNCHANGED user
      BY <3>2 DEF user, TypeOK
    <3>3. CASE Take(0 - ToGiveBack(handler[h]))
      BY <3>1, <3>3 DEF Take, TypeOK
    <3>. QED
      BY <1>11, <3>2, <3>3 DEF RollbackRefund
  <2>3. Works \/ Fails \/ Loses
    BY <1>11 DEF RollbackRefund
  <2>. QED
    BY <1>11, <2>1, <2>2, <2>3, FailureTypes DEF RollbackRefund, TypeOK, order, user
<1>12. ASSUME NEW h \in Handlers, NoteRollbackFailed(h) PROVE TypeOK'
  <2>1. handler' \in [Handlers -> Plans]
    BY <1>12, <1>l, HandlerTypes DEF NoteRollbackFailed
  <2>2. rollbackFailed' \in BOOLEAN
    BY <1>12 DEF NoteRollbackFailed, TypeOK
  <2>3. Works \/ Fails \/ Loses
    BY <1>12 DEF NoteRollbackFailed
  <2>. QED
    BY <1>12, <2>1, <2>2, <2>3, FailureTypes DEF NoteRollbackFailed, TypeOK, order, user
<1>13. ASSUME NEW h \in Handlers, MarkRefundFailed(h) PROVE TypeOK'
  <2>1. handler' \in [Handlers -> Plans]
    BY <1>13, <1>l, HandlerTypes DEF MarkRefundFailed
  <2>2. status' \in Statuses
    BY <1>13 DEF MarkRefundFailed, TypeOK, Statuses, Open
  <2>3. Works \/ Fails \/ Loses
    BY <1>13 DEF MarkRefundFailed
  <2>. QED
    BY <1>13, <2>1, <2>2, <2>3, FailureTypes DEF MarkRefundFailed, TypeOK, order, user
<1>14. ASSUME NEW h \in Handlers, RestoreStatus(h) PROVE TypeOK'
  <2>1. handler' \in [Handlers -> Plans]
    BY <1>14, <1>l, HandlerTypes DEF RestoreStatus
  <2>2. status' \in Statuses
    <3>1. Restored(handler[h].read) \in Open
      BY <1>a, PlanTypes
    <3>. QED
      BY <1>14, <3>1 DEF RestoreStatus, TypeOK, Statuses
  <2>3. Works \/ Fails \/ Loses
    BY <1>14 DEF RestoreStatus
  <2>. QED
    BY <1>14, <2>1, <2>2, <2>3, FailureTypes DEF RestoreStatus, TypeOK, order, user
<1>15. ASSUME NEW h \in Handlers, Abort(h) PROVE TypeOK'
  <2>1. handler' \in [Handlers -> Plans]
    BY <1>15, <1>l, HandlerTypes DEF Abort
  <2>. QED
    BY <1>15, <2>1, RefundAssumption DEF RefundAssumption, Abort, TypeOK, order, user
<1>16. CASE Spend
  BY <1>16 DEF Spend, TypeOK, order, failures
<1>17. CASE UNCHANGED vars
  BY <1>17 DEF TypeOK, vars, order, user, failures
<1>. QED
  BY <1>1, <1>2, <1>3, <1>4, <1>5, <1>6, <1>7, <1>8, <1>9,
     <1>10, <1>11, <1>12, <1>13, <1>14, <1>15, <1>16, <1>17 DEF Next

\* Every reachable state of a refund is well typed (statuses, plans, counters).
THEOREM RefundTypeCorrect == Spec => []TypeOK
<1>1. Init => TypeOK
  <2>. SUFFICES ASSUME Init PROVE TypeOK
    OBVIOUS
  <2>1. handler \in [Handlers -> Plans]
    BY IdleType DEF Init
  <2>2. holding \in Int /\ subscribed \in BOOLEAN
    BY DEF Init
  <2>3. /\ refundAmount \in 0 .. Amount /\ returned \in 0 .. PayAmount /\ taken \in Int
        /\ faults \in 0 .. MaxFaults /\ lost \in 0 .. MaxLost /\ aborts \in 0 .. MaxAborts
    BY RefundAssumption DEF RefundAssumption, Init
  <2>. QED
    BY <2>1, <2>2, <2>3 DEF Init, TypeOK, Statuses, Open
<1>. QED
  BY <1>1, RefundTypeNext, PTL DEF Spec
-----------------------------------------------------------------------------
\* The inductive invariant.

\* Who executes a refund holds the order: it is REFUNDING, and nobody else does.
HolderInv ==
  /\ OneRefunder
  /\ \A h \in Handlers : Executes(h) => status = "REFUNDING"

\* What the gateway returns for a refund of amt.
GatewayReturns(amt) == IF tradeNo THEN GatewayAmount(amt) ELSE 0

\* While no answer was lost: nothing was returned for an open order, the recorded
\* refund for a closed one, and whoever executes knows which it is.
MoneyInv ==
  lost = 0 =>
    /\ status \in Open => returned = 0
    /\ status \in Closed => returned = GatewayReturns(refundAmount)
    /\ \A h \in Handlers : Executes(h) =>
         returned = IF At(h, "record") THEN GatewayReturns(handler[h].amt) ELSE 0

\* No plan of a balance order takes more than the order's amount.
PlanInv == kind = "balance" => \A h \in Handlers : handler[h].take <= Amount

\* What the plan of a refund that is executed says about taken.
PlanKnowsTaken(h) ==
  LET pc == handler[h].pc
      take == handler[h].take
  IN  /\ pc # "revoke"
      /\ pc = "note" => faults = 1 /\ ~rollbackFailed
      /\ pc = "fail" => rollbackFailed
      /\ pc \in {"gateway", "record", "rollback"} =>
           IF rollbackFailed THEN take = 0 ELSE taken = take
      /\ pc \in {"deduct", "restore"} /\ ~rollbackFailed => taken = 0

\* At most one failing statement, no lost answer, a balance order.
TakenInv ==
  kind = "balance" /\ lost = 0 /\ faults <= 1 =>
    /\ taken <= Amount
    /\ rollbackFailed => faults = 1
    /\ status \in Open /\ ~rollbackFailed => taken = 0
    /\ \A h \in Handlers : Executes(h) => PlanKnowsTaken(h)

RInv == HolderInv /\ MoneyInv /\ PlanInv /\ TakenInv

Others(h) == \A g \in Handlers : g # h => handler'[g] = handler[g]

LEMMA GotoEffect ==
  ASSUME TypeOK, NEW h \in Handlers, NEW l, Goto(h, l)
  PROVE  /\ Others(h)
         /\ handler'[h].pc = l
         /\ handler'[h].read = handler[h].read
         /\ handler'[h].amt = handler[h].amt
         /\ handler'[h].take = handler[h].take
BY DEF TypeOK, Plans, Goto, Others

LEMMA ReturnEffect ==
  ASSUME TypeOK, NEW h \in Handlers, Return(h)
  PROVE  Others(h) /\ handler'[h].pc = "idle" /\ handler'[h].take = 0
BY DEF TypeOK, Return, Others, Idle

LEMMA FailuresGrow ==
  ASSUME TypeOK, Works \/ Fails \/ Loses
  PROVE  /\ faults' \in Nat /\ lost' \in Nat
         /\ faults' >= faults /\ lost' >= lost
BY RefundAssumption DEF RefundAssumption, TypeOK, Works, Fails, Loses, failures

\* A step of a handler that does not execute a refund afterwards, and leaves the
\* order open if it changes it: everything before the lock, and Abort.
Quiet(h) ==
  /\ Others(h)
  /\ handler'[h].pc \notin Locked
  /\ handler'[h].take \in Nat
  /\ kind = "balance" => handler'[h].take <= Amount
  /\ \/ UNCHANGED <<status, refundAmount>>
     \/ status = "COMPLETED" /\ status' = "REFUND_REQUESTED"
  /\ UNCHANGED <<kind, tradeNo, rollbackFailed, taken, returned>>
  /\ faults' \in Nat /\ lost' \in Nat
  /\ faults' >= faults /\ lost' >= lost

LEMMA QuietKeepsInv ==
  ASSUME TypeOK, RInv, NEW h \in Handlers, Quiet(h)
  PROVE  RInv'
<1>. USE DEF Executes, At
<1>1. \A g \in Handlers : Executes(g)' => Executes(g) /\ handler'[g] = handler[g]
  BY DEF Quiet, Others
<1>2. (\E g \in Handlers : Executes(g)') => UNCHANGED <<status, refundAmount>>
  BY <1>1 DEF Quiet, RInv, HolderInv
<1>3. HolderInv'
  BY <1>1, <1>2 DEF Quiet, RInv, HolderInv, OneRefunder
<1>4. MoneyInv'
  <2>1. lost' = 0 => lost = 0
    BY DEF Quiet, TypeOK
  <2>. QED
    BY <1>1, <1>2, <2>1 DEF Quiet, RInv, MoneyInv, GatewayReturns, GatewayAmount, Open, Closed
<1>5. PlanInv'
  BY DEF Quiet, Others, RInv, PlanInv
<1>6. TakenInv'
  <2>1. lost' = 0 /\ faults' <= 1 =>
          lost = 0 /\ faults <= 1 /\ (faults = 1 => faults' = 1)
    BY DEF Quiet, TypeOK
  <2>. QED
    BY <1>1, <1>2, <2>1 DEF Quiet, RInv, TakenInv, PlanKnowsTaken, Open
<1>. QED
  BY <1>3, <1>4, <1>5, <1>6 DEF RInv

\* Before the lock every step is quiet.
LEMMA BeforeLockIsQuiet ==
  ASSUME TypeOK, RInv, NEW h \in Handlers,
         \/ RequestRefund(h) \/ CheckBalance(h) \/ MarkRequested(h)
         \/ PrepareRefund(h) \/ PrepDeduct(h) \/ Abort(h)
  PROVE  Quiet(h)
<1>p. handler[h] \in Plans /\ (kind = "balance" => handler[h].take <= Amount)
  BY DEF TypeOK, RInv, PlanInv
<1>l. {"idle", "balance", "request", "auto", "plan", "lock"} \cap Locked = {}
  BY DEF Locked
<1>r. ASSUME Return(h)
      PROVE  /\ Others(h) /\ handler'[h].pc \notin Locked /\ handler'[h].take \in Nat
             /\ kind = "balance" => handler'[h].take <= Amount
  BY <1>r, <1>l, ReturnEffect, RefundAssumption DEF RefundAssumption
<1>g. ASSUME NEW l \in Before, Goto(h, l)
      PROVE  /\ Others(h) /\ handler'[h].pc \notin Locked /\ handler'[h].take \in Nat
             /\ kind = "balance" => handler'[h].take <= Amount
  BY <1>g, <1>l, <1>p, GotoEffect, PlanTypes DEF Before
<1>s. TypeOK => faults \in Nat /\ lost \in Nat
  BY DEF TypeOK
<1>b. {"idle", "balance", "request", "auto", "plan", "lock"} \subseteq Before
  BY DEF Before
<1>1. CASE RequestRefund(h)
  BY <1>1, <1>g, <1>b, <1>s DEF RequestRefund, Quiet, order, user, failures
<1>2. CASE CheckBalance(h)
  BY <1>2, <1>g, <1>r, <1>b, <1>s DEF CheckBalance, Quiet, order, user, failures
<1>3. CASE MarkRequested(h)
  <2>1. Works \/ Fails \/ Loses
    BY <1>3 DEF MarkRequested
  <2>. QED
    BY <1>3, <1>g, <1>r, <1>b, <2>1, FailuresGrow DEF MarkRequested, Quiet, order, user
<1>4. CASE PrepareRefund(h)
  <2>1. CASE Return(h)
    BY <1>4, <2>1, <1>r, <1>s DEF PrepareRefund, Quiet, order, user, failures
  <2>2. ASSUME NEW amt \in 1 .. Amount, NEW force \in BOOLEAN, NEW deduct \in BOOLEAN,
               handler' = [handler EXCEPT ![h] =
                 [pc |-> IF deduct THEN "plan" ELSE "lock", read |-> status,
                  amt |-> amt, force |-> force, take |-> 0]]
        PROVE  Quiet(h)
    <3>1. Others(h) /\ handler'[h].pc \in {"plan", "lock"} /\ handler'[h].take = 0
      BY <2>2 DEF TypeOK, Others
    <3>. QED
      BY <1>4, <3>1, <1>l, <1>s, RefundAssumption
      DEF RefundAssumption, PrepareRefund, Quiet, order, user, failures
  <2>. QED
    BY <1>4, <2>1, <2>2 DEF PrepareRefund
<1>5. CASE PrepDeduct(h)
  <2>1. Works \/ Fails \/ Loses
    BY <1>5 DEF PrepDeduct
  <2>2. CASE handler' = [handler EXCEPT ![h].pc = "lock",
                                        ![h].take = ToDeduct(handler[h].amt)]
    <3>1. /\ Others(h) /\ handler'[h].pc = "lock"
          /\ handler'[h].take = ToDeduct(handler[h].amt)
      BY <2>2, <1>p DEF TypeOK, Others, Plans
    <3>2. ToDeduct(handler[h].amt) \in Nat
      BY <1>p, AmountTypes, PlanTypes
    <3>3. kind = "balance" => ToDeduct(handler[h].amt) <= Amount
      <4>1. handler[h].amt \in 0 .. Amount
        BY <1>p, PlanTypes
      <4>. QED
        BY <4>1, RefundAssumption DEF RefundAssumption, ToDeduct, TypeOK
    <3>. QED
      BY <1>5, <2>1, <3>1, <3>2, <3>3, <1>l, FailuresGrow
      DEF PrepDeduct, Quiet, order, user
  <2>3. CASE Goto(h, "lock") \/ Return(h)
    BY <1>5, <2>1, <2>3, <1>g, <1>r, <1>b, FailuresGrow DEF PrepDeduct, Quiet, order, user
  <2>. QED
    BY <1>5, <2>2, <2>3 DEF PrepDeduct
<1>6. CASE Abort(h)
  BY <1>6, <1>r, <1>s DEF Abort, Quiet, order, user
<1>. QED
  BY <1>1, <1>2, <1>3, <1>4, <1>5, <1>6

\* A step of the handler that executes the refund: it goes on, or it returns.
LEMMA AloneKeepsHolder ==
  ASSUME RInv, NEW h \in Handlers, Executes(h), Others(h),
         Executes(h)' => UNCHANGED status
  PROVE  /\ HolderInv'
         /\ status = "REFUNDING"
         /\ \A g \in Handlers : g # h => ~Executes(g)'
         /\ \A g \in Handlers : Executes(g)' => g = h
BY DEF RInv, HolderInv, OneRefunder, Executes, Others

LEMMA TakeKeepsPlan ==
  ASSUME RInv, NEW h \in Handlers, Others(h), UNCHANGED kind,
         handler'[h].take = handler[h].take \/ handler'[h].take = 0
  PROVE  PlanInv'
BY RefundAssumption DEF RefundAssumption, RInv, PlanInv, Others

\* LockOrder: the order was open, nobody executed.
LEMMA LockKeepsInv ==
  ASSUME TypeOK, RInv, NEW h \in Handlers, LockOrder(h)
  PROVE  RInv'
<1>. USE DEF Executes, At
<1>f. Works \/ Fails \/ Loses
  BY DEF LockOrder
<1>g. faults' \in Nat /\ lost' \in Nat /\ faults' >= faults /\ lost' >= lost
  BY <1>f, FailuresGrow
<1>1. CASE Return(h) /\ UNCHANGED status
  <2>1. Quiet(h)
    BY <1>1, <1>g, ReturnEffect, RefundAssumption
    DEF RefundAssumption, LockOrder, Quiet, order, user, Locked
  <2>. QED
    BY <2>1, QuietKeepsInv
<1>2. CASE status \in LockFrom /\ status' = "REFUNDING" /\ Loses /\ Return(h)
  <2>1. \A g \in Handlers : ~Executes(g)
    BY <1>2 DEF RInv, HolderInv, LockFrom, Open
  <2>2. Others(h) /\ handler'[h].pc = "idle" /\ handler'[h].take = 0
    BY <1>2, ReturnEffect
  <2>3. \A g \in Handlers : ~Executes(g)'
    BY <2>1, <2>2 DEF Others, Locked
  <2>4. HolderInv'
    BY <2>3 DEF HolderInv, OneRefunder
  <2>5. lost' # 0
    BY <1>2 DEF Loses, TypeOK
  <2>6. PlanInv'
    BY <2>2, TakeKeepsPlan DEF LockOrder, order
  <2>. QED
    BY <2>4, <2>5, <2>6 DEF RInv, MoneyInv, TakenInv
<1>3. CASE status \in LockFrom /\ status' = "REFUNDING" /\ Works /\ Goto(h, "deduct")
  <2>1. \A g \in Handlers : ~Executes(g)
    BY <1>3 DEF RInv, HolderInv, LockFrom, Open
  <2>2. Others(h) /\ handler'[h].pc = "deduct" /\ handler'[h].take = handler[h].take
    BY <1>3, GotoEffect
  <2>3. \A g \in Handlers : Executes(g)' => g = h
    BY <2>1, <2>2 DEF Others
  <2>4. HolderInv'
    BY <1>3, <2>3 DEF HolderInv, OneRefunder
  <2>u. UNCHANGED <<kind, tradeNo, refundAmount, rollbackFailed, taken, returned,
                    faults, lost>>
    BY <1>3 DEF LockOrder, order, user, failures, Works
  <2>5. MoneyInv'
    BY <1>3, <2>2, <2>3, <2>u DEF RInv, MoneyInv, LockFrom, Open, Closed
  <2>6. PlanInv'
    BY <2>2, <2>u, TakeKeepsPlan
  <2>7. TakenInv'
    BY <1>3, <2>2, <2>3, <2>u DEF RInv, TakenInv, PlanKnowsTaken, LockFrom, Open
  <2>. QED
    BY <2>4, <2>5, <2>6, <2>7 DEF RInv
<1>. QED
  BY <1>1, <1>2, <1>3 DEF LockOrder

\* The steps of the handler that holds the order.
LEMMA HolderKeepsInv ==
  ASSUME TypeOK, RInv, NEW h \in Handlers,
         \/ Deduct(h) \/ Revoke(h) \/ GatewayRefund(h) \/ MarkRefundOk(h)
         \/ RollbackRefund(h) \/ NoteRollbackFailed(h) \/ MarkRefundFailed(h)
         \/ RestoreStatus(h)
  PROVE  RInv'
<1>. USE DEF Executes, At
<1>f. Works \/ Fails \/ Loses
  BY DEF Deduct, Revoke, GatewayRefund, MarkRefundOk, RollbackRefund,
         NoteRollbackFailed, MarkRefundFailed, RestoreStatus
<1>g. faults' \in Nat /\ lost' \in Nat /\ faults' >= faults /\ lost' >= lost
  BY <1>f, FailuresGrow
<1>w. /\ Works => faults' = faults /\ lost' = lost
      /\ Fails => faults' = faults + 1 /\ lost' = lost
      /\ Loses => lost' # 0
  BY DEF Works, Fails, Loses, failures, TypeOK
<1>t. /\ faults \in Nat /\ lost \in Nat /\ taken \in Int /\ returned \in Nat
      /\ handler[h].take \in Nat /\ handler[h].amt \in 0 .. Amount
      /\ Restored(handler[h].read) \in Open
  <2>1. handler[h] \in Plans
    BY DEF TypeOK
  <2>2. /\ handler[h].take \in Nat /\ handler[h].amt \in 0 .. Amount
        /\ Restored(handler[h].read) \in Open
    BY <2>1, PlanTypes
  <2>3. faults \in Nat /\ lost \in Nat /\ taken \in Int /\ returned \in Nat
    BY DEF TypeOK
  <2>. QED
    BY <2>2, <2>3
<1>p. kind = "balance" => handler[h].take <= Amount
  BY DEF RInv, PlanInv
<1>e. Executes(h)
  BY DEF Deduct, Revoke, GatewayRefund, MarkRefundOk, RollbackRefund,
         NoteRollbackFailed, MarkRefundFailed, RestoreStatus, Locked
<1>m. /\ \A l : Goto(h, l) => /\ Others(h) /\ handler'[h].pc = l
                             /\ handler'[h].amt = handler[h].amt
                             /\ handler'[h].take = handler[h].take
      /\ Return(h) => Others(h) /\ handler'[h].pc = "idle" /\ handler'[h].take = 0
  BY GotoEffect, ReturnEffect
<1>k. lost = 0 => returned = IF handler[h].pc = "record"
                              THEN GatewayReturns(handler[h].amt) ELSE 0
  BY <1>e DEF RInv, MoneyInv
<1>n. kind = "balance" /\ lost = 0 /\ faults <= 1 =>
        /\ taken <= Amount
        /\ rollbackFailed => faults = 1
        /\ PlanKnowsTaken(h)
  BY <1>e DEF RInv, TakenInv
\* What is left to show of the invariant once only h can execute.
<1>q. ASSUME Others(h),
             handler'[h].take = handler[h].take \/ handler'[h].take = 0,
             UNCHANGED <<kind, tradeNo>>,
             Executes(h)' => UNCHANGED status,
             lost' = 0 =>
               /\ status' \in Open => returned' = 0
               /\ status' \in Closed => returned' = GatewayReturns(refundAmount')
               /\ Executes(h)' =>
                    returned' = IF handler'[h].pc = "record"
                                  THEN GatewayReturns(handler'[h].amt) ELSE 0,
             kind = "balance" /\ lost' = 0 /\ faults' <= 1 =>
               /\ taken' <= Amount
               /\ rollbackFailed' => faults' = 1
               /\ status' \in Open /\ ~rollbackFailed' => taken' = 0
               /\ Executes(h)' => PlanKnowsTaken(h)'
      PROVE  RInv'
  <2>1. HolderInv' /\ \A g \in Handlers : Executes(g)' => g = h
    BY <1>q, <1>e, AloneKeepsHolder
  <2>2. PlanInv'
    BY <1>q, TakeKeepsPlan
  <2>3. MoneyInv'
    <3>1. \A amt : GatewayReturns(amt)' = GatewayReturns(amt)
      BY <1>q DEF GatewayReturns, GatewayAmount
    <3>. QED
      BY <1>q, <2>1, <3>1 DEF MoneyInv, GatewayReturns, GatewayAmount
  <2>4. TakenInv'
    BY <1>q, <2>1 DEF TakenInv
  <2>. QED
    BY <2>1, <2>2, <2>3, <2>4 DEF RInv
<1>s. status = "REFUNDING" /\ status \notin Open /\ status \notin Closed
  BY <1>e DEF RInv, HolderInv, Open, Closed
<1>1. CASE Deduct(h)
  <2>1. /\ Others(h) /\ handler'[h].pc \in {"gateway", "restore", "revoke"}
        /\ handler'[h].take = handler[h].take \/ handler'[h].take = 0
        /\ kind = "balance" => handler'[h].pc # "revoke"
    <3>1. CASE handler' = [handler EXCEPT ![h].pc = "gateway", ![h].take = 0]
      BY <3>1 DEF TypeOK, Plans, Others
    <3>2. CASE \E l \in {"gateway", IF kind = "balance" THEN "restore" ELSE "revoke"} : Goto(h, l)
      BY <3>2, <1>m
    <3>. QED
      BY <1>1, <3>1, <3>2 DEF Deduct
  <2>2. UNCHANGED <<kind, tradeNo, status, refundAmount, rollbackFailed, returned>>
    BY <1>1 DEF Deduct, order
  <2>3. kind = "balance" /\ lost' = 0 /\ faults' <= 1 =>
          /\ taken' <= Amount
          /\ rollbackFailed => faults' = 1
          /\ handler'[h].pc = "gateway" =>
               IF rollbackFailed THEN handler'[h].take = 0 ELSE taken' = handler'[h].take
          /\ handler'[h].pc = "restore" /\ ~rollbackFailed => taken' = 0
    <3>. SUFFICES ASSUME kind = "balance", lost' = 0, faults' <= 1
                  PROVE  /\ taken' <= Amount
                         /\ rollbackFailed => faults' = 1
                         /\ handler'[h].pc = "gateway" =>
                              IF rollbackFailed THEN handler'[h].take = 0
                              ELSE taken' = handler'[h].take
                         /\ handler'[h].pc = "restore" /\ ~rollbackFailed => taken' = 0
      OBVIOUS
    <3>0. /\ lost = 0 /\ faults <= 1 /\ taken <= Amount
          /\ rollbackFailed => faults = 1
          /\ ~rollbackFailed => taken = 0
      BY <1>1, <1>g, <1>t, <1>n DEF Deduct, PlanKnowsTaken
    <3>1. CASE /\ handler[h].take = 0 \/ SkipDeduction
               /\ handler' = [handler EXCEPT ![h].pc = "gateway", ![h].take = 0]
               /\ Works /\ UNCHANGED user
      <4>1. handler'[h].pc = "gateway" /\ handler'[h].take = 0
        BY <3>1 DEF TypeOK, Plans
      <4>. QED
        BY <3>0, <3>1, <4>1, <1>w DEF user
    <3>2. CASE Take(handler[h].take) /\ ~SkipDeduction /\ Works /\ Goto(h, "gateway")
      BY <3>0, <3>2, <1>w, <1>m, <1>p, <1>t DEF Take, SkipDeduction
    <3>3. CASE SkipDeduction /\ Fails
      BY <3>0, <3>3, <1>w DEF SkipDeduction
    <3>4. CASE Loses
      BY <3>4, <1>w
    <3>5. CASE /\ (~SkipDeduction /\ Works) \/ Fails
               /\ Goto(h, "restore") /\ UNCHANGED user
      BY <3>0, <3>5, <1>w, <1>m, <1>t DEF SkipDeduction, user
    <3>. QED
      BY <1>1, <3>1, <3>2, <3>3, <3>4, <3>5 DEF Deduct
  <2>4. lost' = 0 => returned' = 0
    BY <1>1, <1>k, <1>g, <1>t, <2>2 DEF Deduct
  <2>. QED
    BY <1>q, <1>s, <2>1, <2>2, <2>3, <2>4 DEF PlanKnowsTaken
<1>2. CASE Revoke(h)
  <2>1. /\ Others(h) /\ handler'[h].pc \in {"gateway", "restore"}
        /\ handler'[h].take = handler[h].take
    BY <1>2, <1>m DEF Revoke
  <2>2. UNCHANGED <<kind, tradeNo, status, refundAmount, rollbackFailed, returned>>
    BY <1>2 DEF Revoke, order
  <2>3. ~(kind = "balance" /\ lost' = 0 /\ faults' <= 1)
    BY <1>2, <1>n, <1>g, <1>t DEF Revoke, PlanKnowsTaken
  <2>4. lost' = 0 => returned' = 0
    BY <1>2, <1>k, <1>g, <1>t, <2>2 DEF Revoke
  <2>. QED
    BY <1>q, <1>s, <2>1, <2>2, <2>3, <2>4
<1>3. CASE GatewayRefund(h)
  <2>1. /\ Others(h) /\ handler'[h].pc \in {"record", "rollback"}
        /\ handler'[h].take = handler[h].take /\ handler'[h].amt = handler[h].amt
    BY <1>3, <1>m DEF GatewayRefund
  <2>2. UNCHANGED <<kind, tradeNo, status, refundAmount, rollbackFailed, taken>>
    BY <1>3 DEF GatewayRefund, order, user
  <2>3. kind = "balance" /\ lost' = 0 /\ faults' <= 1 =>
          /\ taken' <= Amount
          /\ rollbackFailed => faults' = 1
          /\ IF rollbackFailed THEN handler'[h].take = 0 ELSE taken' = handler'[h].take
    BY <1>3, <1>n, <1>g, <1>t, <2>1, <2>2 DEF GatewayRefund, PlanKnowsTaken
  <2>4. lost' = 0 => returned' = IF handler'[h].pc = "record"
                                   THEN GatewayReturns(handler'[h].amt) ELSE 0
    <3>. SUFFICES ASSUME lost' = 0
                  PROVE  returned' = IF handler'[h].pc = "record"
                                       THEN GatewayReturns(handler'[h].amt) ELSE 0
      OBVIOUS
    <3>1. returned = 0
      BY <1>3, <1>k, <1>g, <1>t DEF GatewayRefund
    <3>2. CASE ~tradeNo /\ Goto(h, "record") /\ UNCHANGED returned
      BY <3>1, <3>2, <1>m DEF GatewayReturns
    <3>3. CASE tradeNo /\ returned' = returned + GatewayAmount(handler[h].amt)
                 /\ Goto(h, "record")
      <4>1. GatewayAmount(handler[h].amt) \in Nat
        BY <1>t, AmountTypes
      <4>. QED
        BY <3>1, <3>3, <4>1, <1>m DEF GatewayReturns
    <3>4. CASE Loses
      BY <3>4, <1>w
    <3>5. CASE Goto(h, "rollback") /\ UNCHANGED returned
      BY <3>1, <3>5, <1>m
    <3>. QED
      BY <1>3, <3>2, <3>3, <3>4, <3>5 DEF GatewayRefund
  <2>. QED
    BY <1>q, <1>s, <2>1, <2>2, <2>3, <2>4 DEF PlanKnowsTaken
<1>4. CASE MarkRefundOk(h)
  <2>1. Others(h) /\ ~Executes(h)' /\ handler'[h].take = 0
    BY <1>4, <1>m DEF MarkRefundOk, Locked
  <2>2. UNCHANGED <<kind, tradeNo, rollbackFailed, taken, returned>>
    BY <1>4 DEF MarkRefundOk, order, user
  <2>3. status' \notin Open
    BY <1>4, <1>s DEF MarkRefundOk, Open
  <2>4. lost' = 0 /\ status' \in Closed => returned' = GatewayReturns(refundAmount')
    BY <1>4, <1>k, <1>g, <1>t, <1>s, <2>2 DEF MarkRefundOk
  <2>5. kind = "balance" /\ lost' = 0 /\ faults' <= 1 =>
          taken' <= Amount /\ (rollbackFailed' => faults' = 1)
    BY <1>4, <1>n, <1>g, <1>t, <2>2 DEF MarkRefundOk
  <2>. QED
    BY <1>q, <2>1, <2>2, <2>3, <2>4, <2>5
<1>5. CASE RollbackRefund(h)
  <2>1. /\ Others(h) /\ handler'[h].pc \in {"restore", "note"}
        /\ handler'[h].take = handler[h].take
    BY <1>5, <1>m DEF RollbackRefund
  <2>2. UNCHANGED <<kind, tradeNo, status, refundAmount, rollbackFailed, returned>>
    BY <1>5 DEF RollbackRefund, order
  <2>3. kind = "balance" /\ lost' = 0 /\ faults' <= 1 =>
          /\ taken' <= Amount
          /\ rollbackFailed => faults' = 1
          /\ handler'[h].pc = "restore" /\ ~rollbackFailed => taken' = 0
          /\ handler'[h].pc = "note" => faults' = 1 /\ ~rollbackFailed
    <3>. SUFFICES ASSUME kind = "balance", lost' = 0, faults' <= 1
                  PROVE  /\ taken' <= Amount
                         /\ rollbackFailed => faults' = 1
                         /\ handler'[h].pc = "restore" /\ ~rollbackFailed => taken' = 0
                         /\ handler'[h].pc = "note" => faults' = 1 /\ ~rollbackFailed
      OBVIOUS
    <3>0. /\ lost = 0 /\ faults <= 1 /\ taken <= Amount
          /\ rollbackFailed => faults = 1
          /\ IF rollbackFailed THEN handler[h].take = 0 ELSE taken = handler[h].take
      BY <1>5, <1>g, <1>t, <1>n DEF RollbackRefund, PlanKnowsTaken
    <3>1. CASE handler[h].take = 0 /\ Works /\ Goto(h, "restore") /\ UNCHANGED user
      BY <3>0, <3>1, <1>w, <1>m DEF user
    <3>2. CASE /\ handler[h].take > 0 /\ Take(0 - ToGiveBack(handler[h]))
               /\ Works /\ Goto(h, "restore")
      BY <3>0, <3>2, <1>w, <1>m, <1>t, RefundAssumption
      DEF RefundAssumption, Take, ToGiveBack
    <3>3. CASE Loses
      BY <3>3, <1>w
    <3>4. CASE handler[h].take > 0 /\ Fails /\ Goto(h, "note") /\ UNCHANGED user
      BY <3>0, <3>4, <1>w, <1>m, <1>t DEF user
    <3>. QED
      BY <1>5, <3>1, <3>2, <3>3, <3>4 DEF RollbackRefund
  <2>4. lost' = 0 => returned' = 0
    BY <1>5, <1>k, <1>g, <1>t, <2>2 DEF RollbackRefund
  <2>. QED
    BY <1>q, <1>s, <2>1, <2>2, <2>3, <2>4 DEF PlanKnowsTaken
<1>6. CASE NoteRollbackFailed(h)
  <2>1. Others(h) /\ handler'[h].pc = "fail" /\ handler'[h].take = handler[h].take
    BY <1>6, <1>m DEF NoteRollbackFailed
  <2>2. UNCHANGED <<kind, tradeNo, status, refundAmount, taken, returned>>
    BY <1>6 DEF NoteRollbackFailed, order, user
  <2>3. kind = "balance" /\ lost' = 0 /\ faults' <= 1 =>
          taken' <= Amount /\ rollbackFailed' /\ faults' = 1
    BY <1>6, <1>n, <1>w, <1>g, <1>t, <2>2 DEF NoteRollbackFailed, PlanKnowsTaken
  <2>4. lost' = 0 => returned' = 0
    BY <1>6, <1>k, <1>g, <1>t, <2>2 DEF NoteRollbackFailed
  <2>. QED
    BY <1>q, <1>s, <2>1, <2>2, <2>3, <2>4 DEF PlanKnowsTaken
<1>7. CASE MarkRefundFailed(h)
  <2>1. Others(h) /\ ~Executes(h)' /\ handler'[h].take = 0
    BY <1>7, <1>m DEF MarkRefundFailed, Locked
  <2>2. UNCHANGED <<kind, tradeNo, refundAmount, rollbackFailed, taken, returned>>
    BY <1>7 DEF MarkRefundFailed, order, user
  <2>3. status' \notin Closed
    BY <1>7, <1>s DEF MarkRefundFailed, Closed
  <2>4. lost' = 0 => returned' = 0
    BY <1>7, <1>k, <1>g, <1>t, <2>2 DEF MarkRefundFailed
  <2>5. kind = "balance" /\ lost' = 0 /\ faults' <= 1 =>
          taken' <= Amount /\ rollbackFailed' /\ faults' = 1
    BY <1>7, <1>n, <1>g, <1>t, <2>2 DEF MarkRefundFailed, PlanKnowsTaken
  <2>. QED
    BY <1>q, <2>1, <2>2, <2>3, <2>4, <2>5
<1>8. CASE RestoreStatus(h)
  <2>1. Others(h) /\ ~Executes(h)' /\ handler'[h].take = 0
    BY <1>8, <1>m DEF RestoreStatus, Locked
  <2>2. UNCHANGED <<kind, tradeNo, refundAmount, rollbackFailed, taken, returned>>
    BY <1>8 DEF RestoreStatus, order, user
  <2>3. status' \notin Closed
    BY <1>8, <1>s, <1>t DEF RestoreStatus, Open, Closed
  <2>4. lost' = 0 => returned' = 0
    BY <1>8, <1>k, <1>g, <1>t, <2>2 DEF RestoreStatus
  <2>5. kind = "balance" /\ lost' = 0 /\ faults' <= 1 =>
          /\ taken' <= Amount
          /\ rollbackFailed' => faults' = 1
          /\ ~rollbackFailed' => taken' = 0
    BY <1>8, <1>n, <1>g, <1>t, <2>2 DEF RestoreStatus, PlanKnowsTaken
  <2>. QED
    BY <1>q, <2>1, <2>2, <2>3, <2>4, <2>5
<1>. QED
  BY <1>1, <1>2, <1>3, <1>4, <1>5, <1>6, <1>7, <1>8

LEMMA RInvNext == TypeOK /\ RInv /\ [Next]_vars => RInv'
<1>. SUFFICES ASSUME TypeOK, RInv, [Next]_vars PROVE RInv'
  OBVIOUS
<1>1. ASSUME NEW h \in Handlers,
             \/ RequestRefund(h) \/ CheckBalance(h) \/ MarkRequested(h)
             \/ PrepareRefund(h) \/ PrepDeduct(h) \/ Abort(h)
      PROVE  RInv'
  BY <1>1, BeforeLockIsQuiet, QuietKeepsInv
<1>2. ASSUME NEW h \in Handlers, LockOrder(h) PROVE RInv'
  BY <1>2, LockKeepsInv
<1>3. ASSUME NEW h \in Handlers,
             \/ Deduct(h) \/ Revoke(h) \/ GatewayRefund(h) \/ MarkRefundOk(h)
             \/ RollbackRefund(h) \/ NoteRollbackFailed(h) \/ MarkRefundFailed(h)
             \/ RestoreStatus(h)
      PROVE  RInv'
  BY <1>3, HolderKeepsInv
<1>4. ASSUME UNCHANGED <<kind, tradeNo, status, refundAmount, rollbackFailed, taken,
                         returned, handler, faults, lost>>
      PROVE  RInv'
  BY <1>4 DEF RInv, HolderInv, OneRefunder, Executes, At, MoneyInv, GatewayReturns,
              GatewayAmount, PlanInv, TakenInv, PlanKnowsTaken
<1>5. CASE Spend
  BY <1>4, <1>5 DEF Spend, order, failures
<1>6. CASE UNCHANGED vars
  BY <1>4, <1>6 DEF vars, order, user, failures
<1>. QED
  BY <1>1, <1>2, <1>3, <1>5, <1>6 DEF Next

LEMMA RInvHolds == Spec => [](TypeOK /\ RInv)
<1>1. Init => RInv
  <2>. SUFFICES ASSUME Init PROVE RInv
    OBVIOUS
  <2>1. \A h \in Handlers : ~Executes(h) /\ handler[h].take = 0
    BY DEF Init, Idle, Executes, Locked
  <2>. QED
    BY <2>1, RefundAssumption
    DEF RefundAssumption, Init, RInv, HolderInv, OneRefunder, MoneyInv, PlanInv,
        TakenInv, Closed
<1>2. RInv /\ TypeOK /\ [Next]_vars => RInv'
  BY RInvNext
<1>. QED
  BY <1>1, <1>2, RefundTypeCorrect, PTL DEF Spec

-----------------------------------------------------------------------------
\* What follows.

\* One refund of an order executes at a time, for any number of handlers.
THEOREM RefundIsExclusive == Spec => []OneRefunder
<1>1. RInv => OneRefunder
  BY DEF RInv, HolderInv
<1>. QED
  BY <1>1, RInvHolds, PTL

\* Money the gateway returned is on record, or the order is still REFUNDING,
\* unless an answer was lost.
THEOREM RefundMoneyIsRecorded == Spec => []MoneyOutIsRecorded
<1>1. TypeOK /\ RInv => MoneyOutIsRecorded
  BY DEF RInv, MoneyInv, GatewayReturns, MoneyOutIsRecorded, TypeOK, Statuses
<1>. QED
  BY <1>1, RInvHolds, PTL

\* A refusal of the gateway costs the user of a balance order nothing while no
\* statement fails.
THEOREM RefusalIsFree == Spec => []RefusedCostsNothing
<1>1. TypeOK /\ RInv => RefusedCostsNothing
  <2>1. TypeOK => faults \in Nat /\ lost \in Nat
    BY DEF TypeOK
  <2>. QED
    BY <2>1 DEF RInv, TakenInv, RefusedCostsNothing
<1>. QED
  BY <1>1, RInvHolds, PTL

\* One failing statement does not make the refunds of a balance order take more
\* than its amount.
THEOREM RefundTakesOnce == Spec => []TakenAtMostOnce
<1>1. RInv => TakenAtMostOnce
  BY DEF RInv, TakenInv, TakenAtMostOnce
<1>. QED
  BY <1>1, RInvHolds, PTL

\* A refunded order stays as it is: nobody executes a refund of it, and what is
\* done before the lock does not change it.
THEOREM RefundedStays == Spec => RefundIsFinal
<1>1. TypeOK /\ RInv /\ [Next]_vars =>
        ((status \in Closed) => status' = status /\ refundAmount' = refundAmount)
  <2>. SUFFICES ASSUME TypeOK, RInv, [Next]_vars, status \in Closed
                PROVE  UNCHANGED <<status, refundAmount>>
    OBVIOUS
  <2>1. /\ status \notin LockFrom /\ status # "COMPLETED"
        /\ \A h \in Handlers : ~Executes(h)
    BY DEF RInv, HolderInv, Closed, LockFrom, Open
  <2>2. ASSUME NEW h \in Handlers,
               \/ RequestRefund(h) \/ CheckBalance(h) \/ MarkRequested(h)
               \/ PrepareRefund(h) \/ PrepDeduct(h) \/ Abort(h)
        PROVE  UNCHANGED <<status, refundAmount>>
    BY <2>1, <2>2, BeforeLockIsQuiet DEF Quiet
  <2>3. ASSUME NEW h \in Handlers, LockOrder(h)
        PROVE  UNCHANGED <<status, refundAmount>>
    BY <2>1, <2>3 DEF LockOrder
  <2>4. ASSUME NEW h \in Handlers,
               \/ Deduct(h) \/ Revoke(h) \/ GatewayRefund(h) \/ MarkRefundOk(h)
               \/ RollbackRefund(h) \/ NoteRollbackFailed(h) \/ MarkRefundFailed(h)
               \/ RestoreStatus(h)
        PROVE  FALSE
    BY <2>1, <2>4 DEF Executes, At, Locked, Deduct, Revoke, GatewayRefund,
      MarkRefundOk, RollbackRefund, NoteRollbackFailed, MarkRefundFailed, RestoreStatus
  <2>. QED
    BY <2>2, <2>3, <2>4 DEF Next, Spend, vars
<1>. QED
  BY <1>1, RInvHolds, PTL DEF Spec, RefundIsFinal
=============================================================================
