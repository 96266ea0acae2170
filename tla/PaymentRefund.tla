--------------------------- MODULE PaymentRefund ---------------------------
(***************************************************************************)
(* The refund of one completed order: a balance recharge or a              *)
(* subscription.  A refund takes the value back from the user, asks the    *)
(* gateway to return the money and records the outcome; when the gateway   *)
(* refuses, the value is given back.  Three systems without a common       *)
(* transaction: every statement may fail, or fail to answer after it took  *)
(* effect, and a handler may stop anywhere.                                *)
(*                                                                         *)
(* Amounts are whole numbers.  holding is what the user has of the kind    *)
(* the order sold: the balance, or the days left of the subscription.      *)
(***************************************************************************)
EXTENDS Integers

CONSTANTS
  Handlers,   \* goroutines that run RequestRefund or ProcessRefund
  Amount,     \* amount of the order
  PayAmount,  \* what was paid for it, with fees
  SubDays,    \* days a subscription order sold
  MaxHolding, \* bound on what the user has at first
  MaxFaults,  \* bound on statements that fail without effect
  MaxLost,    \* bound on statements that take effect and report an error
  MaxAborts   \* bound on handlers that stop

ASSUME RefundAssumption ==
  /\ {Amount, PayAmount, SubDays} \subseteq Nat \ {0}
  /\ Amount <= PayAmount
  /\ {MaxHolding, MaxFaults, MaxLost, MaxAborts} \subseteq Nat

VARIABLES
  kind,           \* order_type
  tradeNo,        \* whether the order has a payment_trade_no
  status,         \* status of the order
  refundAmount,   \* refund_amount of the order
  rollbackFailed, \* the audit log has REFUND_ROLLBACK_FAILED for the order
  holding,        \* the user's balance or remaining days
  subscribed,     \* the row of the subscription exists
  taken,          \* what the order's refunds took from the user and kept
  returned,       \* what the gateway returned of the payment
  handler,        \* per handler: pc and the refund plan
  faults, lost, aborts

order == <<kind, tradeNo>>
user == <<holding, subscribed, taken>>
failures == <<faults, lost, aborts>>
vars == <<order, status, refundAmount, rollbackFailed, user, returned, handler,
          failures>>

Open == {"COMPLETED", "REFUND_REQUESTED", "REFUND_FAILED"}
Closed == {"REFUNDED", "PARTIALLY_REFUNDED"}
Statuses == Open \cup Closed \cup {"REFUNDING"}

Before == {"idle", "balance", "request", "auto", "plan", "lock"}
Locked == {"deduct", "revoke", "gateway", "record", "rollback", "note", "fail",
           "restore"}
Idle == [pc |-> "idle", read |-> "COMPLETED", amt |-> 0, force |-> FALSE, take |-> 0]
Plans == [pc : Before \cup Locked, read : Open, amt : 0 .. Amount,
          force : BOOLEAN, take : Nat]

TypeOK ==
  /\ kind \in {"balance", "subscription"}
  /\ tradeNo \in BOOLEAN
  /\ status \in Statuses
  /\ refundAmount \in 0 .. Amount
  /\ rollbackFailed \in BOOLEAN
  /\ holding \in Int
  /\ subscribed \in BOOLEAN
  /\ taken \in Int
  /\ returned \in 0 .. PayAmount
  /\ handler \in [Handlers -> Plans]
  /\ faults \in 0 .. MaxFaults
  /\ lost \in 0 .. MaxLost
  /\ aborts \in 0 .. MaxAborts

Init ==
  /\ kind \in {"balance", "subscription"}
  /\ tradeNo \in BOOLEAN
  /\ status = "COMPLETED"
  /\ refundAmount = 0
  /\ rollbackFailed = FALSE
  /\ holding \in 0 .. MaxHolding
  /\ subscribed = (kind = "subscription")
  /\ taken = 0
  /\ returned = 0
  /\ handler = [h \in Handlers |-> Idle]
  /\ faults = 0 /\ lost = 0 /\ aborts = 0

At(h, label) == handler[h].pc = label
Goto(h, label) == handler' = [handler EXCEPT ![h].pc = label]
Return(h) == handler' = [handler EXCEPT ![h] = Idle]

\* A statement works, fails without effect, or fails to answer.  Where the code
\* ignores the error, a lost answer is the same as a statement that works.
Works == UNCHANGED failures
Fails == faults < MaxFaults /\ faults' = faults + 1 /\ UNCHANGED <<lost, aborts>>
Loses == lost < MaxLost /\ lost' = lost + 1 /\ UNCHANGED <<faults, aborts>>

\* The user loses n of what the order sold, or gets n back (n < 0).
Take(n) ==
  /\ holding' = holding - n
  /\ taken' = taken + n
  /\ UNCHANGED subscribed
-----------------------------------------------------------------------------
\* RequestRefund by the owner of a balance order: validateRefundRequest.
RequestRefund(h) ==
  /\ At(h, "idle")
  /\ kind = "balance"
  /\ status = "COMPLETED"
  /\ Goto(h, "balance")
  /\ UNCHANGED <<order, status, refundAmount, rollbackFailed, user, returned, failures>>

\* "refund amount exceeds balance".
CheckBalance(h) ==
  /\ At(h, "balance")
  /\ IF holding < Amount THEN Return(h) ELSE Goto(h, "request")
  /\ UNCHANGED <<order, status, refundAmount, rollbackFailed, user, returned, failures>>

\* COMPLETED becomes REFUND_REQUESTED.  Whether the order is eligible for an
\* automatic refund depends on its age and on the user's other orders.
MarkRequested(h) ==
  /\ At(h, "request")
  /\ \/ /\ status = "COMPLETED"
        /\ status' = "REFUND_REQUESTED"
        /\ refundAmount' = Amount
        /\ \/ Works /\ (Goto(h, "auto") \/ Return(h))
           \/ Loses /\ Return(h)
     \/ /\ (status # "COMPLETED" /\ Works) \/ Fails
        /\ Return(h)
        /\ UNCHANGED <<status, refundAmount>>
  /\ UNCHANGED <<order, rollbackFailed, user, returned>>

\* PrepareRefund, by an administrator with parameters of his choice or for the
\* automatic refund.
PrepareRefund(h) ==
  /\ \E amt \in 1 .. Amount, force, deduct \in BOOLEAN :
       /\ At(h, "idle") \/ (At(h, "auto") /\ amt = Amount /\ ~force /\ deduct)
       /\ IF status \in Open
            THEN handler' = [handler EXCEPT ![h] =
                   [pc |-> IF deduct THEN "plan" ELSE "lock", read |-> status,
                    amt |-> amt, force |-> force, take |-> 0]]
            ELSE Return(h)
  /\ UNCHANGED <<order, status, refundAmount, rollbackFailed, user, returned, failures>>

\* What the plan takes: the refund amount, but no more than there is, or the
\* days of the order.
ToDeduct(amt) ==
  IF kind = "subscription" THEN SubDays
  ELSE IF holding <= 0 THEN 0 ELSE IF amt < holding THEN amt ELSE holding

\* prepDeduct: without force, a balance or subscription that cannot be read ends
\* the refund; with it nothing is deducted.
PrepDeduct(h) ==
  /\ At(h, "plan")
  /\ LET found == kind = "balance" \/ (subscribed /\ holding > 0)
     IN  \/ /\ found /\ Works
            /\ handler' = [handler EXCEPT ![h].pc = "lock",
                                          ![h].take = ToDeduct(handler[h].amt)]
         \/ /\ (~found /\ Works) \/ Fails
            /\ IF handler[h].force THEN Goto(h, "lock") ELSE Return(h)
  /\ UNCHANGED <<order, status, refundAmount, rollbackFailed, user, returned>>

\* Mutant: a refund in progress may be taken over.
LockAgain == Open \cup {"REFUNDING"}
\* Mutant: what a partial refund left may be refunded as well.
LockPartial == Open \cup {"PARTIALLY_REFUNDED"}
\* ExecuteRefund starts from these.
LockFrom == Open

LockOrder(h) ==
  /\ At(h, "lock")
  /\ \/ /\ status \in LockFrom
        /\ status' = "REFUNDING"
        /\ (Works /\ Goto(h, "deduct")) \/ (Loses /\ Return(h))
     \/ /\ (status \notin LockFrom /\ Works) \/ Fails
        /\ Return(h)
        /\ UNCHANGED status
  /\ UNCHANGED <<order, refundAmount, rollbackFailed, user, returned>>

\* Mutant: the audit log is not consulted.
NeverSkip == FALSE
\* An earlier attempt deducted and could not roll back.
SkipDeduction == rollbackFailed

\* ExecuteRefund: the deduction.  An audit log that cannot be read reads as
\* empty; one failure may hit that read and the deduction after it.  A
\* subscription that cannot be shortened is revoked.
Deduct(h) ==
  /\ At(h, "deduct")
  /\ LET take == handler[h].take
         onError == IF kind = "balance" THEN "restore" ELSE "revoke"
         fits == kind = "balance" \/ (subscribed /\ holding > take)
     IN  \/ /\ take = 0 \/ SkipDeduction
            /\ handler' = [handler EXCEPT ![h].pc = "gateway", ![h].take = 0]
            /\ Works /\ UNCHANGED user
         \/ /\ take > 0 /\ fits
            /\ Take(take)
            /\ \/ ~SkipDeduction /\ Works /\ Goto(h, "gateway")
               \/ SkipDeduction /\ Fails /\ Goto(h, "gateway")
               \/ Loses /\ Goto(h, onError)
         \/ /\ take > 0
            /\ (~SkipDeduction /\ ~fits /\ Works) \/ Fails
            /\ Goto(h, onError)
            /\ UNCHANGED user
  /\ UNCHANGED <<order, status, refundAmount, rollbackFailed, returned>>

\* RevokeSubscription: the row goes, with all the days that were left.
Revoke(h) ==
  /\ At(h, "revoke")
  /\ \/ /\ subscribed
        /\ subscribed' = FALSE
        /\ holding' = 0
        /\ taken' = taken + holding
        /\ (Works /\ Goto(h, "gateway")) \/ (Loses /\ Goto(h, "restore"))
     \/ /\ (~subscribed /\ Works) \/ Fails
        /\ Goto(h, "restore")
        /\ UNCHANGED user
  /\ UNCHANGED <<order, status, refundAmount, rollbackFailed, returned>>

\* A full refund returns what was paid, a partial one the amount itself.
GatewayAmount(amt) == IF amt = Amount THEN PayAmount ELSE amt

\* gwRefund: nothing to do without a trade number.  The gateway returns no more
\* than it received, and refuses for reasons of its own.
GatewayRefund(h) ==
  /\ At(h, "gateway")
  /\ LET ga == GatewayAmount(handler[h].amt)
     IN  \/ ~tradeNo /\ Works /\ Goto(h, "record") /\ UNCHANGED returned
         \/ /\ tradeNo
            /\ returned + ga <= PayAmount
            /\ returned' = returned + ga
            /\ (Works /\ Goto(h, "record")) \/ (Loses /\ Goto(h, "rollback"))
         \/ tradeNo /\ Works /\ Goto(h, "rollback") /\ UNCHANGED returned
  /\ UNCHANGED <<order, status, refundAmount, rollbackFailed, user>>

\* markRefundOk; when its update fails the order stays REFUNDING.
MarkRefundOk(h) ==
  /\ At(h, "record")
  /\ \/ /\ status' = IF handler[h].amt < Amount THEN "PARTIALLY_REFUNDED" ELSE "REFUNDED"
        /\ refundAmount' = handler[h].amt
        /\ Works
     \/ Fails /\ UNCHANGED <<status, refundAmount>>
  /\ Return(h)
  /\ UNCHANGED <<order, rollbackFailed, user, returned>>

\* Mutant: the refund amount is given back, whatever was taken.
WholeAmount(plan) == plan.amt
\* RollbackRefund gives back what the plan took.
ToGiveBack(plan) == plan.take

\* RollbackRefund.  A revoked subscription cannot be extended.
RollbackRefund(h) ==
  /\ At(h, "rollback")
  /\ LET take == handler[h].take
         found == kind = "balance" \/ subscribed
     IN  \/ take = 0 /\ Works /\ Goto(h, "restore") /\ UNCHANGED user
         \/ /\ take > 0 /\ found
            /\ Take(0 - ToGiveBack(handler[h]))
            /\ (Works /\ Goto(h, "restore")) \/ (Loses /\ Goto(h, "note"))
         \/ /\ take > 0
            /\ (~found /\ Works) \/ Fails
            /\ Goto(h, "note")
            /\ UNCHANGED user
  /\ UNCHANGED <<order, status, refundAmount, rollbackFailed, returned>>

\* The audit row REFUND_ROLLBACK_FAILED, whose own error is only logged.
NoteRollbackFailed(h) ==
  /\ At(h, "note")
  /\ (rollbackFailed' = TRUE /\ Works) \/ (UNCHANGED rollbackFailed /\ Fails)
  /\ Goto(h, "fail")
  /\ UNCHANGED <<order, status, refundAmount, user, returned>>

\* handleGwFail after a failed rollback; the error of the update is ignored.
MarkRefundFailed(h) ==
  /\ At(h, "fail")
  /\ (status' = "REFUND_FAILED" /\ Works) \/ (UNCHANGED status /\ Fails)
  /\ Return(h)
  /\ UNCHANGED <<order, refundAmount, rollbackFailed, user, returned>>

\* Mutant: the order starts over.
StartOver(read) == "PAID"
\* restoreStatus: REFUND_FAILED is not restored.
Restored(read) == IF read = "REFUND_REQUESTED" THEN read ELSE "COMPLETED"

RestoreStatus(h) ==
  /\ At(h, "restore")
  /\ (status' = Restored(handler[h].read) /\ Works) \/ (UNCHANGED status /\ Fails)
  /\ Return(h)
  /\ UNCHANGED <<order, refundAmount, rollbackFailed, user, returned>>

\* The process dies, or the request is cancelled and every later call fails.
Abort(h) ==
  /\ ~At(h, "idle")
  /\ aborts < MaxAborts
  /\ aborts' = aborts + 1
  /\ Return(h)
  /\ UNCHANGED <<order, status, refundAmount, rollbackFailed, user, returned,
                 faults, lost>>

\* The user spends, or a day passes.
Spend ==
  /\ holding > 0
  /\ holding' = holding - 1
  /\ UNCHANGED <<order, status, refundAmount, rollbackFailed, subscribed, taken,
                 returned, handler, failures>>

Next ==
  \/ \E h \in Handlers :
       \/ RequestRefund(h) \/ CheckBalance(h) \/ MarkRequested(h)
       \/ PrepareRefund(h) \/ PrepDeduct(h) \/ LockOrder(h)
       \/ Deduct(h) \/ Revoke(h) \/ GatewayRefund(h) \/ MarkRefundOk(h)
       \/ RollbackRefund(h) \/ NoteRollbackFailed(h) \/ MarkRefundFailed(h)
       \/ RestoreStatus(h) \/ Abort(h)
  \/ Spend

Spec == Init /\ [][Next]_vars

-----------------------------------------------------------------------------
\* Properties.

Executes(h) == handler[h].pc \in Locked

\* One refund of an order executes at a time ("order status changed").
OneRefunder == \A h, g \in Handlers : Executes(h) /\ Executes(g) => h = g

\* A refunded order stays as it is, although every status after the lock is
\* written without looking, some of them from a plan read long before.
RefundIsFinal ==
  [][(status \in Closed) => status' = status /\ refundAmount' = refundAmount]_vars

\* Money the gateway returned is on record, or the order is still REFUNDING:
\* it is never open to another refund.  And the record is what was returned.
\* No answer may be lost: a lost one of the gateway looks like a refusal.
MoneyOutIsRecorded ==
  lost = 0 =>
    /\ returned # 0 => status \in Closed \cup {"REFUNDING"}
    /\ status \in Closed => returned = IF tradeNo THEN GatewayAmount(refundAmount) ELSE 0

\* "rolled back": while no statement fails, a balance order that is open has
\* cost the user nothing, however often the gateway refused.
RefusedCostsNothing ==
  kind = "balance" /\ status \in Open /\ faults + lost = 0 => taken = 0

\* "Skip balance deduction on retry if previous attempt already deducted":
\* one failing statement does not make the refunds of a balance order take more
\* than its amount.
TakenAtMostOnce ==
  kind = "balance" /\ lost = 0 /\ faults <= 1 => taken <= Amount
=============================================================================
