---------------------------- MODULE PaymentOrder ----------------------------
(***************************************************************************)
(* The life of a recharge order: creation, the gateway's notifications,    *)
(* cancellation, expiry, verification, and the fulfilment that turns a     *)
(* paid order into a balance credit or a subscription extension.           *)
(*                                                                         *)
(* A thread is one goroutine running one handler (a webhook delivery, a    *)
(* user's or an administrator's request, a pass of the expiry job).  Each  *)
(* database statement, provider call and transaction of a handler is one   *)
(* step, so that threads interleave between any two of them.               *)
(*                                                                         *)
(* A database write may succeed, fail, or be applied while its reply is    *)
(* lost; MaxFaults bounds how many do not succeed.  Abort is a process     *)
(* that dies, or a request context cancelled by a client that hangs up, in *)
(* the middle of a handler; MaxAborts bounds those.                        *)
(***************************************************************************)
EXTENDS Naturals

CONSTANTS
  Orders,         \* order ids
  BalanceOrders,  \* the orders of type "balance"; the rest are "subscription"
  Users,
  Owner,          \* Owner[o] is the user_id of order o
  Reporting,      \* orders whose provider always reports the amount paid
  Threads,        \* handlers that may run at the same time
  NoOrder,        \* the order of an idle thread
  MaxFaults,      \* bound on failed database calls
  MaxAborts       \* bound on handlers cut short

ASSUME ConstantsAssumption ==
  /\ BalanceOrders \subseteq Orders
  /\ Owner \in [Orders -> Users]
  /\ Reporting \subseteq Orders
  /\ NoOrder \notin Orders
  /\ MaxFaults \in Nat
  /\ MaxAborts \in Nat

VARIABLES
  status,       \* payment_orders.status; "NONE" before the row exists
  paidAt,       \* orders whose paid_at column is set
  tradeNo,      \* orders whose payment_trade_no column is not empty
  code,         \* the redeem code PAY-<id>-... of an order
  bonusCodes,   \* orders whose code carries the first-recharge bonus
  bonusTaken,   \* users whose referral_bonus_claimed_at is set
  delivered,    \* times the order's value reached the user
  subAudit,     \* orders with a SUBSCRIPTION_SUCCESS audit row
  unwound,      \* orders whose creation wrote FAILED over a fulfilment
  gateway,      \* what the payment provider knows of the order
  declined,     \* orders for which the provider reported a failed attempt
  acked,        \* orders whose success notification was answered with 2xx
  thread,       \* the running handlers
  faults, aborts

orderVars   == <<status, paidAt, tradeNo>>
codeVars    == <<code, bonusCodes, bonusTaken>>
effectVars  == <<delivered, subAudit, unwound>>
gatewayVars == <<gateway, declined>>
handlerVars == <<acked, thread>>
bounds      == <<faults, aborts>>
vars == <<orderVars, codeVars, effectVars, gatewayVars, handlerVars, bounds>>

OrderStatus == {"NONE", "PENDING", "PAID", "RECHARGING", "COMPLETED",
                "EXPIRED", "CANCELLED", "FAILED"}
Kinds == {"none", "create", "webhook", "verify", "cancel", "expire", "retry"}
\* The steps between winning RECHARGING and leaving it.
Fulfilling == {"find", "claim", "create", "redeem", "use", "group", "assign",
               "complete", "fail"}
Labels == Fulfilling \cup
          {"idle", "invoke", "unwind", "query", "close", "cancel", "confirm",
           "pay", "already", "guard", "lock", "audit", "reset"}

\* bonus: the value of the code includes the bonus; trade: the notification
\* carries a trade number.
Idle == [pc |-> "idle", kind |-> "none", order |-> NoOrder,
         bonus |-> FALSE, trade |-> FALSE]
Handlers == [pc : Labels, kind : Kinds, order : Orders \cup {NoOrder},
             bonus : BOOLEAN, trade : BOOLEAN]

TypeOK ==
  /\ status \in [Orders -> OrderStatus]
  /\ paidAt \subseteq Orders
  /\ tradeNo \subseteq Orders
  /\ code \in [Orders -> {"none", "unused", "used"}]
  /\ bonusCodes \subseteq Orders
  /\ bonusTaken \subseteq Users
  /\ delivered \in [Orders -> Nat]
  /\ subAudit \subseteq Orders
  /\ unwound \subseteq Orders
  /\ gateway \in [Orders -> {"none", "open", "paid", "short", "closed"}]
  /\ declined \subseteq Orders
  /\ acked \subseteq Orders
  /\ thread \in [Threads -> Handlers]
  /\ \A t \in Threads : thread[t].pc # "idle" => thread[t].order \in Orders
  /\ faults \in 0 .. MaxFaults
  /\ aborts \in 0 .. MaxAborts

Init ==
  /\ status = [o \in Orders |-> "NONE"]
  /\ paidAt = {}
  /\ tradeNo = {}
  /\ code = [o \in Orders |-> "none"]
  /\ bonusCodes = {}
  /\ bonusTaken = {}
  /\ delivered = [o \in Orders |-> 0]
  /\ subAudit = {}
  /\ unwound = {}
  /\ gateway = [o \in Orders |-> "none"]
  /\ declined = {}
  /\ acked = {}
  /\ thread = [t \in Threads |-> Idle]
  /\ faults = 0
  /\ aborts = 0

-----------------------------------------------------------------------------
\* Control of a handler.

At(t, label) == thread[t].pc = label
Job(t) == thread[t].order

Begin(t, kind, o, label) ==
  /\ At(t, "idle")
  /\ thread' = [thread EXCEPT ![t] =
                  [pc |-> label, kind |-> kind, order |-> o, bonus |-> FALSE,
                   trade |-> kind = "webhook" \/ o \in tradeNo]]

Goto(t, label) == thread' = [thread EXCEPT ![t].pc = label]

\* A handler that returns nil to a webhook acknowledges the notification; one
\* that returns an error makes the provider deliver it again.
Return(t, nil) ==
  /\ thread' = [thread EXCEPT ![t] = Idle]
  /\ acked' = IF nil /\ thread[t].kind = "webhook"
                THEN acked \cup {Job(t)} ELSE acked

\* A database call: done and reported, done but reported as an error, not done.
Outcomes == IF faults < MaxFaults THEN {"ok", "lost", "failed"} ELSE {"ok"}
Applied(r) == r # "failed"
Spend(r) == faults' = IF r = "ok" THEN faults ELSE faults + 1
ReadFails == faults < MaxFaults /\ faults' = faults + 1

\* UPDATE payment_orders SET status = to WHERE id = o AND status IN from.
SetStatus(o, to) == status' = [status EXCEPT ![o] = to]
CanCAS(o, from) == status[o] \in from

-----------------------------------------------------------------------------
\* Creation.

\* The row is committed as PENDING, then the provider is called.
CreateOrder(t, o) ==
  /\ status[o] = "NONE"
  /\ Begin(t, "create", o, "invoke")
  /\ SetStatus(o, "PENDING")
  /\ UNCHANGED <<paidAt, tradeNo, codeVars, effectVars, gatewayVars, acked,
                 bounds>>

\* The provider may refuse.  A trade it opened can be paid once the row holds
\* its link, also when the save's reply is lost and the handler takes the
\* creation for failed; nobody has the link when the save failed.  Some
\* providers name the trade only in their notification.
InvokeProvider(t) ==
  /\ At(t, "invoke")
  /\ \/ /\ UNCHANGED <<tradeNo, gateway, faults>>
        /\ Goto(t, "unwind")
     \/ \E r \in Outcomes :
          /\ Spend(r)
          /\ IF Applied(r)
               THEN /\ gateway' = [gateway EXCEPT ![Job(t)] = "open"]
                    /\ \E named \in SUBSET {Job(t)} :
                         tradeNo' = tradeNo \cup named
               ELSE UNCHANGED <<tradeNo, gateway>>
          /\ IF r = "ok" THEN thread' = [thread EXCEPT ![t] = Idle]
                         ELSE Goto(t, "unwind")
  /\ UNCHANGED <<status, paidAt, codeVars, effectVars, declined, acked,
                 aborts>>

\* FAILED is written whatever the status has become; its error is ignored.
InvokeFailed(t) ==
  /\ At(t, "unwind")
  /\ LET o == Job(t) IN
     \E r \in Outcomes :
       /\ Spend(r)
       /\ IF Applied(r)
            THEN /\ SetStatus(o, "FAILED")
                 /\ unwound' = IF status[o] \in {"RECHARGING", "COMPLETED"}
                                 THEN unwound \cup {o} ELSE unwound
            ELSE UNCHANGED <<status, unwound>>
  /\ thread' = [thread EXCEPT ![t] = Idle]
  /\ UNCHANGED <<paidAt, tradeNo, codeVars, delivered, subAudit, gatewayVars,
                 acked, aborts>>

-----------------------------------------------------------------------------
\* The payer and the provider.

PayerPays(o) ==
  /\ gateway[o] = "open"
  /\ \E g \in {"paid", "short"} : gateway' = [gateway EXCEPT ![o] = g]
  /\ UNCHANGED <<orderVars, codeVars, effectVars, declined, handlerVars,
                 bounds>>

AttemptDeclined(o) ==
  /\ gateway[o] = "open"
  /\ declined' = declined \cup {o}
  /\ UNCHANGED <<orderVars, codeVars, effectVars, gateway, handlerVars,
                 bounds>>

\* A success notification is delivered again until it is acknowledged, and
\* duplicates may still be under way then.
PaymentSucceeded(t, o) ==
  /\ gateway[o] \in {"paid", "short"}
  /\ Begin(t, "webhook", o, "confirm")
  /\ UNCHANGED <<orderVars, codeVars, effectVars, gatewayVars, acked, bounds>>

\* A failure notification may come at any time after the attempt, repeatedly.
HandlePaymentFailure(o) ==
  /\ o \in declined
  /\ CanCAS(o, {"PENDING"})
  /\ SetStatus(o, "FAILED")
  /\ \E named \in SUBSET {o} : tradeNo' = tradeNo \cup named
  /\ UNCHANGED <<paidAt, codeVars, effectVars, gatewayVars, handlerVars,
                 bounds>>

-----------------------------------------------------------------------------
\* Cancellation, expiry and verification: checkPaid, then the status change.

CancelOrder(t, o) ==
  /\ status[o] = "PENDING"
  /\ Begin(t, "cancel", o, "query")
  /\ UNCHANGED <<orderVars, codeVars, effectVars, gatewayVars, acked, bounds>>

\* The deadline may pass at any moment while the order is pending.
ExpireTimedOut(t, o) ==
  /\ status[o] = "PENDING"
  /\ Begin(t, "expire", o, "query")
  /\ UNCHANGED <<orderVars, codeVars, effectVars, gatewayVars, acked, bounds>>

VerifyOrder(t, o) ==
  /\ status[o] \in {"PENDING", "EXPIRED"}
  /\ Begin(t, "verify", o, "query")
  /\ UNCHANGED <<orderVars, codeVars, effectVars, gatewayVars, acked, bounds>>

\* A query may fail at any time; a verification never closes the trade.
QueryUpstream(t) ==
  /\ At(t, "query")
  /\ LET o == Job(t)
         verifying == thread[t].kind = "verify"
     IN  \/ IF verifying THEN thread' = [thread EXCEPT ![t] = Idle]
                         ELSE Goto(t, "cancel")
         \/ /\ gateway[o] \in {"paid", "short"}
            /\ Goto(t, "confirm")
         \/ /\ gateway[o] = "open"
            /\ ~verifying
            /\ Goto(t, "close")
  /\ UNCHANGED <<orderVars, codeVars, effectVars, gatewayVars, acked, bounds>>

\* Closing fails when the provider cannot close, or the payer was faster; the
\* order is cancelled locally all the same.
CloseUpstream(t) ==
  /\ At(t, "close")
  /\ \/ /\ gateway[Job(t)] = "open"
        /\ gateway' = [gateway EXCEPT ![Job(t)] = "closed"]
     \/ UNCHANGED gateway
  /\ Goto(t, "cancel")
  /\ UNCHANGED <<orderVars, codeVars, effectVars, declined, acked, bounds>>

\* Mutant: an update that forgets its status condition.
AnyStatus == OrderStatus
CancelFrom == {"PENDING"}

\* Mutant: the handler's result written for the status.
CancelResult(t) == IF thread[t].kind = "expire" THEN "EXPIRED" ELSE "cancelled"
CancelTo(t) == IF thread[t].kind = "expire" THEN "EXPIRED" ELSE "CANCELLED"

CancelCore(t) ==
  /\ At(t, "cancel")
  /\ \E r \in Outcomes :
       /\ Spend(r)
       /\ IF Applied(r) /\ CanCAS(Job(t), CancelFrom)
            THEN SetStatus(Job(t), CancelTo(t))
            ELSE UNCHANGED status
  /\ thread' = [thread EXCEPT ![t] = Idle]
  /\ UNCHANGED <<paidAt, tradeNo, codeVars, effectVars, gatewayVars, acked,
                 aborts>>

-----------------------------------------------------------------------------
\* A success notification: confirmPayment, toPaid, alreadyProcessed.

\* Mutant: no comparison of the amounts.
AnyAmount(o, reported) == TRUE
\* An amount of 0, NaN or infinity is none: it is not compared.
AmountMatches(o, reported) == reported => gateway[o] # "short"

\* An order that cannot be read is taken for an unknown one: nil, so 2xx.
ConfirmPayment(t) ==
  /\ At(t, "confirm")
  /\ \/ /\ ReadFails
        /\ Return(t, TRUE)
     \/ /\ \E reported \in IF Job(t) \in Reporting THEN {TRUE} ELSE BOOLEAN :
             IF AmountMatches(Job(t), reported)
               THEN Goto(t, "pay") /\ UNCHANGED acked
               ELSE Return(t, FALSE)
        /\ UNCHANGED faults
  /\ UNCHANGED <<orderVars, codeVars, effectVars, gatewayVars, aborts>>

\* Mutant: expired orders are not recovered.
UnexpiredOnly == {"PENDING", "CANCELLED", "FAILED"}
\* Mutant: cancelled orders are not recovered.
UncancelledOnly == {"PENDING", "EXPIRED", "FAILED"}
Recoverable == {"PENDING", "CANCELLED", "EXPIRED", "FAILED"}

ToPaid(t) ==
  /\ At(t, "pay")
  /\ \E r \in Outcomes :
       /\ Spend(r)
       /\ IF Applied(r) /\ CanCAS(Job(t), Recoverable)
            THEN /\ SetStatus(Job(t), "PAID")
                 /\ paidAt' = paidAt \cup {Job(t)}
                 /\ tradeNo' = IF thread[t].trade
                                 THEN tradeNo \cup {Job(t)}
                                 ELSE tradeNo \ {Job(t)}
                 /\ IF r = "ok" THEN Goto(t, "guard") /\ UNCHANGED acked
                                ELSE Return(t, FALSE)
            ELSE /\ UNCHANGED orderVars
                 /\ IF r = "ok" THEN Goto(t, "already") /\ UNCHANGED acked
                                ELSE Return(t, FALSE)
  /\ UNCHANGED <<codeVars, effectVars, gatewayVars, aborts>>

AlreadyProcessed(t) ==
  /\ At(t, "already")
  /\ LET s == status[Job(t)] IN
     \/ /\ ReadFails
        /\ Return(t, TRUE)
     \/ /\ s = "FAILED"
        /\ Goto(t, "guard")
        /\ UNCHANGED <<acked, faults>>
     \/ /\ s # "FAILED"
        /\ Return(t, s \notin {"PAID", "RECHARGING", "EXPIRED"})
        /\ UNCHANGED faults
  /\ UNCHANGED <<orderVars, codeVars, effectVars, gatewayVars, aborts>>

-----------------------------------------------------------------------------
\* Fulfilment.

\* The administrator's retry, up to the update that clears the failure.
RetryFulfillment(t, o) ==
  /\ o \in paidAt
  /\ status[o] \in {"FAILED", "PAID"}
  /\ Begin(t, "retry", o, "reset")
  /\ UNCHANGED <<orderVars, codeVars, effectVars, gatewayVars, acked, bounds>>

ResetForRetry(t) ==
  /\ At(t, "reset")
  /\ \E r \in Outcomes :
       /\ Spend(r)
       /\ IF Applied(r) /\ CanCAS(Job(t), {"FAILED", "PAID"})
            THEN SetStatus(Job(t), "PAID") ELSE UNCHANGED status
       /\ IF r = "ok" THEN Goto(t, "guard") /\ UNCHANGED acked
                      ELSE Return(t, FALSE)
  /\ UNCHANGED <<paidAt, tradeNo, codeVars, effectVars, gatewayVars, aborts>>

\* executeFulfillment and the checks before the lock.
CheckStatus(t) ==
  /\ At(t, "guard")
  /\ \/ /\ ReadFails
        /\ Return(t, FALSE)
     \/ /\ status[Job(t)] \in {"PAID", "FAILED"}
        /\ Goto(t, "lock")
        /\ UNCHANGED <<acked, faults>>
     \/ /\ status[Job(t)] \notin {"PAID", "FAILED"}
        /\ Return(t, status[Job(t)] = "COMPLETED")
        /\ UNCHANGED faults
  /\ UNCHANGED <<orderVars, codeVars, effectVars, gatewayVars, aborts>>

\* Mutant: a stuck order may be locked again.
LockAgain == {"PAID", "FAILED", "RECHARGING"}
LockFrom == {"PAID", "FAILED"}

\* Losing the race for RECHARGING is success for the loser.
LockOrder(t) ==
  /\ At(t, "lock")
  /\ \E r \in Outcomes :
       /\ Spend(r)
       /\ IF Applied(r) /\ CanCAS(Job(t), LockFrom)
            THEN /\ SetStatus(Job(t), "RECHARGING")
                 /\ IF r = "ok"
                      THEN /\ Goto(t, IF Job(t) \in BalanceOrders
                                        THEN "find" ELSE "group")
                           /\ UNCHANGED acked
                      ELSE Return(t, FALSE)
            ELSE /\ UNCHANGED status
                 /\ Return(t, r = "ok")
  /\ UNCHANGED <<paidAt, tradeNo, codeVars, effectVars, gatewayVars, aborts>>

\* Mutant: an existing code counts as redeemed.
SkipExisting(c) == IF c = "none" THEN "claim" ELSE "complete"
RedeemAction(c) == CASE c = "none"   -> "claim"
                     [] c = "unused" -> "redeem"
                     [] c = "used"   -> "complete"

\* resolveRedeemAction: a code that cannot be read is created.
FindCode(t) ==
  /\ At(t, "find")
  /\ \/ /\ ReadFails
        /\ Goto(t, "claim")
     \/ /\ Goto(t, RedeemAction(code[Job(t)]))
        /\ UNCHANGED faults
  /\ UNCHANGED <<orderVars, codeVars, effectVars, gatewayVars, acked, aborts>>

\* Mutant: the claim's condition is dropped.
AlwaysEligible(u) == TRUE
BonusEligible(u) == u \notin bonusTaken

\* The first recharge of an invited user carries a bonus; errors forgo it.
ClaimBonus(t) ==
  /\ At(t, "claim")
  /\ LET u == Owner[Job(t)] IN
     \E r \in Outcomes :
       LET won == Applied(r) /\ BonusEligible(u) IN
       /\ Spend(r)
       /\ bonusTaken' = IF won THEN bonusTaken \cup {u} ELSE bonusTaken
       /\ thread' = [thread EXCEPT
                       ![t] = [@ EXCEPT !.pc = "create",
                                        !.bonus = won /\ r = "ok"]]
  /\ UNCHANGED <<orderVars, code, bonusCodes, effectVars, gatewayVars, acked,
                 aborts>>

\* The code column is unique: a second creation fails.
CreateCode(t) ==
  /\ At(t, "create")
  /\ LET o == Job(t) IN
     \E r \in Outcomes :
       LET created == Applied(r) /\ code[o] = "none" IN
       /\ Spend(r)
       /\ code' = IF created THEN [code EXCEPT ![o] = "unused"] ELSE code
       /\ bonusCodes' = IF created /\ thread[t].bonus
                          THEN bonusCodes \cup {o} ELSE bonusCodes
       /\ Goto(t, IF created /\ r = "ok" THEN "redeem" ELSE "fail")
  /\ UNCHANGED <<orderVars, bonusTaken, effectVars, gatewayVars, acked,
                 aborts>>

\* Redeem's reads before its transaction (rate limit, lock, code, user).
RedeemChecks(t) ==
  /\ At(t, "redeem")
  /\ \/ /\ ReadFails
        /\ Goto(t, "fail")
     \/ /\ Goto(t, IF code[Job(t)] = "unused" THEN "use" ELSE "fail")
        /\ UNCHANGED faults
  /\ UNCHANGED <<orderVars, codeVars, effectVars, gatewayVars, acked, aborts>>

\* Mutant: Use without WHERE status = 'unused'.
CodeExists(o) == code[o] # "none"
CodeUnused(o) == code[o] = "unused"

\* Use and UpdateBalance in one transaction.
RedeemTx(t) ==
  /\ At(t, "use")
  /\ LET o == Job(t) IN
     \E r \in Outcomes :
       LET won == CodeUnused(o) IN
       /\ Spend(r)
       /\ IF Applied(r) /\ won
            THEN /\ code' = [code EXCEPT ![o] = "used"]
                 /\ delivered' = [delivered EXCEPT ![o] = @ + 1]
            ELSE UNCHANGED <<code, delivered>>
       /\ Goto(t, IF won /\ r = "ok" THEN "complete" ELSE "fail")
  /\ UNCHANGED <<orderVars, bonusCodes, bonusTaken, subAudit, unwound,
                 gatewayVars, acked, aborts>>

\* The owner sees the code in the order and may type it in by hand.
RedeemByHand(o) ==
  /\ code[o] = "unused"
  /\ code' = [code EXCEPT ![o] = "used"]
  /\ delivered' = [delivered EXCEPT ![o] = @ + 1]
  /\ UNCHANGED <<orderVars, bonusCodes, bonusTaken, subAudit, unwound,
                 gatewayVars, handlerVars, bounds>>

\* Mutant: the audit lookup names the wrong action.
PaidInAudit(o) == o \in paidAt
ExtendedInAudit(o) == o \in subAudit

\* doSub: the group must exist and be active, and the audit log tells whether
\* the order was already delivered; a log that cannot be read tells "no".
CheckGroup(t) ==
  /\ At(t, "group")
  /\ \/ /\ ReadFails
        /\ \E l \in {"fail", "assign"} : Goto(t, l)
     \/ /\ Goto(t, IF ExtendedInAudit(Job(t)) THEN "complete" ELSE "assign")
        /\ UNCHANGED faults
  /\ UNCHANGED <<orderVars, codeVars, effectVars, gatewayVars, acked, aborts>>

AssignSubscription(t) ==
  /\ At(t, "assign")
  /\ \E r \in Outcomes :
       /\ Spend(r)
       /\ delivered' = IF Applied(r)
                         THEN [delivered EXCEPT ![Job(t)] = @ + 1]
                         ELSE delivered
       /\ Goto(t, IF r = "ok" THEN "complete" ELSE "fail")
  /\ UNCHANGED <<orderVars, codeVars, subAudit, unwound, gatewayVars, acked,
                 aborts>>

MarkCompleted(t) ==
  /\ At(t, "complete")
  /\ \E r \in Outcomes :
       /\ Spend(r)
       /\ IF Applied(r) /\ CanCAS(Job(t), {"RECHARGING"})
            THEN SetStatus(Job(t), "COMPLETED") ELSE UNCHANGED status
       /\ Goto(t, IF r = "ok" THEN "audit" ELSE "fail")
  /\ UNCHANGED <<paidAt, tradeNo, codeVars, effectVars, gatewayVars, acked,
                 aborts>>

\* The audit row follows the status; its error is ignored.
AuditAndReturn(t) ==
  /\ At(t, "audit")
  /\ \E r \in Outcomes :
       /\ Spend(r)
       /\ subAudit' = IF Applied(r) /\ Job(t) \notin BalanceOrders
                        THEN subAudit \cup {Job(t)} ELSE subAudit
  /\ Return(t, TRUE)
  /\ UNCHANGED <<orderVars, codeVars, delivered, unwound, gatewayVars, aborts>>

FailFrom == {"RECHARGING"}

MarkFailed(t) ==
  /\ At(t, "fail")
  /\ \E r \in Outcomes :
       /\ Spend(r)
       /\ IF Applied(r) /\ CanCAS(Job(t), FailFrom)
            THEN SetStatus(Job(t), "FAILED") ELSE UNCHANGED status
  /\ Return(t, FALSE)
  /\ UNCHANGED <<paidAt, tradeNo, codeVars, effectVars, gatewayVars, aborts>>

-----------------------------------------------------------------------------
\* A handler dies, or its context is cancelled: nothing it would still do is
\* done, and every later statement on that context, markFailed's too, fails.
Abort(t) ==
  /\ ~At(t, "idle")
  /\ aborts < MaxAborts
  /\ aborts' = aborts + 1
  /\ thread' = [thread EXCEPT ![t] = Idle]
  /\ UNCHANGED <<orderVars, codeVars, effectVars, gatewayVars, acked, faults>>

\* What a running handler does next.
Step(t) ==
  \/ InvokeProvider(t) \/ InvokeFailed(t)
  \/ QueryUpstream(t) \/ CloseUpstream(t) \/ CancelCore(t)
  \/ ConfirmPayment(t) \/ ToPaid(t) \/ AlreadyProcessed(t)
  \/ ResetForRetry(t) \/ CheckStatus(t) \/ LockOrder(t)
  \/ FindCode(t) \/ ClaimBonus(t) \/ CreateCode(t)
  \/ RedeemChecks(t) \/ RedeemTx(t)
  \/ CheckGroup(t) \/ AssignSubscription(t)
  \/ MarkCompleted(t) \/ AuditAndReturn(t) \/ MarkFailed(t)

Request(t, o) ==
  \/ CreateOrder(t, o) \/ PaymentSucceeded(t, o)
  \/ CancelOrder(t, o) \/ ExpireTimedOut(t, o) \/ VerifyOrder(t, o)
  \/ RetryFulfillment(t, o)

Outside(o) ==
  PayerPays(o) \/ AttemptDeclined(o) \/ HandlePaymentFailure(o)
    \/ RedeemByHand(o)

Next ==
  \/ \E t \in Threads : Step(t) \/ Abort(t)
  \/ \E t \in Threads, o \in Orders : Request(t, o)
  \/ \E o \in Orders : Outside(o)

Spec == Init /\ [][Next]_vars

\* A request that was accepted runs to its end, and the provider delivers a
\* success notification until it is acknowledged.  Fairness is strong there
\* because the other handlers may occupy every thread of a small instance.
Fairness ==
  /\ \A t \in Threads : WF_vars(Step(t))
  /\ \A o \in Orders :
       SF_vars(o \notin acked /\ \E t \in Threads : PaymentSucceeded(t, o))

FairSpec == Spec /\ Fairness

-----------------------------------------------------------------------------
\* Properties.

Fulfils(t, o) == thread[t].pc \in Fulfilling /\ Job(t) = o

\* Moving an order to RECHARGING is the only lock of the fulfilment: whatever
\* webhooks, verifications, retries and cancellations run together, at most
\* one handler delivers an order at a time (ExecuteBalanceFulfillment's CAS).
\* One step alone opens that lock to a second handler: the FAILED of a
\* creation whose reply was lost (CreateOrder), which unwound records.
OneFulfiller ==
  \A t, u \in Threads, o \in Orders \ unwound :
    Fulfils(t, o) /\ Fulfils(u, o) => t = u

\* A balance order credits its user at most once, through duplicate
\* notifications, lost replies of any statement, aborted handlers, retries
\* and a code redeemed by hand in between (doBalance and Redeem).
CreditedAtMostOnce == \A o \in BalanceOrders : delivered[o] <= 1

\* An order is COMPLETED only after its value reached the user (markCompleted
\* never runs ahead of the redemption or the extension).
CompletedIsDelivered ==
  \A o \in Orders : status[o] = "COMPLETED" => delivered[o] >= 1

\* The provider was paid, and in full if it reports what it was paid.
Charged(o) ==
  /\ gateway[o] \in {"paid", "short"}
  /\ o \in Reporting => gateway[o] = "paid"

\* Value reaches the user only for an order the provider was paid for, never
\* after a declined attempt alone, and not for a wrong amount either, unless
\* the provider leaves the amount out (confirmPayment and the paid_at guard of
\* RetryFulfillment).
DeliveredIsPaid ==
  \A o \in Orders : delivered[o] > 0 => Charged(o) /\ o \in paidAt

\* The first-recharge bonus goes into at most one code of a user, however the
\* user's orders are fulfilled side by side (ClaimFirstRechargeBonus's CAS).
OneBonusPerUser ==
  \A o, p \in bonusCodes : Owner[o] = Owner[p] => o = p

\* A notification answered with 2xx has left its order paid: recorded, and out
\* of the reach of cancellation and expiry.  Holds as long as no read fails.
AckedIsRecorded ==
  \A o \in acked :
    Charged(o) /\ o \in paidAt
      /\ status[o] \in {"PAID", "RECHARGING", "COMPLETED", "FAILED"}

\* COMPLETED is final: late markFailed, cancellation, expiry, a second
\* notification and a retry all find the order closed.  Only CreateOrder can
\* reopen it, once, when its save of the link took effect and was not answered.
CompletedIsFinal ==
  [][\A o \in Orders :
       status[o] = "COMPLETED" =>
         \/ status'[o] = "COMPLETED"
         \/ o \in unwound' \ unwound /\ status'[o] = "FAILED"]_vars

\* A paid order never becomes unpaid, cancelled or expired again, although
\* cancelCore decided on a row it read before the payment arrived.
PaidIsNeverDropped ==
  [][\A o \in paidAt :
       /\ o \in paidAt'
       /\ status'[o] \notin {"PENDING", "CANCELLED", "EXPIRED"}]_vars

\* For balance orders the whole machinery implements the ledger of Settlement:
\* recorded at paid_at, credited at the redemption, settled at COMPLETED, and
\* credited no second time when its creation reopens it.
Ledger == INSTANCE Settlement WITH
            Recharges <- BalanceOrders,
            recorded  <- paidAt \cap BalanceOrders,
            credited  <- [o \in BalanceOrders |-> delivered[o]],
            settled   <- {o \in BalanceOrders : status[o] = "COMPLETED"},
            reopened  <- unwound \cap BalanceOrders

ImplementsSettlement == Ledger!Spec

\* A subscription order extends the subscription at most once (doSub: "Prevents
\* double-extension on retry after markCompleted fails").
ExtendedAtMostOnce == \A o \in Orders \ BalanceOrders : delivered[o] <= 1

\* alreadyProcessed: a success notification "must never be acknowledged while
\* the corresponding order is still unfulfilled".
AckedIsDelivered == \A o \in acked : delivered[o] >= 1

\* Without failures, what the payer paid is delivered in the end, whichever of
\* the webhook, the verification, the cancellation and the expiry comes first.
PaidIsDelivered ==
  \A o \in Orders : (gateway[o] = "paid") ~> (delivered[o] >= 1)
=============================================================================
