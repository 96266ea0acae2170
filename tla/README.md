# RightToken, specified and checked

RightToken (`src/`) is a gateway that resells access to AI providers. Users recharge a balance or buy a
subscription, call the gateway with an API key, and are billed per call; the gateway spreads the calls over a
pool of upstream accounts. The server is written in Go (`src/backend`), runs as several goroutines per process
and possibly several processes, and keeps its state in PostgreSQL (through ent) and Redis (mostly Lua scripts).

This directory specifies the parts of the server where concurrency, failures and ordering decide whether money
and capacity are accounted for correctly. Every module is translated from the code; `PROJECT.json` maps each
definition to its lines. TLC checks the modules on small instances (`MC*.tla`, `*.cfg`), TLAPS proves the most
important results for every instance (`*Proofs.tla`).

## 1. Inventory

### 1.1 Components whose state machines matter

| component | state | operations | hard because | correct when |
|---|---|---|---|---|
| **Payment orders** `service/payment_order.go`, `payment_fulfillment.go`, `payment_order_lifecycle.go`, `handler/payment_webhook_handler.go` | `payment_orders.status`, `paid_at`, `payment_trade_no`, audit log; the trade at the provider | create, notification, cancel, expire, verify, fulfil, administrator's retry | notifications are duplicated and late; five kinds of handler work on one row; every statement may fail after it took effect; requests are cancelled by clients | what was paid is delivered exactly once, an acknowledged notification is never lost, a closed order stays closed |
| **Refunds** `service/payment_refund.go` | the same row (`REFUND_*`), the user's balance or subscription, the provider's refund | request, prepare, execute, roll back | deduct, refund and record are three systems without a transaction; provider answers may be lost | the user never ends with both the money and the value, nor with neither |
| **Redeem codes** `service/redeem_service.go` | code status, balances, a Redis lock | create, redeem, use | a code may be redeemed by two requests and by a fulfilment at once | one code gives its value once |
| **Referral commissions** `service/referral_service.go`, `repository/referral_commission_repo.go` | commissions, caps, first-recharge claims | accrue, settle, void, reverse on refund | read-then-add on caps | commissions per order exist once and stay under the cap |
| **Idempotency** `service/idempotency.go`, `repository/idempotency_repo.go` | one record per scope and key: status, lock deadline, expiry | execute, replay, reclaim, extend, cleanup | crashes while processing, clients that retry, reclaim races | one execution's effects per key; a finished result is replayed |
| **System operation lock** `service/system_operation_lock_service.go` | one idempotency record used as a lease | acquire, renew, release | lease expiry, reclaim, renewal by fingerprint | two system operations never run together |
| **Concurrency slots** `service/concurrency_service.go`, `repository/concurrency_cache.go`, `handler/gateway_helper.go` | a sorted set of request ids per user and account, wait counters with a TTL | acquire, wait, release, expire, startup cleanup | crashes leak slots, clock-based expiry, release races with client disconnects | never more running requests than slots, no slot leaked for ever |
| **User message queue** `service/user_msg_queue_service.go`, `repository/user_msg_queue_cache.go` | one Redis lock per account, last completion time | acquire, wait, release, cleanup of orphans | lock without renewal, fail-open | one user message at a time per account |
| **Usage billing** `repository/usage_billing_repo.go`, `service/usage_record_worker_pool.go`, `service/billing_cache_service.go` | dedup rows, balances, quotas, a Redis balance cache | apply, cache, invalidate | asynchronous tasks, retries, cached balances | each request is billed once |
| **OAuth token refresh** `service/oauth_refresh_api.go`, `service/token_refresh_service.go` | credentials of an account with a version, a Redis lock | refresh, recover from a race | a refresh token may be used once; lock without owner | the newest credentials are kept |
| **Login sessions** `service/auth_service.go`, `repository/refresh_token_cache.go` | refresh tokens in families | login, rotate, revoke | rotation is read-then-delete | a refresh token is used once |
| **Scheduler snapshots** `service/scheduler_snapshot_service.go`, `repository/scheduler_cache.go`, `repository/scheduler_outbox_repo.go` | versioned account snapshots in Redis, an outbox with a watermark | rebuild, apply an event, poll | sequence gaps of uncommitted events, concurrent rebuilds | the snapshot catches up with the database |
| **Account failover and sticky sessions** `handler/failover_loop.go`, `service/gateway_service.go` | tried accounts, bound sessions | select, fail over, bind | retries across accounts | bounded attempts, no account retried in a request |
| **OpenAI WebSocket pool** `service/openai_ws_pool.go` | upstream connections per account | lease, return, evict, prewarm | leases race with eviction | a connection serves one lease at a time |

### 1.2 Components that are listed and not modelled

API-key authentication cache, rate limits of accounts, session-limit and RPM caches (single Redis commands with a
TTL); usage cleanup tasks and dashboard aggregation (batch jobs claimed by one update); operations monitoring,
backup, self-update, e-mail queue, TOTP; settings, announcements, groups, proxies and the rest of the
administration (CRUD); promo codes; the conversion between provider APIs (`pkg/apicompat`, `pkg/antigravity`,
Gemini: pure functions over JSON); the Vue frontend; the `recall-admin` Next.js application; generated ent code
and deployment files. `PROJECT.json` lists each with its reason.

### 1.3 How the components interact

A webhook (or a verification, the expiry job, an administrator) drives a payment order to PAID and calls the
fulfilment in the same goroutine. The fulfilment of a balance order creates a redeem code and redeems it through
the redeem service, which updates the balance in one transaction; on the way it asks the referral service for the
first-recharge bonus. A subscription order calls the subscription service. Refunds work on the same row later.
Gateway requests take a concurrency slot of the user, choose an account, take a slot of the account and possibly
the user message lock, call upstream, and hand the usage to the billing worker. Components share state through
PostgreSQL rows and Redis keys and nothing else; the only callbacks are `context.AfterFunc` releases of slots.

## 2. Plan

| step | modules | what | status |
|---|---|---|---|
| 1 | `PaymentOrder`, `Settlement` | order life cycle and fulfilment; abstract ledger and refinement | done |
| 2 | `PaymentOrderProofs` | type correctness, inductive invariant, exclusion, single credit, finality, refinement; acknowledgement and single extension under the calls they need | done |
| 3 | `SystemOperationLock`, `IdempotencyStore` | the lease, renewal, takeover, cleanup | done |
| 4 | `SystemOperationLockProofs` | type correctness, exclusion and kept leases, of operations that end within their lease and of retries of one operation | done |
| 5 | `Idempotency` | the coordinator with client retries, crash, expiry and cleanup | done |
| 6 | `IdempotencyProofs` | type correctness, one execution at a time, no effect after a success, faithful replays | done |
| 7 | `PaymentRefund` | refund of a completed order, with the provider's ambiguity and the rollback | done |
| 8 | `PaymentRefundProofs` | type correctness, exclusion, finality, money on record, free refusals, single deduction | done |
| 9 | `GatewayAdmission` | slots, wait counters and message lock with expiry, disconnection, crash and startup cleanup | done |
| 10 | `GatewayAdmissionProofs` | type correctness, limits, queue bound, exact counters, exclusion, ownership of slots | done |
| 11 | `UsageBilling`, `Metering` | claim, charge and archive of a request, the cached balance, concurrent edits; abstract account | done |
| 12 | `UsageBillingProofs`, `Sums` | type correctness, one charge per id, what is logged was charged, the ledger, the cached balance, refinement | done |
| 13 | `Referral`, `TokenRefresh`, `RefreshRotation`, `SchedulerOutbox` | in this order of risk | open |

Composition: `PaymentOrder` contains the redeem code because the fulfilment's correctness depends on its exact
steps; `PaymentRefund` starts from an order `PaymentOrder` has COMPLETED.

`GatewayAdmission` and `UsageBilling` follow the same request one after the other; they share no state (Redis slots there,
balance here), so neither needs the other's variables. What is open: `Referral` keeps the sum of first-recharge commissions
under the cap when claims do not overlap, and reverses no more than it accrued; `TokenRefresh` and `RefreshRotation` use each
refresh token once; `SchedulerOutbox` delivers every event at least once; quotas, rate limits and subscription usage join
`UsageBilling` as further effects of its transaction. The runs are kept few: two properties that can share an instance share
a run.

## 3. Payment orders

### 3.1 The model

`PaymentOrder` has a set of handler threads. A thread is a goroutine that runs one handler; its `pc` is the
statement it is about to execute. One database statement, transaction or provider call is one action, so TLC and
the proofs interleave handlers between any two of them.

| state in the model | in the code |
|---|---|
| `status`, `paidAt`, `tradeNo` | `payment_orders.status`, `paid_at IS NOT NULL`, `payment_trade_no <> ''` |
| `code`, `bonusCodes` | the `redeem_codes` row of the order: absent, unused, used; whether its value holds the bonus |
| `bonusTaken` | `users.referral_bonus_claimed_at` |
| `delivered` | a counter of credits or extensions, which the code does not keep: it is what the properties are about |
| `unwound` | orders whose creation wrote FAILED over a fulfilment: a history, for the properties |
| `subAudit` | a `payment_audit_logs` row with action `SUBSCRIPTION_SUCCESS` |
| `gateway`, `declined` | what the provider knows: no trade, open, paid in full, paid a different amount, closed; a reported failure |
| `acked` | success notifications the webhook answered with 2xx |
| `thread` | the running handlers and their local variables |

| actions | code |
|---|---|
| `CreateOrder`, `InvokeProvider`, `InvokeFailed` | `CreateOrder`, `createOrderInTx`, `invokeProvider` |
| `PayerPays`, `AttemptDeclined` | the payer and the provider (external) |
| `PaymentSucceeded`, `ConfirmPayment`, `ToPaid`, `AlreadyProcessed` | `handleNotify`, `HandlePaymentNotification`, `confirmPayment`, `toPaid`, `alreadyProcessed` |
| `HandlePaymentFailure` | `handlePaymentFailure` |
| `CancelOrder`, `ExpireTimedOut`, `VerifyOrder`, `QueryUpstream`, `CloseUpstream`, `CancelCore` | `CancelOrder`, `ExpireTimedOutOrders`, `VerifyOrderByOutTradeNo`, `checkPaid`, `cancelCore` |
| `RetryFulfillment`, `ResetForRetry` | `RetryFulfillment` |
| `CheckStatus`, `LockOrder` | `executeFulfillment`, `ExecuteBalanceFulfillment`, `ExecuteSubscriptionFulfillment` |
| `FindCode`, `ClaimBonus`, `CreateCode`, `RedeemChecks`, `RedeemTx`, `RedeemByHand` | `doBalance`, `resolveRedeemAction`, `ClaimFirstRechargeBonus`, `CreateCode`, `Redeem` |
| `CheckGroup`, `AssignSubscription` | `doSub`, `hasAuditLog` |
| `MarkCompleted`, `AuditAndReturn`, `MarkFailed` | `markCompleted`, `markFailed` |
| `Abort` | the process dies, or the client disconnects and the request context is cancelled |

A database write has three outcomes: done, done with its reply lost, not done. `MaxFaults` bounds the second and
third, `MaxAborts` bounds `Abort`. The save of the payment link (`payment_order.go:215`) is one of these writes: with
its reply lost the order can be paid while `CreateOrder` takes it for failed, and the FAILED it then writes
(`payment_order.go:59`) may hit an order that is paid, in fulfilment or COMPLETED.

Amounts are paid in full or not (`paid`, `short`). `confirmPayment` compares only a positive finite amount
(`payment_fulfillment.go:107-118`): a reported 0, NaN or infinity is let through, and Cryptomus always reports 0
(`cryptomus.go:103,142`). `Reporting` has the orders whose provider always names the amount; the others may be
confirmed with any payment. Other amounts, fees, texts, rate limits and the commission that `doBalance` accrues
after the credit are left out: commissions belong to the referral component.

`Settlement` is what all this promises for balance orders: an order's payment is recorded, its value is credited
once, the order is settled, and may be reopened once, by its own creation, without being credited again. `ImplementsSettlement` is the refinement.

### 3.2 The runs

| run | instance | shows |
|---|---|---|
| `payment_balance` | 1 balance order, 2 threads, 2 faults, 1 abort, amount reported (693 000 states) | the refinement, `CompletedIsFinal`, `PaidIsNeverDropped`, `DeliveredIsPaid`, `OneFulfiller`, `CreditedAtMostOnce`, types |
| `payment_bonus` | 2 balance orders of 1 user, 2 threads, no failures, amount not reported (5.5 million states) | `OneBonusPerUser`, and `AckedIsRecorded`, which needs reads that do not fail |
| `payment_subscription` | 1 subscription order, 2 threads, fairness, no failures (18 000 states) | `PaidIsDelivered`; `ExtendedAtMostOnce` while no statement fails; `CompletedIsDelivered` |
| `payment_double_extension` | 1 subscription order, 1 thread, 1 fault | violated: a failed `markCompleted` makes the retry extend twice |
| `payment_acked_undelivered` | 1 balance order, 1 thread, 1 fault | violated: a failed read acknowledges a payment that is not recorded |

Seen while modelling, without a run of its own: an order whose handler stops in RECHARGING is out of reach of
every retry, because `RetryFulfillment` answers "order is being processed" (`payment_fulfillment.go:388`); the only way out
is the database. The first-recharge bonus is claimed before the code that carries it is created
(`payment_fulfillment.go:272`): when the creation fails the claim is spent and the retry creates a code without it. An order
COMPLETED and then written FAILED by its creation is extended a second time by a retry when it is a subscription
and its audit row is missing; a balance order finds its code used.

Orders do not interact except through the bonus of their user, so one order is enough everywhere else. Two
threads meet every pair of handlers. The liveness run has the subscription order, whose handlers race up to the
fulfilment exactly as those of a balance order do. Two faults reach a lost reply
followed by a failed compensation; one abort reaches every abandoned label. Thread symmetry is used in the safety
runs, never with a liveness property. Deadlock is not checked: once every order is closed nothing need happen.

Fairness (`FairSpec`): a running handler proceeds (Go schedules every goroutine), and the provider repeats a
notification until it gets a 2xx, which every provider of `internal/payment/provider` documents. It is strong
fairness because the instance has a bounded number of threads which other requests can occupy; the server has
none.

### 3.3 The proofs

`PaymentOrderProofs` proves, for any sets of orders, users and threads and any bounds: `TypeCorrect`,
`FulfilmentIsExclusive`, `CreditIsUnique`, `CompletionFollowsDelivery`, `DeliveryFollowsPayment`,
`CompletionIsFinal`, `PaymentIsKept`, `BonusIsUnique` and `Refinement`, from `ConstantsAssumption` alone, and
`AckFollowsRecord` and `ExtensionIsUnique`, under a hypothesis on which calls get their answer.

None of the properties is inductive. `IInv` adds what the code relies on without writing it down:

* `CreatorsInv`: one handler creates an order; until it has called the provider nobody can pay, and until it gives up
  it has reopened nothing. Its unconditional write of FAILED therefore happens at most once per order.
* `PaidInv`: PAID, RECHARGING and COMPLETED imply `paid_at`, which implies `Charged`: a payment at the provider, the
  full one if the provider reports amounts; and a handler past `toPaid` works on such an order. It carries `AlreadyProcessed`, which enters the fulfilment of a
  FAILED order without looking at `paid_at`.
* `LockInv`: a handler in the fulfilment has its order in RECHARGING, except one whose `markCompleted` took effect
  and lost its reply (then the order is COMPLETED and no compare-and-set takes it), and except the handlers of an order
  in `unwound`.
* `CodeInv`, `CreditInv`: a balance order was credited exactly if its code is used. Single credit therefore does
  not depend on the RECHARGING lock; it survives a handler that works on after its lock is gone, and a redemption
  by hand.
* `DeliveredInv`, `StageInv`: what a handler has achieved when it reaches a label.

The step lemma has a case per action: first what the action does to the few variables the invariant mentions,
then the two halves of the invariant. `Effect` condenses a step into the six things that can happen to an order;
the action properties and the refinement follow from it. `BonusInv` is a separate chain: claim, ticket, code.

`AckFollowsRecord` is `Spec /\ LookupsWork => []AckedIsRecorded`. `LookupsWork` says that the lookup of the order in
`confirmPayment` does not fail; any other statement may fail or lose its reply, and any handler may be cut short.
The hypothesis cannot go: `confirmPayment` answers every error of that lookup with nil, as if there were no such order, and the
webhook then answers 2xx (the finding of `payment_acked_undelivered`). The invariant beside `IInv` is
`acked \subseteq paidAt`; the proof shows that each return of nil to a webhook happens at a label where `PaidInv`
has the order recorded.

`ExtensionIsUnique` is `Spec /\ ExtensionsWork => []ExtendedAtMostOnce`. `ExtensionsWork` says that `InvokeProvider`,
`AssignSubscription` and `MarkCompleted` get their answers; a process may still die between them. Each of the three is
needed: `markFailed` after a failed `markCompleted` lets a retry extend again (the finding of `payment_double_extension`), so
does an extension whose reply is lost, and so does a creation that writes FAILED over the fulfilment.
`CreationInv` says that without it a creation that gives up has left nothing to pay and no order is in `unwound`. `ExtensionInv` says that an extended order is RECHARGING or
COMPLETED, so that no retry takes it, and that whoever is about to extend it, or to mark it FAILED, has not extended it.

### 3.4 Refunds: the model

`PaymentRefund` starts from an order `PaymentOrder` has COMPLETED, a recharge or a subscription, and follows
`payment_refund.go`. A handler is a goroutine in `RequestRefund` (the owner, perhaps approved automatically) or in
`PrepareRefund` and `ExecuteRefund` (an administrator); its record is the pc and the `RefundPlan` it carries from
the one to the other.

| in the model | in the code |
|---|---|
| `kind`, `tradeNo`, `status`, `refundAmount` | `order_type`, `payment_trade_no <> ''`, `status`, `refund_amount` of the order |
| `rollbackFailed` | an audit row `REFUND_ROLLBACK_FAILED` of the order |
| `holding`, `subscribed` | the user's balance, or the days left of the subscription; whether its row exists |
| `taken`, `returned` | what refunds took from the user and kept, what the gateway paid back: histories, for the properties |
| `handler[h].read`, `.amt`, `.force`, `.take` | the plan: status read, amount, force, what will be deducted |
| `RequestRefund`, `CheckBalance`, `MarkRequested` | `validateRefundRequest`, the balance check, the update with its eligibility for automatic approval |
| `PrepareRefund`, `PrepDeduct` | `PrepareRefund`, `prepDeduct` |
| `LockOrder`, `Deduct`, `Revoke`, `GatewayRefund` | `ExecuteRefund`, with `DeductBalance`, `ExtendSubscription`, `RevokeSubscription`, `gwRefund` |
| `MarkRefundOk` | `markRefundOk` |
| `RollbackRefund`, `NoteRollbackFailed`, `MarkRefundFailed`, `RestoreStatus` | `handleGwFail`, `RollbackRefund`, `restoreStatus` |
| `Abort`, `Spend` | the handler stops; the user spends or a day passes (external) |

A statement has three outcomes again, now counted apart because the properties tell them apart: it works, it fails
without effect (`MaxFaults`), or it takes effect and reports an error (`MaxLost`). Where the code ignores the error
the last is the same as the first. A read that fails and only ends the handler is covered by `Abort`.

Amounts are whole numbers in one unit. The code compares with a tolerance of a cent, which only blurs the border
between a full and a partial refund; texts, the choice of the provider instance and the reversal of commissions
after a refund are left out (the last belongs to the planned `Referral`). The read and the write of
`ExtendSubscription` are one step: only the refund that holds the order, and the passing of days, change the
subscription in the model.

### 3.5 Refunds: the run

| run | instance | shows |
|---|---|---|
| `payment_refund` | 2 handlers, amount 2 paid as 3, 2 days sold, holdings from 0 to 3, 2 faults, 1 lost answer, 1 abort (3.8 million states) | types, `OneRefunder`, `RefundIsFinal`, `MoneyOutIsRecorded`, `RefusedCostsNothing`, `TakenAtMostOnce` |

Amount 2 has one partial and one full refund, with pay amount 3 so that the gateway's sum differs from the order's;
holdings lie below, at and above it. A handler can start again after it returned, so two handlers give any sequence
of attempts and any pair that overlaps. Two faults reach a failed rollback followed by a failed audit row. Deadlock
is not checked: a refunded order and an empty balance need do nothing more.

The properties carry their premises because the code does: `MoneyOutIsRecorded` says nothing once an answer of the
gateway was lost, `RefusedCostsNothing` nothing once a statement failed, `TakenAtMostOnce` allows one failure (a
rollback that fails, whose audit row makes the next attempt skip the deduction). What happens beyond these
premises, seen in the code while modelling:

* A lost answer of the gateway is taken for a refusal: the deduction is rolled back and the order opened again,
  although the money went out.
* The audit row of a failed rollback is never cleared. After it, an attempt deducts nothing, and when the gateway
  refuses again the reply still says "rolled back" (`payment_refund.go:255`).
* `ExecuteRefund` revokes the subscription after any error of `ExtendSubscription`, a lost answer included; the
  comment at `payment_refund.go:206` gives only the case that the deduction would expire it.
* A failed `markRefundOk`, or a handler that stops after the lock, leaves the order REFUNDING; nothing leaves that
  status.
* The amount is that of the order, in CNY; the fulfilment credited it divided by 7 (`payment_fulfillment.go:264`),
  and the refund deducts the undivided amount from the same balance. The model has one unit and does not show it.
* The window of automatic refunds is read before the refund of another order is recorded: two orders of one user
  can both be approved.

### 3.6 Refunds: the proofs

`PaymentRefundProofs` proves for any handlers, amounts and failures, from `RefundAssumption` alone: `RefundTypeCorrect`,
`RefundIsExclusive`, `RefundedStays`, `RefundMoneyIsRecorded`, `RefusalIsFree` and `RefundTakesOnce`: every property
of the run.

The inductive invariant `RInv` has four parts. `HolderInv`: a handler between the lock and its return has the order
REFUNDING, alone; this is what makes the unconditional writes of `restoreStatus` and `markRefundOk` harmless.
`MoneyInv` and `TakenInv` say, for an open order, a closed one, and each label of the handler that holds it, what was
returned and what was taken; `PlanInv` bounds every plan by the order's amount. `QuietKeepsInv` settles everything
before the lock at once, `LockKeepsInv` the lock; in `HolderKeepsInv` step `<1>q` reduces the invariant to what the
holder's own step must show, then there is one step per action.

## 4. System operation lock

### 4.1 The model

`IdempotencyStore` has the SQL statements of `repository/idempotency_repo.go` on one row of
`idempotency_records`, each with its WHERE clause as an operator. `SystemOperationLock` is the protocol that
`SystemOperationLockService` runs on such a row so that one update, rollback or restart runs at a time. One unit
of time is the renewal interval, 10 s in the default configuration; `Lease` is the processing timeout in this
unit (30 s = 3).

| in the model | in the code |
|---|---|
| `row`, `lastId` | the row of scope `admin.system.operations.global_lock` and the table's sequence |
| `op` | one call: the clock it read in `Acquire`, the id and status it read, whether it runs |
| `loop`, `renewed` | its goroutine `renewLoop`: off, on, or in a firing that began before the stop channel was closed |
| `Acquire`, `GetExisting`, `Reclaim` | the three statements of `Acquire` |
| `Renew` | one firing of `renewLoop`: extended, refused (the loop ends) or failed (it goes on) |
| `Finish`, `Release` | the handler is done; `Release` closes the channel, then marks the row by its id |
| `Crash`, `DeleteExpired`, `Tick` | the process dies; the cleanup service; time |

Timing is what such a lock assumes and cannot enforce, so `Tick` states it: a renewal that is due happens before
the clock moves on, an acquisition takes at most `MaxLag`, less than the lease, from reading the clock to its
claim, an operation takes at most `MaxRun`, and a release (which has a context of 2 s) falls within one unit.

### 4.2 The runs

| run | instance | shows |
|---|---|---|
| `system_lock_renewed` | 3 calls with one operation id (retries), `MaxRun` twice the lease, lag 0, 1 failing statement, clock to 8 (4.8 million states) | `LeaseIsRenewed`, `MutualExclusion` |
| `system_lock_lapsed` | 2 calls with ids of their own, `MaxRun` twice the lease | `LeaseIsRenewed` violated: the second holder cannot renew |

The clock reaches two full leases after the first, enough for insertion, takeover and takeover of a takeover;
the third call is the one that profits from somebody else's mistake. Lag is 0 in the first run because a reading
as old as a unit shortens the first lease by one. Operations that end within their lease need no run: the theorem
`ShortRunsExclude` below covers them for every number of calls.

What the runs say together: the lock excludes if operations end within their lease, and it excludes longer
operations if all carry the operation id of the row. It does not keep the lease of an operation that took the row
over from one with another id (finding on `TryReclaim`), so a second system operation can then start beside it.

### 4.3 What is proved

`SystemOperationLockProofs`, for any set of calls, any ids, lease, lag and number of faults:

- `LockTypeCorrect`: `Spec => []TypeOK`.
- `ShortRunsExclude`, `ShortRunsKeepTheirLease`: if `MaxRun <= Lease` then `Spec => []MutualExclusion` and
  `Spec => []LeaseIsRenewed`.
- `RetriesExclude`, `RetriesKeepTheirLease`: if `RetriesOfOne /\ LeaseCovers` then `Spec => []MutualExclusion` and
  `Spec => []LeaseIsRenewed`, for any `MaxRun`.

`MutualExclusion` alone is not inductive: a step that claims the row must know that nobody runs. `LockInv` adds
that a running call (`HolderInv`) still owns the row - its id, in processing, locked at least until a lease after
the call's clock reading, not expired before - and that a call on its way to the claim (`LagInv`) read a clock no
older than the lag. A reclaim needs `lockedUntil <= now`, which `MaxRun <= Lease` rules out while somebody runs;
so does the cleanup, because the row expires no earlier than its lock. A release or a late renewal touches the
row of its own call only.

`RetriesOfOne` says that all calls carry one operation id, and `LeaseCovers`, `MaxLag + MaxFaults + 1 < Lease`, that the
lag of a claim and the renewals that fail leave the lease one interval. Both are needed: without the first TLC has the
counterexample of `system_lock_lapsed`; without the second the lease runs out between two renewals. `RenewInv` is
about the renewal loop instead of the length of the operation. `IdInv`: the row has the operation id of every
call, so no renewal is refused. `LoopInv`: the loop of a running call is on and at most one interval late, and
`renewed + Lease <= lockedUntil + MaxLag + faults`, that is, every failed statement has cost the lease at most one interval.
With `LeaseCovers` this gives `clock < lockedUntil` (`HeldInv`), which refuses every reclaim and the cleanup.

## 5. Idempotency coordinator

### 5.1 The model

`Idempotency` is `IdempotencyCoordinator.Execute` for the requests of one `Idempotency-Key`, over the same
statements. Keys do not interact, so one is enough.

| in the model | in the code |
|---|---|
| `row`, `lastId` | the record of the key and the table's sequence |
| `req` | one request: the clock it read, the id and status of the record it read, its answer |
| `effects` | the effects the business operation had, with the clock reading of the claim and whether it reported success: a history the code does not keep |
| `Submit`, `GetExisting`, `Reclaim` | the statements of a claim: insert, read, take over an expired or failed record |
| `Run` | the business operation (external): it succeeds with its effect, or reports an error without one or after one (committed before the error, or half done, as in the loop of `GenerateRedeemCodes`, `admin_service.go:2064-2098`) |
| `MarkSucceeded`, `MarkFailed` | the mark that follows; an error reaches the caller (success) or the log (failure) |
| `Crash` | the process dies, or the request's context is cancelled so that every later statement fails |
| `DeleteExpired`, `Tick` | the cleanup service; time |

A statement that writes may fail with or without its effect (`MaxFaults` counts these and the crashes). A request
stands for its own response; a response longer than the stored maximum (`Large`) is stored cut off. Requests
with another fingerprint are in the model because the same key under another payload must be refused.

`Tick` assumes that a claim takes at most `MaxLag`, less than the processing timeout, and that an execution ends
before its record expires (the record lives 24 h, the operations have request timeouts of minutes).

### 5.2 The runs

| run | instance | shows |
|---|---|---|
| `idempotency_retries` | 4 requests, one with another payload, one with a long response, 2 faults, the clock past the expiry of the first record (8 million states) | types; `OneExecutionAtATime` across expiry, cleanup, reclaim; `NoEffectAfterSuccess`; `ReplayIsFaithful` |
| `idempotency_race` | 3 requests, no fault | `OneEffectPerWindow` violated once records expire |

Two faults allow a failed mark and a lost claim in one history. `NoEffectAfterSuccess` speaks of the time before the
first record can expire, and the race run shows that nothing more holds.

What the coordinator promises is about executions that succeed. Any error of the operation marks the record
`failed_retryable` (`idempotency.go:394-418`), so an operation that commits and then reports an error, or fails halfway,
is executed again by the next retry and its effect is had twice: in the model too, and no property forbids it, since only
the operation itself could prevent it.

Seen while modelling, without a run of their own: after a crash the key answers "in progress" until the record
expires, not until its lock times out, because an expired lock is reclaimed from a processing record only when
the record has expired too (`config.go:171` describes the timeout as the lock's); and a succeeded record whose
response was longer than the stored maximum is answered with 503 instead of a replay.

### 5.3 What is proved

`IdempotencyProofs`, for any requests, fingerprints, lifetimes and number of faults:

- `IdempotencyTypeCorrect`: `Spec => []TypeOK`.
- `ExecutionsExclude`: `Spec => []OneExecutionAtATime`. The invariant `KeyInv` says that the executing request
  owns the record, which is processing and has not expired (`ExecuteInv`), that a claim on its way read a clock at
  most `MaxLag` ago (`ClaimInv`), and that a claim which saw the record expired read a clock before the end of the
  present lock (`LateClaimInv`; this is where `MaxLag < Timeout` is used). Together they refuse every reclaim while
  somebody executes.
- `EffectIsUnique`: `Spec => NoEffectAfterSuccess`. Its invariants hold while `clock <= TTL`: `LifeInv` says that
  no claim sees an expired record, `SingleInv` that a success leaves a record which is processing or
  succeeded from then on, while only a failed one is reclaimed, and that nobody is about to execute any more.
- `ReplaysAreFaithful`: `Spec => []ReplayIsFaithful`. The difficulty is that `MarkSucceeded` and `Reclaim` address the record by
  its id, which a cleanup and a second insertion change under a slow request. `OwnerInv` says that ids are never reused and that
  whoever executes, or is about to take the record over, has its fingerprint. `BodyInv` says that a stored response is that
  of a successful execution, and the record expires a lifetime after the claim of that execution. `ReaderInv` is for the request that
  found the record expired, lost the race to take it over and reads it again without comparing the expiry
  (`expired` and `again` in the model): whatever has succeeded meanwhile outlives the clock it read.

## 6. Admission of gateway requests

### 6.1 The model

`GatewayAdmission` follows one request of `GatewayHandler.Messages` from the user's wait counter to the last release,
over the Redis scripts of `concurrency_cache.go` and `user_msg_queue_cache.go`. It has one user, one account and the
runs (`Lives`) of the server process, each with its own request-id prefix.

| in the model | in the code |
|---|---|
| `slots[p]` | the members of `concurrency:user:{id}` and `concurrency:account:{id}` whose request is known |
| `leaked[p]` | members of the same sets whose id nobody remembers (an answer was lost, a release failed) |
| `waiting[p]` | the counters `concurrency:wait:{id}` and `wait:account:{id}` |
| `lock` | the value of `umq:{account}:lock`: a request's id, or an id nobody remembers (`Orphan`) |
| `life` | a run of the process: not started, serving, dead |
| `lapsed` | how many requests were counted in a wait counter when it lapsed: a history, for the properties |
| `held[r]` | the release functions (`wrapReleaseOnDone`) the request has not run |
| `cancelled` | requests whose context is cancelled: `context.AfterFunc` runs their release functions |
| `Start` | `CleanupStaleProcessSlots`, which the server runs before it serves, and how far it got |
| `Arrive`, `Plan` | `IncrementWaitCount`, `IncrementAccountWaitCount`; an error counts as success |
| `Acquire`, `GiveUp`, `Decrement` | the attempts of `waitForSlotWithPingTimeout`, its end, the deferred decrement |
| `Select` | the slot tried during the selection of the account, and the slot lost when the account cannot be read again |
| `TakeLock`, `ReleaseLock` | the user message queue, which fails open |
| `Answered`, `Return` | `Forward` and the loop over accounts around it |
| `SlotLapses`, `LeakLapses`, `LockLapses`, `CounterLapses` | the times to live |

Times to live are not clocks: what a request holds may lapse when the request is over, when its process is dead, or at
any time for the requests in `Slow`. The properties speak of the others, so they say what holds as long as no time to
live is outlived. The wait counters are the exception, because they are outlived in every configuration: the key lives as
long as the longest wait plan (`repository/wire.go:18-21`), from its last increment, and the wait starts after it. So
`CounterLapses` happens at any time, under waiting requests too, and `lapsed` counts those.

The limits are at least 1: `concurrency_service.go:131,170` lets every request through without a slot when a limit is not
positive, which is no pool at all. `Select` may plan to wait with room left, as the load-aware selection does; an account
that is gone when it is read again (no error, no account) counts as a failure.

### 6.2 The run

| run | instance | shows |
|---|---|---|
| `gateway_admission` | 3 requests of one process (one slow) and one of the next, user limit 2, account limit 1, queues of 1, one failing call or one request that outlives its counter, not both, two disconnections at most (constraint `FewMishaps`; 2.6 million states, requests 2 and 3 interchangeable) | types, `WithinLimit`, `WaitersWithinBound`, `CountersAreExact`, `MessagesSerialized`, `SlotsAreOwned` |

Three requests fill the user's slots and leave one to wait; the account's limit of 1 makes two of them meet there. The
second life starts over whatever the first left, and its cleanup may stop at a failing command. Deadlock is not
checked: all requests end and all processes die.

### 6.3 What the model shows beyond the properties

* The cleanup at startup removes every slot whose id has not the prefix of the starting process
  (`concurrency_cache.go:505`), and both wait counters. That is right for one process at a time, which `Overlap = FALSE`
  states and `LimitsHold`, `QueueBound` and `CountersExact` assume. With `Overlap = TRUE` TLC violates
  `WithinLimit` and `CountersAreExact` at once: the second process removes the slots the first one's requests use.
  `deploy/DEPLOY-SOP.md:512` plans several stateless replicas ("sub2api 无状态多副本"); under that plan every start of a
  replica lifts the limits of the others for a while.
* An increment that fails counts as success, and fails as well when the client has just disconnected
  (`concurrency_service.go:218`); the deferred decrement has a context of its own and succeeds (`:234`). Each such pair
  takes the place of another waiting request. `WaitersWithinBound` and `CountersAreExact` carry these terms.
* A request that waits to the end outlives the counter it is counted in (`concurrency_cache.go:115`). Until its late
  decrement the queue admits one more than its bound, and the decrement then takes a newcomer's place, without any failing
  call. `WaitersWithinBound` and `CountersAreExact` carry `lapsed`.
* `newSelectionResult` returns an error without the release function it was given (`gateway_service.go:2434`), although
  the result of an acquisition must be released (`concurrency_service.go:128`): the slot stays for 15 minutes. The
  `leaked` bound of `SlotsAreOwned` includes it.
* The message lock is not renewed and fails open on every error; `MessagesSerialized` is about requests that have it.

### 6.4 The proofs

`GatewayAdmissionProofs` proves every property of the run for any requests, limits, queues, homes and failures:
`AdmissionTypeCorrect`, `LimitsHold`, `QueueBound`, `CountersExact`, `MessageExclusion`, `SlotOwnership`. The limits
follow from slots being owned: a request that is neither slow nor cancelled and uses a slot has it in the set (nothing
removes it: its release function has not run, and the cleanup of a later life finds no request of an earlier one
serving), so the users of a pool are a subset of its set, which `HasRoom` keeps below the limit. The counters need a
balance between the counter and the requests that wait, kept step by step over the cardinality of `Waiters`. These
cardinalities need `Requests` to be finite, and nothing else. `Slack` is what the counters may miss: failed calls,
disconnected clients, requests that outlived their counter; no step gives any of it back (`StepSlack`, `StepLapsed`).

## 7. Usage billing

### 7.1 The model

`UsageBilling` follows the charge of a served request to the balance of one user: `checkBalanceEligibility`, the record
handed to the worker pool, the transaction of `usageBillingRepository.Apply`, and the cached balance that the next
eligibility check reads. Beside the requests run recharges, refunds, edits of the user and the cleanup of the claims.

| in the model | in the code |
|---|---|
| `balance` | `users.balance` |
| `dedup`, `archive` | the rows of `usage_billing_dedup` and `usage_billing_dedup_archive`, by request id (and key) |
| `print[r]` | the fingerprint of what is billed: known when the upstream has answered, hence chosen by `Submit` |
| `applied` | requests whose transaction has committed: a history |
| `cache` | the key `billing:balance:{user}` in Redis |
| `leader`, `Load`, `Join`, `Loaded` | the singleflight of `GetUserBalance`, its call, the value it returns to all |
| `read[r]`, `queued` | cache writes of kind set and deduct, in the queue or in a worker's hands; `Room` bounds them |
| `Insert`, `CompareRow`, `CompareArchived` | the statements of `claimUsageBillingKey` |
| `Commit` | `applyUsageBillingEffects` and the commit: the row lock of the update hides the one from the other |
| `Finalize`, `SetCache`, `DeductCache`, `Expire` | `finalizePostUsageBilling`, the cache workers, the key's time to live |
| `Recharge` | `AddBalance` in a transaction of its own (`UserService.UpdateBalance`, redeeming a code); those in `Silent` are `DeductBalance` of a refund and `UpdateBalance` of its rollback (`payment_refund.go:193,285`) |
| `ReadUser`, `WriteUser`, `Reject` | `GetByID` and `userRepository.Update`, which sets every column, the balance with them |
| `Invalidate` | the goroutine that deletes the cached balance after a recharge or an adjustment |

An INSERT that conflicts with an uncommitted row waits for it (`Claimed`), as PostgreSQL does. A failure rolls the
transaction back; a lost answer of the commit does not. A process that dies is a failure of its next step.

`clean`, `stale`, `unseen` and `overwritten` belong to the properties. A load is clean while nothing has changed the balance since
and no deduction was under way when it read; a cached value that came from another load is stale. `unseen` are the silent changes made since the cached value was
loaded. `overwritten` becomes
true when an edit writes a balance over one it did not read.

`Metering` is what all this promises: of the requests with one id one is charged, once, a price its answer may have; a
recharge is added once; an edit notes the balance and replaces it later, never by a change below zero; nothing else
moves the balance. `ImplementsMetering` is the refinement: `charged` is `applied`, `settled` the recharges and edits that are
made, `noted` what the edits under way have read. Claims, archive, failures, lost answers and the cache are stutters.

### 7.2 The run

| run | instance | shows |
|---|---|---|
| `usage_billing` | 2 requests with one id, each cheap or dear, and a third with another id; a recharge, a refund, an adjustment and a failure, any two of them, the claim of the third not archived (constraint `TwoDisturbances`), room for one cache write (2.5 million states) | types, `BilledOnce`, `LoggedIsBilled`, `BalanceIsLedger`, `CacheFollowsBalance`, `ImplementsMetering` |

Two requests with one id meet as repetition (same fingerprint) and as conflict (another one); the third charges beside
them, so that two deductions and a load cross in the cache. The balance starts at 1, below what all of them cost: some
requests are refused and the balance goes below zero. With room for one write a set is queued in one behaviour and
dropped in the next; the deductions are not bounded by it, as in the code. Deadlock is not checked: everything ends.

### 7.3 What the model shows beyond the properties

* `userRepository.Update` writes `SetBalance(userIn.Balance)` (`user_repo.go:261`) in every edit of a user, an edit of
  the name in `UpdateProfile` included. What is charged or recharged between the read and the write is undone.
  `BalanceIsLedger` holds until this happens and fails without the exception, with two steps of an edit around one charge.
* A refund takes its amount from `users.balance` (`payment_refund.go:193`), its rollback gives it back (`:285`), and nothing
  invalidates the cached balance, as recharges and adjustments do. Requests are let through on the refunded money until the
  key expires, which every deduction puts off. `CacheFollowsBalance` says that the cached balance is off by exactly
  the refunds made since it was loaded.
* A charge is committed and its answer lost: `RecordUsage` returns the error, nothing is logged and the cached balance
  is not reduced, though the user has paid. `BilledOnce` says that a repetition does not pay again.
* A repetition whose answer has other token counts has another fingerprint: it is served, and its billing is refused
  as a conflict. The same happens in any overlap with the archive (`CompareRow` finds no row).
* The record is lost when the pool is full (policy drop) or stops: the request is served and not charged.
* A stale cached balance stays wrong for longer than the key's time to live: every deduction renews it
  (`billing_cache.go:80`). A user who keeps sending requests keeps the wrong value until the next recharge or a pause.

### 7.4 The proofs

`UsageBillingProofs` proves every property of the run for any requests, ids, prices, changes, room and failures:
`BillingTypeCorrect`, `OneCharge`, `LoggedWasCharged`, `LedgerBalances`, `CacheAgrees` and `MeteringRefinement`. The invariant of the first three has
three parts. `RowInv`: each charged request is recorded under its id, in the
table or in the archive, never both. `ClaimInv`: a request inside its transaction has its id alone, no row of it exists, and
after the comparison none is archived; this is what the waiting INSERT and the one-statement cleanup give.
`LoggedInv`: what is logged found such a row with its own fingerprint.

`BalanceIsLedger` and `CacheFollowsBalance` add up costs over sets. `Sums` has the laws they need: a sum over a finite set is an
integer, grows by the weight of an element that is added, and depends only on the weights. The library's induction theorems
take an operator, so `SubsetInduction` states induction over the subsets of a finite set for a set of subsets instead,
from the well-foundedness of the strict subset ordering; with it an additive function on the subsets exists and
is the sum (`AdditiveIsBody`, `SumIs`).

`LedgerBalances` adds `FiniteInv` (only finitely many requests were charged and changes settled, though the constants
may be infinite) and `LedgerInv`, the equation over the settled changes. `CacheAgrees` adds who may write the
cache: `QueuedInv` (a queued deduction belongs to a charged request that is done), and `CleanInv` (a load that nothing has
outdated read the balance as it is, and no deduction is under way), and `UnseenInv` (what the cache has not seen was settled, hence is finite). `Trusted` is when the cache can be believed; the step
lemma follows a charge from the commit, which lowers the balance and adds the same cost to the deductions under way, to the
deduction that lowers the cached value.

`MeteringRefinement` needs two facts beside the types: what is charged is one of the request's bills (`PrintInv`), and `OneCharge`
after the step, because `Metering` charges an id only once. `BalanceIsLedger` is about the behaviours in which no
edit overwrites anything; the refinement also says what each step does after one has.

## 8. Conventions

An operator preceded by a comment `Mutant:` is not used by the model: it is a faulty variant of the definition
after it, and replacing that definition by it makes the property named in `PROJECT.json` fail. Every passing
property has one.

## 9. Only model-checked

`PaidIsDelivered`, the liveness property, which is out of the prover's reach; every other property of a passing run is proved
for all values of the constants. Some theorems have a hypothesis beside the assumptions on the constants: the two of 3.3 on
which calls get their answer, those of 4.3 on the length of operations or on the operation ids and the lease, and the three
of 6.4 that exclude overlapping processes. The runs that expect a violation show what happens without those of 3.3 and 4.3.

## 10. Not modelled

Table 1.1 names four components without a module: OAuth token refresh, login sessions, scheduler snapshots, and the
WebSocket pool with the failover loop. They are state machines of the same kind and the next candidates; of referrals
only the first-recharge bonus is modelled (in `PaymentOrder`). The components of 1.2 keep no state whose interleavings
matter, or only call remote services; `PROJECT.json` has the reason of each.
